-------------------------- MODULE TerminalStreamProofs --------------------------
(***************************************************************************)
(* What the panes of a terminal show, for every number of browsers, every  *)
(* length of output, every capacity of the queues between them and every   *)
(* bound of the delta ring.                                                *)
(***************************************************************************)
EXTENDS TerminalStream, TLAPS

-----------------------------------------------------------------------------
(* Types.                                                                  *)

LEMMA CellsType ==
    ASSUME NEW from \in Nat, NEW to \in Nat, from <= to, NEW e \in Epochs
    PROVE  /\ Cells(from, to, e) \in Views
           /\ Len(Cells(from, to, e)) = to - from
           /\ \A k \in 1..(to - from) : Cells(from, to, e)[k] = <<from + k, e>>
<1>1. to - from \in Nat
  OBVIOUS
<1>2. \A k \in 1..(to - from) : <<from + k, e>> \in Nat \X Epochs
  OBVIOUS
<1> QED  BY <1>1, <1>2 DEF Cells, Views

LEMMA CellsView ==
    ASSUME NEW from \in Nat, NEW to \in Nat, NEW e \in Epochs
    PROVE  Cells(from, to, e) \in Views
<1>1. CASE from <= to
  BY <1>1, CellsType
<1>2. CASE ~(from <= to)
  <2>1. 1..(to - from) = 1..0
    BY <1>2
  <2>2. Cells(from, to, e) = <<>>
    BY <2>1 DEF Cells
  <2> QED  BY <2>2 DEF Views
<1> QED  BY <1>1, <1>2

LEMMA ScreenType ==
    ASSUME TypeOK
    PROVE  /\ Screen \in Views /\ Len(Screen) = Len(log)
           /\ \A k \in 1..Len(log) : Screen[k] = <<k, log[k]>>
<1>1. \A k \in 1..Len(log) : <<k, log[k]>> \in Nat \X Epochs
  BY DEF TypeOK, Epochs
<1>2. log \in Seq(Nat) /\ DOMAIN log = 1..Len(log) /\ Len(log) \in Nat
  BY DEF TypeOK
<1>3. Screen = [k \in 1..Len(log) |-> <<k, log[k]>>]
  BY <1>2 DEF Screen
<1> QED  BY <1>1, <1>2, <1>3 DEF Views

LEMMA SnapshotType ==
    ASSUME TypeOK
    PROVE  SnapshotView \in Views
<1> DEFINE kept == output.checkpoint
<1>1. CASE kept # NoUpload /\ kept.epoch = output.epoch /\ kept.sequence >= output.earliest
  <2>1. kept.view \in Views /\ kept.sequence \in Nat /\ output.epoch \in Epochs
    BY <1>1 DEF TypeOK, States, Uploads, Positions, Epochs, Unset
  <2>2. Cells(kept.sequence, output.sequence, output.epoch) \in Views
    BY <2>1, CellsView DEF TypeOK, States
  <2> QED  BY <1>1, <2>1, <2>2 DEF SnapshotView, Views
<1> QED  BY <1>1, ScreenType DEF SnapshotView

LEMMA MessageType ==
    /\ \A t \in {"size", "resume", "restore", "synced", "exit"}, n \in Nat :
          Message(t, n) \in Messages
    /\ \A m, n \in Nat : OutputMessage(m, n) \in Messages
    /\ \A n \in Nat, v \in Views : SnapshotMessage(n, v) \in Messages
<1>1. <<>> \in Views
  BY DEF Views
<1>2. \A t \in {"size", "resume", "restore", "synced", "exit", "output", "snapshot"}, n \in Nat :
         Message(t, n) \in Messages
  BY <1>1 DEF Message, Messages
<1>3. \A m, n \in Nat : OutputMessage(m, n) \in Messages
  BY <1>2 DEF OutputMessage, Messages
<1>4. \A n \in Nat, v \in Views : SnapshotMessage(n, v) \in Messages
  BY <1>2 DEF SnapshotMessage, Messages
<1> QED  BY <1>2, <1>3, <1>4

LEMMA SyncType ==
    ASSUME TypeOK, NEW r \in BOOLEAN, NEW s \in Positions,
           r => s \in Nat
    PROVE  SyncMessages(r, s) \in Seq(Messages)
<1>1. output.sequence \in Nat /\ output.epoch \in Nat
  BY DEF TypeOK, States
<1>2. r => Resuming(s) \in Seq(Messages)
  BY <1>1, MessageType DEF Resuming
<1>3. Restoring \in Seq(Messages)
  BY <1>1, MessageType, SnapshotType DEF Restoring
<1>4. <<Message("exit", 0)>> \in Seq(Messages) /\ <<>> \in Seq(Messages)
  BY MessageType
<1> QED  BY <1>2, <1>3, <1>4 DEF SyncMessages

\* A receiver with another queue.
LEMMA ReceiverType ==
    ASSUME NEW r \in Receivers, NEW q \in Seq(Occurrences), NEW x,
           \/ x = [r EXCEPT !.queue = q]
           \/ x = [r EXCEPT !.queue = q, !.lagged = TRUE]
    PROVE  x \in Receivers /\ x.queue = q
<1>1. CASE x = [r EXCEPT !.queue = q]
  BY <1>1 DEF Receivers
<1>2. CASE x = [r EXCEPT !.queue = q, !.lagged = TRUE]
  BY <1>2 DEF Receivers
<1> QED  BY <1>1, <1>2

LEMMA SentType ==
    ASSUME NEW r \in Receivers, NEW q \in Seq(Occurrences), NEW n \in Nat, NEW x,
           x = [r EXCEPT !.queue = q, !.sent = n]
    PROVE  x \in Receivers /\ x.queue = q
  BY DEF Receivers

LEMMA NoReceiverType == NoReceiver \in Receivers /\ NoReceiver.queue = <<>>
<1>1. <<>> \in Seq(Occurrences)
  OBVIOUS
<1> QED  BY <1>1 DEF NoReceiver, Receivers

LEMMA EnqueueType ==
    ASSUME NEW r \in Receivers, Len(r.queue) <= EventCapacity, NEW e \in Occurrences
    PROVE  /\ Enqueue(r, e) \in Receivers
           /\ Len(Enqueue(r, e).queue) <= EventCapacity
<1>1. r.queue \in Seq(Occurrences) /\ EventCapacity \in Nat \ {0}
  BY StreamAssumption DEF Receivers
<1>2. CASE ~r.live
  BY <1>2 DEF Enqueue
<1>3. CASE r.live /\ Len(r.queue) < EventCapacity
  <2>1. Append(r.queue, e) \in Seq(Occurrences) /\ Len(Append(r.queue, e)) = Len(r.queue) + 1
    BY <1>1
  <2>2. Enqueue(r, e) = [r EXCEPT !.queue = Append(r.queue, e)]
    BY <1>3 DEF Enqueue
  <2>3. Enqueue(r, e) \in Receivers /\ Enqueue(r, e).queue = Append(r.queue, e)
    BY <2>1, <2>2, ReceiverType
  <2> QED  BY <1>1, <1>3, <2>1, <2>3
<1>4. CASE r.live /\ ~(Len(r.queue) < EventCapacity)
  <2>1. r.queue # <<>>
    BY <1>1, <1>4
  <2>2. /\ Append(Tail(r.queue), e) \in Seq(Occurrences)
        /\ Len(Append(Tail(r.queue), e)) = Len(r.queue)
    BY <1>1, <2>1
  <2>3. Enqueue(r, e) = [r EXCEPT !.queue = Append(Tail(r.queue), e), !.lagged = TRUE]
    BY <1>4 DEF Enqueue
  <2>4. Enqueue(r, e) \in Receivers /\ Enqueue(r, e).queue = Append(Tail(r.queue), e)
    BY <2>2, <2>3, ReceiverType
  <2> QED  BY <1>1, <2>2, <2>4
<1> QED  BY <1>2, <1>3, <1>4

LEMMA BroadcastType ==
    ASSUME TypeOK, NEW e \in Occurrences, Broadcast(e)
    PROVE  /\ receiver' \in [Clients -> Receivers]
           /\ \A c \in Clients : Len(receiver'[c].queue) <= EventCapacity
  BY EnqueueType DEF Broadcast, TypeOK

LEMMA TypeInit == Init => TypeOK
<1> SUFFICES ASSUME Init PROVE TypeOK
  OBVIOUS
<1>1. <<>> \in Views /\ <<>> \in Seq(Writes) /\ <<>> \in Seq(Messages) /\ <<>> \in Seq(Occurrences)
  BY DEF Views
<1>0. log = <<>> /\ log \in Seq(Nat) /\ Len(log) = 0
  BY DEF Init
<1>2. NoUpload \in Uploads
  BY <1>1 DEF NoUpload, Uploads, Positions, Epochs
<1>3. receiver \in [Clients -> Receivers] /\ \A c \in Clients : Len(receiver[c].queue) <= EventCapacity
  BY NoReceiverType, StreamAssumption DEF Init
<1>4. pane \in [Clients -> Panes]
  BY <1>1 DEF Init, Panes, Positions, Epochs
<1>5. /\ output.safe \subseteq 0..output.sequence /\ output.safe \in SUBSET Nat
      /\ output.earliest \in 0..output.sequence /\ output.sequence = 0
  BY DEF Init
<1>6. output \in States
  BY <1>2, <1>5 DEF Init, States
<1>7. wire \in [Clients -> Seq(Messages)] /\ upload \in [Clients -> Uploads]
      /\ exitedAt = Unset /\ announced = FALSE
  BY <1>1, <1>2 DEF Init
<1> QED  BY <1>0, <1>3, <1>4, <1>5, <1>6, <1>7 DEF TypeOK

LEMMA TypePublish ==
    ASSUME TypeOK, NEW g \in BOOLEAN, Publish(g)
    PROVE  TypeOK'
<1>1. log' \in Seq(Nat) /\ Len(log') = Len(log) + 1
  BY DEF Publish, TypeOK, States
<1>2. output.sequence \in Nat /\ RingBytes \in Nat
  BY StreamAssumption DEF TypeOK, States
<1>3. Event("output", output.sequence) \in Occurrences
  BY <1>2 DEF Event, Occurrences
<1> DEFINE sequence == output.sequence + 1
           earliest == IF sequence - output.earliest > RingBytes
                         THEN sequence - RingBytes ELSE output.earliest
           kept == {s \in output.safe : s >= earliest}
           safe == IF g THEN kept \cup {sequence} ELSE kept
<1>4. sequence \in Nat /\ earliest \in 0..sequence /\ safe \subseteq 0..sequence
  BY <1>2 DEF TypeOK, States
<1>5. output' = [output EXCEPT !.sequence = sequence, !.earliest = earliest, !.ground = g,
                               !.safe = safe]
  BY DEF Publish
<1>6. earliest \in Nat /\ safe \in SUBSET Nat
  BY <1>4
<1> HIDE DEF sequence, earliest, safe
<1>7. output' \in States /\ output'.sequence = sequence /\ output'.safe = safe /\ output'.earliest = earliest
  BY <1>4, <1>5, <1>6 DEF TypeOK, States
<1>8. sequence = Len(log')
  BY <1>1, <1>2 DEF sequence, TypeOK
<1>9. UNCHANGED <<exitedAt, announced, wire, pane, upload>> /\ exitedAt' \in {Unset} \cup 0..Len(log')
  BY <1>1 DEF Publish, TypeOK
<1>10. /\ receiver' \in [Clients -> Receivers]
       /\ \A c \in Clients : Len(receiver'[c].queue) <= EventCapacity
  BY <1>3, BroadcastType DEF Publish
<1> QED  BY <1>1, <1>4, <1>7, <1>8, <1>9, <1>10 DEF TypeOK

LEMMA TypeResize ==
    ASSUME TypeOK, Resize
    PROVE  TypeOK'
<1>1. Event("size", output.epoch + 1) \in Occurrences
  BY DEF Event, Occurrences, TypeOK, States
<1>2. NoUpload \in Uploads
  BY DEF NoUpload, Uploads, Positions, Epochs, Views
<1>3. /\ output' \in States
      /\ output'.sequence = output.sequence
      /\ output'.safe \subseteq 0..output'.sequence
      /\ output'.earliest = output.earliest
  <2> DEFINE safe == IF output.ground THEN {output.sequence} ELSE {}
  <2>1. safe \in SUBSET Nat /\ safe \subseteq 0..output.sequence
    BY DEF TypeOK, States
  <2>2. output' = [output EXCEPT !.epoch = @ + 1, !.safe = safe, !.checkpoint = NoUpload]
    BY DEF Resize, Resized
  <2> HIDE DEF safe
  <2>3. output \in States /\ output.epoch + 1 \in Nat
    BY DEF TypeOK, States
  <2>4. output' \in States
    BY <1>2, <2>1, <2>2, <2>3 DEF States
  <2>5. output'.sequence = output.sequence /\ output'.safe = safe /\ output'.earliest = output.earliest
    BY <2>2, <2>3 DEF States
  <2> QED  BY <2>1, <2>4, <2>5
<1>4. /\ receiver' \in [Clients -> Receivers]
      /\ \A c \in Clients : Len(receiver'[c].queue) <= EventCapacity
  BY <1>1, BroadcastType DEF Resize
<1> QED  BY <1>3, <1>4 DEF Resize, TypeOK

LEMMA TypeExited ==
    ASSUME TypeOK, Exited
    PROVE  TypeOK'
<1>1. exitedAt' \in {Unset} \cup 0..Len(log)
  BY DEF Exited, TypeOK
<1> QED  BY <1>1 DEF Exited, TypeOK

LEMMA TypeAnnounceExit ==
    ASSUME TypeOK, AnnounceExit
    PROVE  TypeOK'
<1>1. Event("exit", 0) \in Occurrences
  BY DEF Event, Occurrences
<1>2. /\ receiver' \in [Clients -> Receivers]
      /\ \A c \in Clients : Len(receiver'[c].queue) <= EventCapacity
  BY <1>1, BroadcastType DEF AnnounceExit
<1> QED  BY <1>2 DEF AnnounceExit, TypeOK

LEMMA TypeStoreCheckpoint ==
    ASSUME TypeOK, NEW c \in Clients, StoreCheckpoint(c)
    PROVE  TypeOK'
<1>1. NoUpload \in Uploads
  BY DEF NoUpload, Uploads, Positions, Epochs, Views
<1>2. /\ output' \in States
      /\ output'.sequence = output.sequence
      /\ output'.safe = output.safe
      /\ output'.earliest = output.earliest
  BY DEF StoreCheckpoint, TypeOK, States
<1>3. upload' \in [Clients -> Uploads]
  BY <1>1 DEF StoreCheckpoint, TypeOK
<1> QED  BY <1>2, <1>3 DEF StoreCheckpoint, TypeOK

LEMMA TypeSynchronize ==
    ASSUME TypeOK, NEW c \in Clients, NEW s \in Positions, NEW e,
           Synchronize(c, s, e)
    PROVE  /\ wire' \in [Clients -> Seq(Messages)]
           /\ receiver' \in [Clients -> Receivers]
           /\ \A d \in Clients : Len(receiver'[d].queue) <= EventCapacity
<1>1. CanResume(s, e) => s \in Nat
  BY DEF CanResume, Positions
<1>2. SyncMessages(CanResume(s, e), s) \in Seq(Messages)
  <2>1. CanResume(s, e) \in BOOLEAN
    BY DEF CanResume
  <2> QED  BY <1>1, <2>1, SyncType
<1>3. wire[c] \o SyncMessages(CanResume(s, e), s) \in Seq(Messages)
  BY <1>2 DEF TypeOK
<1>4. FreshReceiver \in Receivers /\ Len(FreshReceiver.queue) = 0
  <2>1. output.sequence \in Nat
    BY DEF TypeOK, States
  <2>2. ASSUME NEW x, x = [NoReceiver EXCEPT !.live = TRUE, !.sent = output.sequence]
        PROVE  x \in Receivers /\ x.queue = <<>>
    BY <2>1, <2>2, NoReceiverType DEF Receivers
  <2> QED  BY <2>2, NoReceiverType DEF FreshReceiver
<1> QED  BY <1>3, <1>4, StreamAssumption DEF Synchronize, TypeOK

LEMMA TypeForwardOutput ==
    ASSUME TypeOK, NEW c \in Clients, ForwardOutput(c)
    PROVE  TypeOK'
<1> DEFINE r == receiver[c]
<1>1. PICK n \in Mergeable(r.queue) :
         LET last == Head(r.queue).number + n
         IN  /\ receiver' = [receiver EXCEPT ![c].queue = SubSeq(@, n + 1, Len(@)),
                                             ![c].sent = IF last > @ THEN last ELSE @]
             /\ wire' = IF last <= r.sent THEN wire
                        ELSE [wire EXCEPT ![c] =
                               Append(@, OutputMessage(r.sent, last))]
  BY DEF ForwardOutput
<1>2. r \in Receivers /\ r.queue \in Seq(Occurrences) /\ r.queue # <<>> /\ n \in 1..Len(r.queue)
  BY <1>1 DEF TypeOK, Receivers, ForwardOutput, Mergeable
<1>3. Head(r.queue).number + n \in Nat /\ r.sent \in Nat
  <2>1. Head(r.queue) \in Occurrences
    BY <1>2
  <2> QED  BY <1>2, <2>1 DEF Receivers, Occurrences
<1>4. /\ SubSeq(r.queue, n + 1, Len(r.queue)) \in Seq(Occurrences)
      /\ Len(SubSeq(r.queue, n + 1, Len(r.queue))) <= Len(r.queue)
  BY <1>2
<1>5. receiver' \in [Clients -> Receivers] /\ \A d \in Clients : Len(receiver'[d].queue) <= EventCapacity
  <2> DEFINE sent == IF Head(r.queue).number + n > r.sent THEN Head(r.queue).number + n ELSE r.sent
  <2>1. /\ sent \in Nat
        /\ receiver' = [receiver EXCEPT ![c] =
             [r EXCEPT !.queue = SubSeq(r.queue, n + 1, Len(r.queue)), !.sent = sent]]
    BY <1>1, <1>3 DEF TypeOK
  <2> HIDE DEF sent
  <2>2. Len(r.queue) <= EventCapacity /\ Len(r.queue) \in Nat /\ EventCapacity \in Nat
    BY <1>2, StreamAssumption DEF TypeOK
  <2>3. receiver'[c] \in Receivers /\ receiver'[c].queue = SubSeq(r.queue, n + 1, Len(r.queue))
    <3>1. receiver'[c] = [r EXCEPT !.queue = SubSeq(r.queue, n + 1, Len(r.queue)), !.sent = sent]
      BY <2>1 DEF TypeOK
    <3> DEFINE rest == SubSeq(r.queue, n + 1, Len(r.queue))
    <3>2. rest \in Seq(Occurrences) /\ sent \in Nat /\ r \in Receivers
      BY <1>2, <1>4, <2>1
    <3>3. receiver'[c] = [r EXCEPT !.queue = rest, !.sent = sent]
      BY <3>1
    <3> HIDE DEF rest
    <3>4. receiver'[c] \in Receivers /\ receiver'[c].queue = rest
      BY <3>2, <3>3 DEF Receivers
    <3> QED  BY <3>4 DEF rest
  <2>4. Len(receiver'[c].queue) <= EventCapacity
    BY <1>4, <2>2, <2>3
  <2>5. \A d \in Clients \ {c} : receiver'[d] = receiver[d]
    BY <2>1 DEF TypeOK
  <2>6. receiver' \in [Clients -> Receivers]
    BY <2>1, <2>3 DEF TypeOK
  <2> QED  BY <2>4, <2>5, <2>6 DEF TypeOK
<1>6. wire' \in [Clients -> Seq(Messages)]
  BY <1>1, <1>3, MessageType DEF TypeOK
<1> QED  BY <1>5, <1>6 DEF ForwardOutput, TypeOK

LEMMA TypeForwardControl ==
    ASSUME TypeOK, NEW c \in Clients, ForwardControl(c)
    PROVE  TypeOK'
<1> DEFINE r == receiver[c]
<1>1. r \in Receivers /\ r.queue \in Seq(Occurrences) /\ r.queue # <<>> /\ Len(r.queue) <= EventCapacity
  BY DEF TypeOK, Receivers, ForwardControl
<1>2. Tail(r.queue) \in Seq(Occurrences) /\ Len(Tail(r.queue)) <= Len(r.queue)
  BY <1>1
<1>3. Message(Head(r.queue).type, Head(r.queue).number) \in Messages
  <2>1. Head(r.queue) \in Occurrences
    BY <1>1
  <2> QED  BY <2>1, MessageType DEF Occurrences, ForwardControl
<1>4. receiver' \in [Clients -> Receivers] /\ \A d \in Clients : Len(receiver'[d].queue) <= EventCapacity
  <2> DEFINE x == IF Head(r.queue).type = "exit" THEN NoReceiver
                  ELSE [r EXCEPT !.queue = Tail(r.queue)]
  <2>1. receiver' = [receiver EXCEPT ![c] = x]
    BY DEF ForwardControl
  <2>2. x \in Receivers /\ x.queue \in {<<>>, Tail(r.queue)}
    <3>1. ASSUME NEW y, y = [r EXCEPT !.queue = Tail(r.queue)]
          PROVE  y \in Receivers /\ y.queue = Tail(r.queue)
      BY <1>1, <1>2, <3>1 DEF Receivers
    <3> QED  BY <3>1, NoReceiverType
  <2> HIDE DEF x
  <2>3. Len(x.queue) <= EventCapacity
    <3>1. Len(r.queue) \in Nat /\ EventCapacity \in Nat
      BY <1>1, StreamAssumption
    <3> QED  BY <1>1, <1>2, <2>2, <3>1
  <2> QED  BY <2>1, <2>2, <2>3 DEF TypeOK
<1>5. wire' \in [Clients -> Seq(Messages)]
  BY <1>3 DEF TypeOK, ForwardControl
<1> QED  BY <1>4, <1>5 DEF ForwardControl, TypeOK

\* A step of one pane that leaves the terminal and the receivers alone.
LEMMA PaneStepType ==
    ASSUME TypeOK, NEW c \in Clients, NEW p \in Panes, NEW w \in Seq(Messages),
           pane' = [pane EXCEPT ![c] = p], wire' = [wire EXCEPT ![c] = w],
           receiver' \in {receiver, [receiver EXCEPT ![c] = NoReceiver]},
           UNCHANGED <<log, output, exitedAt, announced, upload>>
    PROVE  TypeOK'
<1>1. receiver' \in [Clients -> Receivers] /\ \A d \in Clients : Len(receiver'[d].queue) <= EventCapacity
  <2>1. Len(NoReceiver.queue) <= EventCapacity
    BY NoReceiverType, StreamAssumption
  <2>2. CASE receiver' = receiver
    BY <2>2 DEF TypeOK
  <2>3. CASE receiver' = [receiver EXCEPT ![c] = NoReceiver]
    BY <2>1, <2>3, NoReceiverType DEF TypeOK
  <2> QED  BY <2>2, <2>3
<1>2. pane' \in [Clients -> Panes] /\ wire' \in [Clients -> Seq(Messages)]
  BY DEF TypeOK
<1> QED  BY <1>1, <1>2 DEF TypeOK

\* What arrives is a message, and taking it leaves messages.
LEMMA WireType ==
    ASSUME TypeOK, NEW c \in Clients, wire[c] # <<>>
    PROVE  Head(wire[c]) \in Messages /\ Tail(wire[c]) \in Seq(Messages)
<1>1. wire[c] \in Seq(Messages)
  BY DEF TypeOK
<1> QED  BY <1>1

LEMMA FailedType == \A p \in Panes : Failed(p) \in Panes
  BY DEF Failed, Panes

LEMMA WriteType ==
    ASSUME NEW m \in Messages, m.type \in {"snapshot", "output"}
    PROVE  Write(m) \in Writes
  BY DEF Write, Writes, Messages

\* Taking a message ends in a message less, or in no connection.
LEMMA ArrivalType ==
    ASSUME TypeOK, NEW c \in Clients, wire[c] # <<>>, NEW p \in Panes,
           pane' = [pane EXCEPT ![c] = p],
           Consume(c) \/ HangUp(c)
    PROVE  TypeOK'
<1>1. CASE Consume(c)
  BY <1>1, WireType, PaneStepType DEF Consume
<1>2. CASE HangUp(c)
  <2>1. <<>> \in Seq(Messages)
    OBVIOUS
  <2> QED  BY <1>2, <2>1, PaneStepType DEF HangUp
<1> QED  BY <1>1, <1>2

LEMMA TypeReceiveSize ==
    ASSUME TypeOK, NEW c \in Clients, ReceiveSize(c)
    PROVE  TypeOK'
<1>1. pane[c] \in Panes /\ Head(wire[c]).number \in Nat /\ wire[c] # <<>>
  BY WireType DEF TypeOK, ReceiveSize, Arrives, Messages
<1>2. [pane[c] EXCEPT !.epoch = Head(wire[c]).number] \in Panes
  BY <1>1 DEF Panes, Epochs
<1>3. pane' = [pane EXCEPT ![c] = [pane[c] EXCEPT !.epoch = Head(wire[c]).number]]
  BY DEF ReceiveSize, TypeOK
<1> QED  BY <1>1, <1>2, <1>3, ArrivalType DEF ReceiveSize

LEMMA BegunType ==
    ASSUME NEW p \in Panes, NEW m \in Messages, m.type \in {"resume", "restore"}
    PROVE  Begun(p, m) \in Panes
<1>1. Append(p.writes, ResetWrite) \in Seq(Writes)
  BY DEF Panes, Writes, ResetWrite, Views
<1>2. m.number \in Positions
  BY DEF Messages, Positions
<1>3. p.recovering \/ p.hasSynced \in BOOLEAN
  BY DEF Panes
<1>4. CASE m.type = "resume"
  <2>1. Begun(p, m) = [p EXCEPT !.mode = "resume", !.target = m.number,
                          !.accepting = FALSE, !.received = p.committed,
                          !.recovering = p.recovering \/ p.hasSynced]
    BY <1>4 DEF Begun, Panes
  <2> QED  BY <1>2, <1>3, <2>1 DEF Panes
<1>5. CASE m.type = "restore"
  <2>1. Begun(p, m) = [p EXCEPT !.mode = "restore", !.target = m.number,
                          !.accepting = FALSE, !.committed = Unset,
                          !.received = m.number, !.writes = Append(p.writes, ResetWrite),
                          !.recovering = p.recovering \/ p.hasSynced]
    BY <1>5 DEF Begun, Panes
  <2>2. Unset \in Positions
    BY DEF Positions
  <2> QED  BY <1>1, <1>2, <1>3, <2>1, <2>2 DEF Panes
<1> QED  BY <1>4, <1>5

LEMMA TypeReceiveSync ==
    ASSUME TypeOK, NEW c \in Clients, ReceiveSync(c)
    PROVE  TypeOK'
<1>1. pane[c] \in Panes /\ wire[c] # <<>> /\ Head(wire[c]) \in Messages
      /\ Head(wire[c]).type \in {"resume", "restore"}
  BY WireType DEF TypeOK, ReceiveSync, Arrives
<1> QED  BY <1>1, BegunType, ArrivalType DEF ReceiveSync

LEMMA AcceptedType ==
    ASSUME NEW p \in Panes, NEW m \in Messages, m.type \in {"snapshot", "output"}
    PROVE  Accepted(p, m) \in Panes
<1>1. Append(p.writes, Write(m)) \in Seq(Writes)
  BY WriteType DEF Panes
<1>2. m.upto \in Positions
  BY DEF Messages, Positions
<1> QED  BY <1>1, <1>2 DEF Accepted, Panes

LEMMA TypeReceiveFrame ==
    ASSUME TypeOK, NEW c \in Clients, ReceiveFrame(c)
    PROVE  TypeOK'
<1>1. pane[c] \in Panes /\ wire[c] # <<>> /\ Head(wire[c]) \in Messages
      /\ Head(wire[c]).type \in {"snapshot", "output"}
  BY WireType DEF TypeOK, ReceiveFrame, Arrives
<1>2. Accepted(pane[c], Head(wire[c])) \in Panes /\ Failed(pane[c]) \in Panes
  BY <1>1, AcceptedType, FailedType
<1> QED  BY <1>1, <1>2, ArrivalType DEF ReceiveFrame

LEMMA SyncedType == \A p \in Panes : Synced(p) \in Panes
  BY DEF Synced, Panes, Positions

LEMMA TypeReceiveSynced ==
    ASSUME TypeOK, NEW c \in Clients, ReceiveSynced(c)
    PROVE  TypeOK'
<1>1. pane[c] \in Panes /\ wire[c] # <<>>
  BY DEF TypeOK, ReceiveSynced, Arrives
<1>2. Synced(pane[c]) \in Panes /\ Failed(pane[c]) \in Panes
  BY <1>1, SyncedType, FailedType
<1> QED  BY <1>1, <1>2, ArrivalType DEF ReceiveSynced

LEMMA TypeReceiveExit ==
    ASSUME TypeOK, NEW c \in Clients, ReceiveExit(c)
    PROVE  TypeOK'
<1>1. pane[c] \in Panes /\ wire[c] # <<>>
  BY DEF TypeOK, ReceiveExit, Arrives
<1>2. [pane[c] EXCEPT !.link = "exited", !.accepting = FALSE] \in Panes
  BY <1>1 DEF Panes
<1>3. pane' = [pane EXCEPT ![c] = [pane[c] EXCEPT !.link = "exited", !.accepting = FALSE]]
  BY DEF ReceiveExit, TypeOK
<1> QED  BY <1>1, <1>2, <1>3, ArrivalType DEF ReceiveExit

LEMMA ParsedType ==
    ASSUME NEW p \in Panes, p.writes # <<>>
    PROVE  LET w == Head(p.writes)
               shown == [p EXCEPT !.writes = Tail(@), !.view = Parsed(p, w)]
           IN  /\ shown \in Panes
               /\ w.upto \in Nat
               /\ [shown EXCEPT !.committed = w.upto] \in Panes
<1> DEFINE w == Head(p.writes)
<1>1. p.writes \in Seq(Writes) /\ p.view \in Views /\ p.epoch \in Epochs
  BY DEF Panes
<1>2. w \in Writes /\ Tail(p.writes) \in Seq(Writes)
  BY <1>1
<1>3. w.upto \in Nat /\ w.from \in Nat /\ w.view \in Views
  BY <1>2 DEF Writes
<1>4. Cells(w.from, w.upto, p.epoch) \in Views
  BY <1>1, <1>3, CellsView
<1>5. Parsed(p, w) \in Views
  BY <1>1, <1>2, <1>3, <1>4 DEF Parsed, Writes, Views
<1> QED  BY <1>2, <1>3, <1>5 DEF Panes, Positions

LEMMA TypeParse ==
    ASSUME TypeOK, NEW c \in Clients, Parse(c)
    PROVE  TypeOK'
<1> DEFINE p == pane[c]
           w == Head(p.writes)
           shown == [p EXCEPT !.writes = Tail(@), !.view = Parsed(p, w)]
<1>1. p \in Panes /\ p.writes # <<>> /\ <<>> \in Seq(Messages)
  BY DEF TypeOK, Parse
<1>2. shown \in Panes /\ [shown EXCEPT !.committed = w.upto] \in Panes /\ Failed(shown) \in Panes
  BY <1>1, ParsedType, FailedType
<1>3. \E q \in Panes : pane' = [pane EXCEPT ![c] = q]
  <2>1. pane' = [pane EXCEPT ![c] =
             IF ~(w.own /\ w.kind = "output") THEN shown
             ELSE IF Committable(p, w.upto) THEN [shown EXCEPT !.committed = w.upto]
             ELSE Failed(shown)]
    BY DEF Parse
  <2> HIDE DEF shown, w
  <2> QED  BY <1>2, <2>1
<1>4. wire = [wire EXCEPT ![c] = wire[c]] /\ wire[c] \in Seq(Messages)
  BY DEF TypeOK
<1>5. HangUp(c) \/ UNCHANGED <<log, output, exitedAt, announced, receiver, wire, upload>>
  BY DEF Parse
<1> QED  BY <1>1, <1>3, <1>4, <1>5, PaneStepType DEF HangUp

LEMMA TypeWriteCheckpoint ==
    ASSUME TypeOK, NEW c \in Clients, WriteCheckpoint(c)
    PROVE  TypeOK'
<1>1. pane[c] \in Panes
  BY DEF TypeOK
<1>2. [sequence |-> pane[c].committed, epoch |-> pane[c].epoch, view |-> pane[c].view] \in Uploads
  BY <1>1 DEF Panes, Uploads
<1>3. [pane[c] EXCEPT !.uploaded = <<pane[c].committed, pane[c].epoch>>] \in Panes
  BY <1>1 DEF Panes
<1>4. pane' \in [Clients -> Panes] /\ upload' \in [Clients -> Uploads]
  BY <1>2, <1>3 DEF WriteCheckpoint, TypeOK
<1> QED  BY <1>4 DEF WriteCheckpoint, TypeOK

LEMMA TypeClose ==
    ASSUME TypeOK, NEW c \in Clients, Break(c) \/ RecoverBacklog(c)
    PROVE  TypeOK'
<1>1. pane[c] \in Panes /\ <<>> \in Seq(Messages)
  BY DEF TypeOK
<1>2. Failed(pane[c]) \in Panes /\ [Failed(pane[c]) EXCEPT !.recovering = TRUE] \in Panes
  BY <1>1 DEF Failed, Panes
<1> QED  BY <1>1, <1>2, PaneStepType DEF Break, RecoverBacklog, HangUp

LEMMA DisownedType ==
    ASSUME NEW w \in Seq(Writes)
    PROVE  /\ Disowned(w) \in Seq(Writes) /\ Len(Disowned(w)) = Len(w)
           /\ \A k \in 1..Len(w) : /\ ~Disowned(w)[k].own
                                   /\ Disowned(w)[k].kind = w[k].kind
<1>1. ASSUME NEW x \in Writes, NEW y, y = [x EXCEPT !.own = FALSE]
      PROVE  y \in Writes /\ ~y.own /\ y.kind = x.kind
  BY <1>1 DEF Writes
<1>2. DOMAIN w = 1..Len(w) /\ Len(w) \in Nat /\ \A k \in 1..Len(w) : w[k] \in Writes
  OBVIOUS
<1>3. Disowned(w) = [k \in 1..Len(w) |-> [w[k] EXCEPT !.own = FALSE]]
  BY <1>2 DEF Disowned
<1>4. ASSUME NEW k \in 1..Len(w)
      PROVE  /\ Disowned(w)[k] \in Writes /\ ~Disowned(w)[k].own
             /\ Disowned(w)[k].kind = w[k].kind
  <2>1. Disowned(w)[k] = [w[k] EXCEPT !.own = FALSE]
    BY <1>3
  <2> QED  BY <1>1, <1>2, <2>1
<1>5. DOMAIN Disowned(w) = 1..Len(w)
  BY <1>3
<1>6. Disowned(w) \in [1..Len(w) -> Writes]
  BY <1>3, <1>4, <1>5
<1>7. Disowned(w) \in Seq(Writes) /\ Len(Disowned(w)) = Len(w)
  BY <1>2, <1>5, <1>6
<1> QED  BY <1>4, <1>7

LEMMA TypeSettleClose ==
    ASSUME TypeOK, NEW c \in Clients, SettleClose(c)
    PROVE  TypeOK'
<1> DEFINE p == pane[c]
           settled == [p EXCEPT !.link = "down", !.recovering = MustRestart(p),
                                !.writes = Disowned(p.writes)]
<1>1. p \in Panes /\ Disowned(p.writes) \in Seq(Writes) /\ MustRestart(p) \in BOOLEAN
  BY DisownedType DEF TypeOK, Panes, MustRestart
<1>2. settled \in Panes
  BY <1>1 DEF Panes
<1>3. Restarted(settled) \in Panes
  BY <1>2 DEF Restarted, Panes, Positions
<1>4. pane' \in [Clients -> Panes]
  BY <1>2, <1>3 DEF SettleClose, TypeOK
<1> QED  BY <1>4 DEF SettleClose, TypeOK

LEMMA TypeConnect ==
    ASSUME TypeOK, NEW c \in Clients, Connect(c)
    PROVE  TypeOK'
<1>1. pane[c] \in Panes /\ pane[c].committed \in Positions
  BY DEF TypeOK, Panes
<1>2. pane' \in [Clients -> Panes]
  BY <1>1 DEF Connect, TypeOK, Panes
<1> QED  BY <1>1, <1>2, TypeSynchronize DEF Connect, TypeOK

LEMMA TypeResynchronize ==
    ASSUME TypeOK, NEW c \in Clients, Resynchronize(c)
    PROVE  TypeOK'
<1>1. Unset \in Positions
  BY DEF Positions
<1> QED  BY <1>1, TypeSynchronize DEF Resynchronize, TypeOK

LEMMA TypeNext == TypeOK /\ [Next]_vars => TypeOK'
<1> SUFFICES ASSUME TypeOK, [Next]_vars PROVE TypeOK'
  OBVIOUS
<1>1. CASE SessionStep
  BY <1>1, TypePublish, TypeResize, TypeExited, TypeAnnounceExit DEF SessionStep
<1>2. ASSUME NEW c \in Clients, Forward(c) \/ StoreCheckpoint(c)
      PROVE  TypeOK'
  BY <1>2, TypeResynchronize, TypeForwardOutput, TypeForwardControl,
     TypeStoreCheckpoint DEF Forward
<1>3. ASSUME NEW c \in Clients, Receive(c)
      PROVE  TypeOK'
  BY <1>3, TypeReceiveSize, TypeReceiveSync, TypeReceiveFrame, TypeReceiveSynced,
     TypeReceiveExit DEF Receive
<1>4. ASSUME NEW c \in Clients,
             \/ Parse(c) \/ WriteCheckpoint(c) \/ Break(c) \/ RecoverBacklog(c)
             \/ SettleClose(c) \/ Connect(c)
      PROVE  TypeOK'
  BY <1>4, TypeParse, TypeWriteCheckpoint, TypeClose, TypeSettleClose, TypeConnect
<1>5. CASE UNCHANGED vars
  BY <1>5 DEF vars, TypeOK
<1> QED  BY <1>1, <1>2, <1>3, <1>4, <1>5 DEF Next, Idle

\* Every field stays within its type: no queue exceeds its capacity, no position
\* leaves the stream.
THEOREM TypeCorrect == Spec => []TypeOK
  BY TypeInit, TypeNext, PTL DEF Spec

-----------------------------------------------------------------------------
(* The terminal, as far as what is sent to the panes goes: the grid of     *)
(* every byte, the grid it has now, and the bytes it had when it exited.   *)

Terminals == [log : Seq(Nat), epoch : Nat, exit : {Unset} \cup Nat]

Now == [log |-> log, epoch |-> output.epoch, exit |-> exitedAt]

\* Grids only change forward.
Forwards(t) ==
    /\ \A i, j \in 1..Len(t.log) : i <= j => t.log[i] <= t.log[j]
    /\ \A i \in 1..Len(t.log) : t.log[i] <= t.epoch
    /\ t.exit <= Len(t.log)

\* What a pane that follows its stream shows: the first n bytes, in order; and
\* if no connection breaks within a synchronization, each in its own grid.
Sound(t, view, n) ==
    /\ Len(view) = n /\ n <= Len(t.log)
    /\ \A k \in 1..n : /\ view[k][1] = k
                       /\ SizeSyncTogether => view[k][2] = t.log[k]

\* A pane in the grid `epoch' may parse the bytes after the first `from', up to
\* the first `to'.
InGrid(t, from, to, epoch) ==
    SizeSyncTogether => \A n \in (from + 1)..to : t.log[n] = epoch

\* The terminal had the grid `epoch' while it had n bytes.
Had(t, epoch, n) ==
    /\ epoch <= t.epoch
    /\ n > 0 => t.log[n] <= epoch
    /\ n < Len(t.log) => epoch <= t.log[n + 1]

\* The bytes since a point at which a checkpoint may be taken were all written
\* in the current grid.
SafeInv == \A s \in output.safe : \A n \in (s + 1)..Len(log) : log[n] = output.epoch

\* A checkpoint is the terminal's own screen at its sequence; the one that is
\* kept, in the current grid.
UploadInv ==
    \A c \in Clients : upload[c] # NoUpload =>
        upload[c].sequence # Unset /\ Sound(Now, upload[c].view, upload[c].sequence)

CheckpointInv ==
    LET kept == output.checkpoint
    IN  kept # NoUpload =>
          /\ kept.sequence # Unset /\ kept.epoch = output.epoch
          /\ Sound(Now, kept.view, kept.sequence)
          /\ \A n \in (kept.sequence + 1)..Len(log) : log[n] = output.epoch

-----------------------------------------------------------------------------
(* A pane.  Either it has parsed its stream up to `committed' and its      *)
(* writes go on from there to `received', or it is being restored and its  *)
(* screen is cleared before the snapshot is written.                       *)

\* What a pane has of its stream.
Stops == [pos : Positions, epoch : Epochs,
          mode : {"none", "resume", "restore", "restored"}, target : Positions]
Stop(pos, epoch, mode, target) ==
    [pos |-> pos, epoch |-> epoch, mode |-> mode, target |-> target]
At(p) == Stop(p.received, p.epoch, p.mode, p.target)

\* It has a grid, and nothing the terminal did not write.
Placed(t, s) == s.pos # Unset => s.epoch # Unset /\ s.pos <= Len(t.log)

\* The grid is the one the terminal had.
Fits(t, s) == s.pos # Unset /\ SizeSyncTogether => Had(t, s.epoch, s.pos)

Following(t, p) ==
    LET last == Len(p.writes) IN
    /\ p.received # Unset /\ p.epoch # Unset
    /\ p.committed <= p.received /\ p.received <= Len(t.log)
    /\ p.mode \in {"none", "resume"}
    /\ Sound(t, p.view, p.committed)
    /\ InGrid(t, p.committed, p.received, p.epoch)
    /\ IF last = 0 THEN p.committed = p.received
       ELSE p.writes[1].from = p.committed /\ p.writes[last].upto = p.received
    /\ \A k \in 1..last :
          /\ p.writes[k].kind = "output" /\ p.writes[k].own
          /\ p.writes[k].from <= p.writes[k].upto
          /\ p.writes[k].upto <= p.received
          /\ k < last => p.writes[k + 1].from = p.writes[k].upto

\* The screen is empty once the first n writes are parsed.
ClearedBy(p, n) == IF n = 0 THEN p.view = <<>> ELSE p.writes[n].kind = "reset"

Disconnected(p) ==
    /\ p.mode = "none" /\ p.received = Unset
    /\ \A k \in 1..Len(p.writes) : ~p.writes[k].own

Clearing(p) ==
    /\ p.mode = "restore" /\ p.received # Unset /\ p.target = p.received
    /\ \A k \in 1..Len(p.writes) : ~p.writes[k].own
    /\ ClearedBy(p, Len(p.writes))

Restored(t, p) ==
    LET last == Len(p.writes) IN
    /\ p.mode = "restored" /\ p.received # Unset /\ p.target = p.received
    /\ \/ last = 0 /\ Sound(t, p.view, p.received)
       \/ /\ last > 0
          /\ p.writes[last].own /\ p.writes[last].kind = "snapshot"
          /\ Sound(t, p.writes[last].view, p.received)
          /\ \A k \in 1..(last - 1) : ~p.writes[k].own
          /\ ClearedBy(p, last - 1)

PaneInv(t, p) ==
    /\ IF p.committed # Unset THEN Following(t, p)
       ELSE Disconnected(p) \/ Clearing(p) \/ Restored(t, p)
    /\ p.accepting => p.link = "up" /\ p.committed # Unset /\ p.mode = "none"

\* A pane whose connection is closing or closed.
ClosedInv(t, p, w, r) ==
    /\ w = <<>> /\ ~r.live
    /\ Placed(t, At(p)) /\ Fits(t, At(p))
    /\ p.link = "down" => OwnWrites(p) = {}

\* A pane that was told of the exit.
ExitedInv(t, p) ==
    /\ t.exit # Unset /\ p.writes = <<>>
    /\ p.committed # Unset /\ p.committed >= t.exit

-----------------------------------------------------------------------------
(* A connection.  What is on the wire takes the pane from what it has      *)
(* received to what was sent to it, and what is in the queue from there to *)
(* the terminal as it is now.                                              *)

\* A message takes a pane from s to u.
Leg(t, s, m, u) ==
    \/ /\ m.type = "size"
       /\ u = Stop(s.pos, m.number, s.mode, s.target)
    \/ /\ m.type = "restore"
       /\ u = Stop(m.number, s.epoch, "restore", m.number)
    \/ /\ m.type = "resume"
       /\ s.pos # Unset /\ s.mode \in {"none", "resume"}
       /\ u = Stop(s.pos, s.epoch, "resume", m.number)
    \/ /\ m.type = "snapshot"
       /\ s.mode = "restore" /\ s.pos = m.number /\ s.target = m.number
       /\ Sound(t, m.view, m.number)
       /\ u = Stop(s.pos, s.epoch, "restored", s.target)
    \/ /\ m.type = "output"
       /\ s.mode \in {"none", "resume"} /\ s.pos = m.number
       /\ m.number <= m.upto /\ InGrid(t, m.number, m.upto, s.epoch)
       /\ u = Stop(m.upto, s.epoch, s.mode, s.target)
    \/ /\ m.type = "synced"
       /\ s.mode \in {"resume", "restored"}
       /\ s.pos = m.number /\ s.target = m.number
       /\ u = Stop(s.pos, s.epoch, "none", Unset)
    \/ /\ m.type = "exit"
       /\ s.mode = "none" /\ s.pos # Unset
       /\ t.exit # Unset /\ s.pos >= t.exit
       /\ u = s

Syncs == {"resume", "restore"}

\* A synchronization is next on the wire after k messages.
SyncNext(w, k) == k < Len(w) /\ w[k + 1].type \in Syncs

\* Along S, the messages w take a pane from s to u.  What it has at every stop
\* fits, but between the size and the sync message of a synchronization.
Track(t, w, S) ==
    /\ \A k \in 1..Len(w) : Leg(t, S[k - 1], w[k], S[k])
    /\ \A k \in 0..Len(w) : Placed(t, S[k]) /\ (SyncNext(w, k) \/ Fits(t, S[k]))
    /\ \A k \in 1..Len(w) : SyncNext(w, k) => w[k].type = "size"
Way(t, s, w, u) ==
    \E S \in [Nat -> Stops] : S[0] = s /\ S[Len(w)] = u /\ Track(t, w, S)

Hops == [pos : Nat, epoch : Nat]

\* An event takes the end of the stream from q to u.
Hop(t, q, e, u) ==
    \/ /\ e.type = "output"
       /\ e.number = q.pos /\ q.pos < Len(t.log) /\ t.log[q.pos + 1] = q.epoch
       /\ u.pos = q.pos + 1 /\ u.epoch = q.epoch
    \/ /\ e.type = "size"
       /\ Had(t, e.number, q.pos)
       /\ u.pos = q.pos /\ u.epoch = e.number
    \/ /\ e.type = "exit"
       /\ t.exit # Unset /\ q.pos >= t.exit
       /\ u.pos = q.pos /\ u.epoch = q.epoch

\* Only an event that is no output changes the grid.
QueueInv(t, q, s, Q) ==
    /\ Q[0].pos = s.pos /\ Q[0].epoch = s.epoch
    /\ \A k \in 1..Len(q) : Hop(t, Q[k - 1], q[k], Q[k])
    /\ Q[Len(q)].pos = Len(t.log) /\ Q[Len(q)].epoch = t.epoch
    /\ \A k \in 0..Len(q) : Q[k].pos <= Len(t.log)
    /\ \A i, j \in 0..Len(q) :
          i <= j /\ (\A k \in (i + 1)..j : q[k].type = "output") => Q[j].epoch = Q[i].epoch

\* The receiver goes on where the wire ends.
SentInv(t, r, s) ==
    /\ s.pos = r.sent /\ s.mode = "none"
    /\ ~r.lagged => \E Q \in [Nat -> Hops] : QueueInv(t, r.queue, s, Q)

OpenInv(t, p, w, r) ==
    /\ SyncNext(w, 0) => OwnWrites(p) = {}
    /\ \E u \in Stops : Way(t, At(p), w, u) /\ (r.live => SentInv(t, r, u))

ClientInv(t, p, w, r) ==
    /\ PaneInv(t, p)
    /\ p.link \in {"closing", "down"} => ClosedInv(t, p, w, r)
    /\ p.link = "exited" => ExitedInv(t, p)
    /\ p.link = "up" => OpenInv(t, p, w, r)

Inv == /\ TypeOK
       /\ Forwards(Now) /\ SafeInv /\ UploadInv /\ CheckpointInv
       /\ \A c \in Clients : ClientInv(Now, pane[c], wire[c], receiver[c])

-----------------------------------------------------------------------------
(* The terminal goes on: what was true of a stream stays true.             *)

Later(t, u) ==
    /\ Len(t.log) <= Len(u.log)
    /\ \A k \in 1..Len(t.log) : u.log[k] = t.log[k]
    /\ \A k \in (Len(t.log) + 1)..Len(u.log) : t.epoch <= u.log[k]
    /\ t.epoch <= u.epoch
    /\ t.exit # Unset => u.exit = t.exit

LEMMA TerminalType ==
    ASSUME NEW t \in Terminals
    PROVE  /\ t.log \in Seq(Nat) /\ Len(t.log) \in Nat /\ t.epoch \in Nat
           /\ t.exit \in Int /\ (t.exit # Unset => t.exit \in Nat)
           /\ \A k \in 1..Len(t.log) : t.log[k] \in Nat
  BY DEF Terminals, Unset

LEMMA SoundLater ==
    ASSUME NEW t \in Terminals, NEW u \in Terminals, Later(t, u),
           NEW v, NEW n \in Nat, Sound(t, v, n)
    PROVE  Sound(u, v, n)
<1>1. /\ Len(v) = n /\ n <= Len(t.log) /\ Len(t.log) <= Len(u.log)
      /\ Len(t.log) \in Nat /\ Len(u.log) \in Nat
  BY TerminalType DEF Later, Sound
<1>2. ASSUME NEW k \in 1..n
      PROVE  v[k][1] = k /\ (SizeSyncTogether => v[k][2] = u.log[k])
  <2>1. k \in 1..Len(t.log)
    BY <1>1
  <2>2. u.log[k] = t.log[k]
    BY <2>1 DEF Later
  <2> QED  BY <2>2 DEF Sound
<1> QED  BY <1>1, <1>2 DEF Sound

LEMMA InGridLater ==
    ASSUME NEW t \in Terminals, NEW u \in Terminals, Later(t, u),
           NEW from \in Nat, NEW to \in Nat, to <= Len(t.log), NEW e,
           InGrid(t, from, to, e)
    PROVE  InGrid(u, from, to, e)
<1> SUFFICES ASSUME SizeSyncTogether, NEW n \in (from + 1)..to
             PROVE  u.log[n] = e
  BY DEF InGrid
<1>1. n \in 1..Len(t.log)
  BY TerminalType
<1> QED  BY <1>1 DEF Later, InGrid

LEMMA HadLater ==
    ASSUME NEW t \in Terminals, NEW u \in Terminals, Later(t, u),
           NEW n \in Nat, n <= Len(t.log), NEW e \in Epochs, Had(t, e, n)
    PROVE  Had(u, e, n)
<1>1. e \in Int /\ Len(t.log) \in Nat /\ Len(u.log) \in Nat /\ t.epoch \in Nat /\ u.epoch \in Nat
  BY TerminalType DEF Epochs, Unset
<1>2. e <= u.epoch
  BY <1>1 DEF Later, Had
<1>3. n > 0 => u.log[n] <= e
  BY <1>1 DEF Later, Had
<1>4. CASE n < Len(t.log)
  BY <1>1, <1>2, <1>3, <1>4 DEF Later, Had
<1>5. CASE n = Len(t.log)
  <2>1. ASSUME n < Len(u.log) PROVE e <= u.log[n + 1]
    <3>1. n + 1 \in (Len(t.log) + 1)..Len(u.log) /\ n + 1 \in 1..Len(u.log)
      BY <1>1, <1>5, <2>1
    <3>2. t.epoch <= u.log[n + 1] /\ u.log[n + 1] \in Nat
      BY <3>1, TerminalType DEF Later
    <3> QED  BY <1>1, <3>2 DEF Had
  <2> QED  BY <1>2, <1>3, <2>1 DEF Had
<1> QED  BY <1>1, <1>4, <1>5

LEMMA FitsLater ==
    ASSUME NEW t \in Terminals, NEW u \in Terminals, Later(t, u),
           NEW s \in Stops, Placed(t, s)
    PROVE  /\ Placed(u, s)
           /\ Fits(t, s) => Fits(u, s)
<1>1. s.epoch \in Epochs /\ s.pos \in Positions /\ (s.pos # Unset => s.pos \in Nat)
  BY DEF Stops, Positions
<1>2. Placed(u, s)
  BY <1>1, TerminalType DEF Placed, Later
<1>3. ASSUME Fits(t, s), s.pos # Unset, SizeSyncTogether
      PROVE  Had(u, s.epoch, s.pos)
  BY <1>1, <1>3, HadLater DEF Fits, Placed
<1> QED  BY <1>2, <1>3 DEF Fits

LEMMA LegLater ==
    ASSUME NEW t \in Terminals, NEW u \in Terminals, Later(t, u),
           NEW s, NEW m \in Messages, NEW x, Leg(t, s, m, x), Placed(t, x)
    PROVE  Leg(u, s, m, x)
<1>1. m.number \in Nat /\ m.upto \in Nat
  BY DEF Messages
<1>2. CASE m.type \notin {"snapshot", "output", "exit"}
  BY <1>2 DEF Leg
<1>3. CASE m.type = "snapshot"
  BY <1>1, <1>3, SoundLater DEF Leg
<1>4. CASE m.type = "output"
  <2>1. x.pos = m.upto
    BY <1>4 DEF Leg, Stop
  <2>2. m.upto <= Len(t.log)
    BY <1>1, <2>1 DEF Placed, Unset
  <2>3. InGrid(u, m.number, m.upto, s.epoch)
    BY <1>1, <1>4, <2>2, InGridLater DEF Leg
  <2> QED  BY <1>4, <2>3 DEF Leg
<1>5. CASE m.type = "exit"
  BY <1>5 DEF Leg, Later
<1> QED  BY <1>2, <1>3, <1>4, <1>5

LEMMA HopLater ==
    ASSUME NEW t \in Terminals, NEW u \in Terminals, Later(t, u),
           NEW q \in Hops, NEW e \in Occurrences, NEW x, Hop(t, q, e, x),
           q.pos <= Len(t.log)
    PROVE  Hop(u, q, e, x)
<1>1. q.pos \in Nat /\ e.number \in Epochs
  BY DEF Hops, Occurrences, Epochs
<1>2. CASE e.type = "output"
  <2>1. q.pos + 1 \in 1..Len(t.log) /\ Len(t.log) \in Nat /\ Len(u.log) \in Nat
    BY <1>1, <1>2, TerminalType DEF Hop
  <2> QED  BY <1>1, <1>2, <2>1 DEF Hop, Later
<1>3. CASE e.type = "size"
  BY <1>1, <1>3, HadLater DEF Hop
<1>4. CASE e.type = "exit"
  BY <1>4 DEF Hop, Later
<1> QED  BY <1>2, <1>3, <1>4 DEF Occurrences

LEMMA PaneType ==
    ASSUME NEW p \in Panes
    PROVE  /\ p.committed \in Positions /\ (p.committed # Unset => p.committed \in Nat)
           /\ p.received \in Positions /\ (p.received # Unset => p.received \in Nat)
           /\ p.epoch \in Epochs /\ p.target \in Positions /\ p.view \in Views
           /\ p.writes \in Seq(Writes) /\ Len(p.writes) \in Nat
           /\ \A k \in 1..Len(p.writes) : p.writes[k] \in Writes
           /\ At(p) \in Stops
  BY DEF Panes, Positions, At, Stop, Stops

LEMMA PaneLater ==
    ASSUME NEW t \in Terminals, NEW u \in Terminals, Later(t, u),
           NEW p \in Panes, PaneInv(t, p)
    PROVE  PaneInv(u, p)
<1>1. CASE p.committed # Unset
  <2>1. Following(t, p)
    BY <1>1 DEF PaneInv
  <2>2. p.committed \in Nat /\ p.received \in Nat
    BY <1>1, <2>1, PaneType DEF Following
  <2>3. Sound(u, p.view, p.committed)
    BY <2>1, <2>2, SoundLater DEF Following
  <2>4. InGrid(u, p.committed, p.received, p.epoch)
    BY <2>1, <2>2, InGridLater DEF Following
  <2>5. p.received <= Len(u.log)
    BY <2>1, <2>2, TerminalType DEF Following, Later
  <2>6. Following(u, p)
    BY <2>1, <2>3, <2>4, <2>5 DEF Following
  <2> QED  BY <1>1, <2>6 DEF PaneInv
<1>2. CASE p.committed = Unset /\ (Disconnected(p) \/ Clearing(p))
  BY <1>2 DEF PaneInv
<1>3. CASE p.committed = Unset /\ Restored(t, p)
  <2>1. p.received \in Nat
    BY <1>3, PaneType DEF Restored
  <2>2. Restored(u, p)
    BY <1>3, <2>1, SoundLater DEF Restored
  <2> QED  BY <1>3, <2>2 DEF PaneInv
<1> QED  BY <1>1, <1>2, <1>3 DEF PaneInv

LEMMA WayLater ==
    ASSUME NEW t \in Terminals, NEW u \in Terminals, Later(t, u),
           NEW s, NEW w \in Seq(Messages), NEW x, Way(t, s, w, x)
    PROVE  Way(u, s, w, x)
<1>1. PICK S \in [Nat -> Stops] : S[0] = s /\ S[Len(w)] = x /\ Track(t, w, S)
  BY DEF Way
<1>2. ASSUME NEW k \in 1..Len(w) PROVE Leg(u, S[k - 1], w[k], S[k])
  <2>1. Leg(t, S[k - 1], w[k], S[k]) /\ Placed(t, S[k]) /\ w[k] \in Messages
    BY <1>1 DEF Track
  <2> QED  BY <2>1, LegLater
<1>3. ASSUME NEW k \in 0..Len(w)
      PROVE  Placed(u, S[k]) /\ (SyncNext(w, k) \/ Fits(u, S[k]))
  <2>1. Placed(t, S[k]) /\ (SyncNext(w, k) \/ Fits(t, S[k])) /\ S[k] \in Stops
    BY <1>1 DEF Track
  <2> QED  BY <2>1, FitsLater
<1> QED  BY <1>1, <1>2, <1>3 DEF Track, Way

LEMMA ClientLater ==
    ASSUME NEW t \in Terminals, NEW u \in Terminals, Later(t, u),
           NEW p \in Panes, NEW w \in Seq(Messages), NEW r \in Receivers,
           ClientInv(t, p, w, r)
    PROVE  /\ PaneInv(u, p)
           /\ p.link \in {"closing", "down"} => ClosedInv(u, p, w, r)
           /\ p.link = "exited" => ExitedInv(u, p)
           /\ \A s, x : Way(t, s, w, x) => Way(u, s, w, x)
<1>1. p.link \in {"closing", "down"} => ClosedInv(u, p, w, r)
  BY FitsLater, PaneType DEF ClientInv, ClosedInv
<1>2. p.link = "exited" => ExitedInv(u, p)
  BY DEF ClientInv, ExitedInv, Later
<1> QED  BY <1>1, <1>2, PaneLater, WayLater DEF ClientInv

-----------------------------------------------------------------------------
(* What the terminal does is one more event in every queue.                *)

LEMMA ReceiverFacts ==
    ASSUME NEW r \in Receivers
    PROVE  /\ r.queue \in Seq(Occurrences) /\ Len(r.queue) \in Nat /\ r.sent \in Nat
           /\ r.live \in BOOLEAN /\ r.lagged \in BOOLEAN
           /\ \A k \in 1..Len(r.queue) : r.queue[k] \in Occurrences
  BY DEF Receivers

\* e takes the terminal from t to u.
Happens(t, e, u) ==
    \E q, h \in Hops : /\ q.pos = Len(t.log) /\ q.epoch = t.epoch
                       /\ h.pos = Len(u.log) /\ h.epoch = u.epoch
                       /\ Hop(u, q, e, h)

LEMMA QueueLater ==
    ASSUME NEW t \in Terminals, NEW u \in Terminals, Later(t, u),
           NEW e \in Occurrences, Happens(t, e, u),
           NEW q \in Seq(Occurrences), NEW s \in Stops,
           NEW Q \in [Nat -> Hops], QueueInv(t, q, s, Q)
    PROVE  \E R \in [Nat -> Hops] : QueueInv(u, Append(q, e), s, R)
<1>1. PICK b \in Hops, h \in Hops :
         /\ b.pos = Len(t.log) /\ b.epoch = t.epoch
         /\ h.pos = Len(u.log) /\ h.epoch = u.epoch
         /\ Hop(u, b, e, h)
  BY DEF Happens
<1> DEFINE n == Len(q)
           R == [k \in Nat |-> IF k <= n THEN Q[k] ELSE h]
           x == Append(q, e)
<1>2. /\ n \in Nat /\ R \in [Nat -> Hops] /\ Len(x) = n + 1 /\ x[n + 1] = e
      /\ \A k \in 1..n : x[k] = q[k] /\ q[k] \in Occurrences
      /\ \A k \in 0..n : R[k] = Q[k] /\ Q[k] \in Hops
      /\ R[n + 1] = h
  BY <1>1
<1> HIDE DEF n, R, x
<1>3. Q[n].pos = Len(t.log) /\ Q[n].epoch = t.epoch
  BY DEF QueueInv, n
<1>4. Hop(u, Q[n], e, h)
  BY <1>1, <1>3 DEF Hop
<1>5. ASSUME NEW k \in 1..(n + 1) PROVE Hop(u, R[k - 1], x[k], R[k])
  <2>1. CASE k <= n
    <3>1. Hop(t, Q[k - 1], q[k], Q[k]) /\ Q[k - 1].pos <= Len(t.log) /\ Q[k - 1] \in Hops
      BY <1>2, <2>1 DEF QueueInv, n
    <3>2. Hop(u, Q[k - 1], q[k], Q[k])
      BY <1>2, <2>1, <3>1, HopLater
    <3> QED  BY <1>2, <2>1, <3>2
  <2>2. CASE k = n + 1
    BY <1>1, <1>2, <1>4, <2>2
  <2> QED  BY <1>2, <2>1, <2>2
<1>6. ASSUME NEW k \in 0..(n + 1) PROVE R[k].pos <= Len(u.log)
  <2>1. CASE k <= n
    <3>1. Q[k].pos <= Len(t.log) /\ Q[k].pos \in Nat
      BY <1>2, <2>1 DEF QueueInv, n, Hops
    <3> QED  BY <1>2, <2>1, <3>1, TerminalType DEF Later
  <2>2. CASE k = n + 1
    BY <1>1, <1>2, <2>2, TerminalType
  <2> QED  BY <1>2, <2>1, <2>2
<1>7. ASSUME NEW i \in 0..(n + 1), NEW j \in 0..(n + 1), i <= j,
             \A k \in (i + 1)..j : x[k].type = "output"
      PROVE  R[j].epoch = R[i].epoch
  <2>1. \A a, z \in 0..n : a <= z /\ (\A k \in (a + 1)..z : q[k].type = "output")
                           => Q[z].epoch = Q[a].epoch
    BY DEF QueueInv, n
  <2>2. CASE j <= n
    <3>1. \A k \in (i + 1)..j : q[k].type = "output"
      BY <1>2, <1>7, <2>2
    <3>2. Q[j].epoch = Q[i].epoch
      BY <1>2, <1>7, <2>1, <2>2, <3>1
    <3> QED  BY <1>2, <1>7, <2>2, <3>2
  <2>3. CASE j = n + 1 /\ i <= n
    <3>1. \A k \in (i + 1)..n : q[k].type = "output"
      BY <1>2, <1>7, <2>3
    <3>2. Q[n].epoch = Q[i].epoch
      BY <1>2, <1>7, <2>1, <2>3, <3>1
    <3>3. e.type = "output"
      BY <1>2, <1>7, <2>3
    <3>4. h.epoch = Q[n].epoch
      BY <1>4, <3>3 DEF Hop
    <3> QED  BY <1>2, <2>3, <3>2, <3>4
  <2>4. CASE i = n + 1
    BY <1>2, <1>7, <2>4
  <2> QED  BY <1>2, <1>7, <2>2, <2>3, <2>4
<1>8. R[0].pos = s.pos /\ R[0].epoch = s.epoch
  BY <1>2 DEF QueueInv
<1>9. QueueInv(u, x, s, R)
  BY <1>1, <1>2, <1>5, <1>6, <1>7, <1>8 DEF QueueInv
<1> QED  BY <1>2, <1>9 DEF x

LEMMA SentLater ==
    ASSUME NEW t \in Terminals, NEW u \in Terminals, Later(t, u),
           NEW e \in Occurrences, Happens(t, e, u),
           NEW r \in Receivers, r.live, NEW s \in Stops, SentInv(t, r, s)
    PROVE  SentInv(u, Enqueue(r, e), s)
<1>1. CASE Len(r.queue) < EventCapacity
  <2>1. ASSUME NEW x, x = [r EXCEPT !.queue = Append(r.queue, e)]
        PROVE  x.sent = r.sent /\ x.lagged = r.lagged /\ x.queue = Append(r.queue, e)
    BY <2>1 DEF Receivers
  <2>2. Enqueue(r, e) = [r EXCEPT !.queue = Append(r.queue, e)]
    BY <1>1 DEF Enqueue
  <2>3. ~r.lagged => \E Q \in [Nat -> Hops] : QueueInv(u, Append(r.queue, e), s, Q)
    BY ReceiverFacts, QueueLater DEF SentInv
  <2> QED  BY <2>1, <2>2, <2>3 DEF SentInv
<1>2. CASE ~(Len(r.queue) < EventCapacity)
  <2>1. ASSUME NEW x, x = [r EXCEPT !.queue = Append(Tail(r.queue), e), !.lagged = TRUE]
        PROVE  x.sent = r.sent /\ x.lagged
    BY <2>1 DEF Receivers
  <2>2. Enqueue(r, e) = [r EXCEPT !.queue = Append(Tail(r.queue), e), !.lagged = TRUE]
    BY <1>2 DEF Enqueue
  <2> QED  BY <2>1, <2>2 DEF SentInv
<1> QED  BY <1>1, <1>2

\* Every client after an event of the terminal.
LEMMA ClientEvent ==
    ASSUME NEW t \in Terminals, NEW u \in Terminals, Later(t, u),
           NEW e \in Occurrences, Happens(t, e, u),
           NEW p \in Panes, NEW w \in Seq(Messages), NEW r \in Receivers,
           ClientInv(t, p, w, r)
    PROVE  ClientInv(u, p, w, Enqueue(r, e))
<1>1. Enqueue(r, e).live = r.live
  <2>1. ASSUME NEW q, NEW x, x = [r EXCEPT !.queue = q] PROVE x.live = r.live
    BY <2>1 DEF Receivers
  <2>2. ASSUME NEW q, NEW x, x = [r EXCEPT !.queue = q, !.lagged = TRUE] PROVE x.live = r.live
    BY <2>2 DEF Receivers
  <2>3. CASE ~r.live
    BY <2>3 DEF Enqueue
  <2>4. CASE r.live /\ Len(r.queue) < EventCapacity
    BY <2>1, <2>4 DEF Enqueue
  <2>5. CASE r.live /\ ~(Len(r.queue) < EventCapacity)
    BY <2>2, <2>5 DEF Enqueue
  <2> QED  BY <2>3, <2>4, <2>5
<1>2. p.link \in {"closing", "down"} => ClosedInv(u, p, w, Enqueue(r, e))
  BY <1>1, ClientLater DEF ClosedInv
<1>3. ASSUME p.link = "up" PROVE OpenInv(u, p, w, Enqueue(r, e))
  <2>1. PICK x \in Stops : Way(t, At(p), w, x) /\ (r.live => SentInv(t, r, x))
    BY <1>3 DEF ClientInv, OpenInv
  <2>2. Way(u, At(p), w, x)
    BY <2>1, ClientLater
  <2>3. r.live => SentInv(u, Enqueue(r, e), x)
    BY <2>1, SentLater
  <2> QED  BY <1>1, <1>3, <2>2, <2>3 DEF OpenInv, ClientInv
<1> QED  BY <1>2, <1>3, ClientLater DEF ClientInv

\* A client while the terminal only notes that it exited.
LEMMA ClientUntold ==
    ASSUME NEW t \in Terminals, NEW u \in Terminals, Later(t, u),
           u.log = t.log, u.epoch = t.epoch,
           NEW p \in Panes, NEW w \in Seq(Messages), NEW r \in Receivers,
           ClientInv(t, p, w, r)
    PROVE  ClientInv(u, p, w, r)
<1>1. ASSUME NEW s \in Stops, SentInv(t, r, s)
      PROVE  SentInv(u, r, s)
  <2>1. ASSUME NEW Q \in [Nat -> Hops], QueueInv(t, r.queue, s, Q)
        PROVE  QueueInv(u, r.queue, s, Q)
    <3>1. ASSUME NEW k \in 1..Len(r.queue)
          PROVE  Hop(u, Q[k - 1], r.queue[k], Q[k])
      <4>1. k - 1 \in 0..Len(r.queue) /\ k - 1 \in Nat /\ r.queue[k] \in Occurrences
        BY ReceiverFacts
      <4>2. Hop(t, Q[k - 1], r.queue[k], Q[k]) /\ Q[k - 1].pos <= Len(t.log)
        BY <2>1, <4>1 DEF QueueInv
      <4> QED  BY <4>1, <4>2, HopLater
    <3> QED  BY <2>1, <3>1 DEF QueueInv
  <2> QED  BY <1>1, <2>1 DEF SentInv
<1>2. p.link = "up" => OpenInv(u, p, w, r)
  BY <1>1, ClientLater DEF ClientInv, OpenInv
<1> QED  BY <1>2, ClientLater DEF ClientInv

-----------------------------------------------------------------------------
(* The steps of the session.                                               *)

LEMMA NowType ==
    /\ TypeOK => Now \in Terminals
    /\ TypeOK' => Now' \in Terminals
<1>1. ASSUME TypeOK PROVE Now \in Terminals
  <2>1. log \in Seq(Nat) /\ output.epoch \in Nat /\ exitedAt \in {Unset} \cup Nat
    BY <1>1 DEF TypeOK, States
  <2> QED  BY <2>1 DEF Now, Terminals
<1>2. ASSUME TypeOK' PROVE Now' \in Terminals
  <2>1. log' \in Seq(Nat) /\ output'.epoch \in Nat /\ exitedAt' \in {Unset} \cup Nat
    BY <1>2 DEF TypeOK, States
  <2> QED  BY <2>1 DEF Now, Terminals
<1> QED  BY <1>1, <1>2

LEMMA NowFields ==
    /\ Now.log = log /\ Now.epoch = output.epoch /\ Now.exit = exitedAt
    /\ Now'.log = log' /\ Now'.epoch = output'.epoch /\ Now'.exit = exitedAt'
  BY DEF Now

LEMMA ClientTypes ==
    ASSUME TypeOK, NEW c \in Clients
    PROVE  /\ pane[c] \in Panes /\ wire[c] \in Seq(Messages)
           /\ receiver[c] \in Receivers /\ upload[c] \in Uploads
  BY DEF TypeOK

LEMMA SessionClients ==
    ASSUME Inv, TypeOK', Later(Now, Now'), NEW e \in Occurrences,
           Happens(Now, e, Now'), Broadcast(e), UNCHANGED <<wire, pane, upload>>
    PROVE  /\ \A c \in Clients : ClientInv(Now, pane[c], wire[c], receiver[c])'
           /\ UploadInv'
<1>1. Now \in Terminals /\ Now' \in Terminals
  BY NowType DEF Inv
<1>2. ASSUME NEW c \in Clients
      PROVE  ClientInv(Now, pane[c], wire[c], receiver[c])'
  <2>1. ClientInv(Now', pane[c], wire[c], Enqueue(receiver[c], e))
    BY <1>1, ClientEvent, ClientTypes DEF Inv
  <2>2. receiver'[c] = Enqueue(receiver[c], e)
    BY DEF Broadcast
  <2> QED  BY <2>1, <2>2
<1>3. ASSUME NEW c \in Clients, upload[c] # NoUpload
      PROVE  upload[c].sequence # Unset /\ Sound(Now', upload[c].view, upload[c].sequence)
  <2>1. upload[c].sequence # Unset /\ Sound(Now, upload[c].view, upload[c].sequence)
    BY <1>3 DEF Inv, UploadInv
  <2>2. upload[c].sequence \in Nat
    BY <2>1, ClientTypes DEF Inv, Uploads, Positions
  <2> QED  BY <1>1, <2>1, <2>2, SoundLater
<1> QED  BY <1>2, <1>3 DEF UploadInv

LEMMA InvPublish ==
    ASSUME Inv, TypeOK', NEW g \in BOOLEAN, Publish(g)
    PROVE  Inv'
<1> DEFINE n == Len(log)
<1>1. /\ n \in Nat /\ log \in Seq(Nat) /\ log' = Append(log, output.epoch)
      /\ output.sequence = n /\ output.epoch \in Nat /\ \A k \in 1..n : log[k] \in Nat
  <2>1. log \in Seq(Nat) /\ output \in States /\ output.sequence = n
    BY DEF Inv, TypeOK
  <2>2. log' = Append(log, output.epoch)
    BY DEF Publish
  <2> QED  BY <2>1, <2>2 DEF States
<1>2. /\ Len(log') = n + 1 /\ log'[n + 1] = output.epoch
      /\ \A k \in 1..n : log'[k] = log[k]
  BY <1>1
<1>3. /\ output'.epoch = output.epoch /\ exitedAt' = exitedAt
      /\ output'.checkpoint = output.checkpoint
      /\ \A s \in output'.safe : s \in output.safe \/ s = n + 1
  BY <1>1 DEF Publish, Inv, TypeOK, States
<1>4. /\ \A i, j \in 1..n : i <= j => log[i] <= log[j]
      /\ \A i \in 1..n : log[i] <= output.epoch
      /\ exitedAt <= n
  BY NowFields DEF Inv, Forwards
<1>5. Later(Now, Now')
  BY <1>1, <1>2, <1>3, NowFields DEF Later
<1>6. Forwards(Now)'
  <2>1. \A i, j \in 1..(n + 1) : i <= j => log'[i] <= log'[j]
    BY <1>1, <1>2, <1>4
  <2>2. \A i \in 1..(n + 1) : log'[i] <= output'.epoch
    BY <1>1, <1>2, <1>3, <1>4
  <2>3. exitedAt' <= n + 1
    BY <1>1, <1>3, <1>4 DEF Inv, TypeOK, Unset
  <2> QED  BY <1>2, <2>1, <2>2, <2>3, NowFields DEF Forwards
<1>7. SafeInv'
  <2> SUFFICES ASSUME NEW s \in output'.safe, NEW k \in (s + 1)..(n + 1)
               PROVE  log'[k] = output.epoch
    BY <1>2, <1>3 DEF SafeInv
  <2>1. s \in Nat
    BY DEF TypeOK, States
  <2>2. CASE s \in output.safe
    BY <1>1, <1>2, <2>1, <2>2 DEF Inv, SafeInv
  <2>3. CASE s = n + 1
    BY <1>1, <2>3
  <2> QED  BY <1>3, <2>2, <2>3
<1>8. Event("output", n) \in Occurrences /\ Broadcast(Event("output", n))
  BY <1>1 DEF Publish, Event, Occurrences
<1>9. Happens(Now, Event("output", n), Now')
  <2> DEFINE q == [pos |-> n, epoch |-> output.epoch]
             h == [pos |-> n + 1, epoch |-> output.epoch]
  <2>1. q \in Hops /\ h \in Hops
    BY <1>1 DEF Hops
  <2>2. Hop(Now', q, Event("output", n), h)
    BY <1>1, <1>2, NowFields DEF Hop, Event
  <2> QED  BY <1>1, <1>2, <1>3, <2>1, <2>2, NowFields DEF Happens
<1>10. /\ \A c \in Clients : ClientInv(Now, pane[c], wire[c], receiver[c])'
       /\ UploadInv'
  BY <1>5, <1>8, <1>9, SessionClients DEF Publish
<1>11. CheckpointInv'
  <2> DEFINE kept == output.checkpoint
  <2> SUFFICES ASSUME kept # NoUpload
               PROVE  /\ kept.sequence # Unset /\ kept.epoch = output.epoch
                      /\ Sound(Now', kept.view, kept.sequence)
                      /\ \A k \in (kept.sequence + 1)..(n + 1) : log'[k] = output.epoch
    BY <1>2, <1>3 DEF CheckpointInv
  <2>1. /\ kept.sequence # Unset /\ kept.epoch = output.epoch
        /\ Sound(Now, kept.view, kept.sequence)
        /\ \A k \in (kept.sequence + 1)..n : log[k] = output.epoch
    BY DEF Inv, CheckpointInv
  <2>2. kept.sequence \in Nat
    BY <2>1 DEF Inv, TypeOK, States, Uploads, Positions
  <2>3. Sound(Now', kept.view, kept.sequence)
    BY <1>5, <2>1, <2>2, SoundLater, NowType DEF Inv
  <2>4. \A k \in (kept.sequence + 1)..(n + 1) : log'[k] = output.epoch
    BY <1>1, <1>2, <2>1, <2>2
  <2> QED  BY <2>1, <2>3, <2>4
<1> QED  BY <1>6, <1>7, <1>10, <1>11 DEF Inv

LEMMA InvResize ==
    ASSUME Inv, TypeOK', Resize
    PROVE  Inv'
<1>1. Len(log) \in Nat /\ output.sequence = Len(log) /\ output.epoch \in Nat /\ \A k \in 1..Len(log) : log[k] \in Nat
  BY DEF Inv, TypeOK, States
<1>2. /\ output'.epoch = output.epoch + 1 /\ UNCHANGED <<log, exitedAt, announced>>
      /\ output'.checkpoint = NoUpload /\ output'.safe \subseteq {Len(log)}
  BY <1>1 DEF Resize, Resized, Inv, TypeOK, States
<1>3. /\ \A i, j \in 1..Len(log) : i <= j => log[i] <= log[j]
      /\ \A i \in 1..Len(log) : log[i] <= output.epoch
      /\ exitedAt <= Len(log)
  BY NowFields DEF Inv, Forwards
<1>4. Later(Now, Now')
  BY <1>1, <1>2, NowFields DEF Later
<1>5. Forwards(Now)'
  <2>1. \A i \in 1..Len(log) : log[i] <= output'.epoch
    BY <1>1, <1>2, <1>3
  <2> QED  BY <1>2, <1>3, <2>1, NowFields DEF Forwards
<1>6. SafeInv' /\ CheckpointInv'
  BY <1>1, <1>2 DEF SafeInv, CheckpointInv
<1> DEFINE e == Event("size", output.epoch + 1)
<1>7. e \in Occurrences /\ Broadcast(e)
  BY <1>1 DEF Resize, Event, Occurrences
<1>8. Happens(Now, e, Now')
  <2> DEFINE q == [pos |-> Len(log), epoch |-> output.epoch]
             h == [pos |-> Len(log), epoch |-> output.epoch + 1]
  <2>1. q \in Hops /\ h \in Hops
    BY <1>1 DEF Hops
  <2>2. Had(Now', output.epoch + 1, Len(log))
    <3>1. Len(log) > 0 => log[Len(log)] <= output.epoch + 1
      BY <1>1, <1>3
    <3> QED  BY <1>1, <1>2, <3>1, NowFields DEF Had
  <2>3. Hop(Now', q, e, h)
    BY <2>2 DEF Hop, Event
  <2> QED  BY <1>2, <2>1, <2>3, NowFields DEF Happens
<1>9. /\ \A c \in Clients : ClientInv(Now, pane[c], wire[c], receiver[c])'
      /\ UploadInv'
  BY <1>4, <1>7, <1>8, SessionClients DEF Resize
<1> QED  BY <1>5, <1>6, <1>9 DEF Inv

LEMMA InvExited ==
    ASSUME Inv, TypeOK', Exited
    PROVE  Inv'
<1>1. Len(log) \in Nat /\ output.epoch \in Nat
  BY DEF Inv, TypeOK, States
<1>2. UNCHANGED <<log, output, receiver, wire, pane, upload>> /\ exitedAt = Unset
      /\ exitedAt' = Len(log)
  BY DEF Exited
<1>3. Later(Now, Now')
  BY <1>1, <1>2, NowFields DEF Later
<1>4. Forwards(Now)' /\ SafeInv'
  BY <1>1, <1>2, NowFields DEF Inv, Forwards, SafeInv
<1>5. CheckpointInv' /\ UploadInv'
  <2>1. output.checkpoint # NoUpload => output.checkpoint.sequence \in Nat
    BY DEF Inv, CheckpointInv, TypeOK, States, Uploads, Positions
  <2>2. output.checkpoint # NoUpload =>
          Sound(Now', output.checkpoint.view, output.checkpoint.sequence)
    BY <1>3, <2>1, SoundLater, NowType DEF Inv, CheckpointInv
  <2>3. ASSUME NEW c \in Clients, upload[c] # NoUpload
        PROVE  /\ upload[c].sequence # Unset
               /\ Sound(Now', upload[c].view, upload[c].sequence)
    <3>1. upload[c].sequence # Unset /\ Sound(Now, upload[c].view, upload[c].sequence)
      BY <2>3 DEF Inv, UploadInv
    <3>2. upload[c].sequence \in Nat
      BY <3>1, ClientTypes DEF Inv, Uploads, Positions
    <3> QED  BY <1>3, <3>1, <3>2, SoundLater, NowType DEF Inv
  <2> QED  BY <1>2, <2>2, <2>3 DEF Inv, CheckpointInv, UploadInv
<1>6. ASSUME NEW c \in Clients
      PROVE  ClientInv(Now, pane[c], wire[c], receiver[c])'
  <2>1. ClientInv(Now', pane[c], wire[c], receiver[c])
    BY <1>2, <1>3, ClientUntold, ClientTypes, NowType, NowFields DEF Inv
  <2> QED  BY <1>2, <2>1
<1> QED  BY <1>4, <1>5, <1>6 DEF Inv

LEMMA InvAnnounceExit ==
    ASSUME Inv, TypeOK', AnnounceExit
    PROVE  Inv'
<1>1. Len(log) \in Nat /\ output.epoch \in Nat /\ exitedAt <= Len(log)
  BY NowFields DEF Inv, TypeOK, States, Forwards
<1>2. UNCHANGED <<log, output, exitedAt, wire, pane, upload>> /\ exitedAt # Unset
  BY DEF AnnounceExit
<1>3. Now' = Now /\ Later(Now, Now')
  BY <1>1, <1>2, NowFields DEF Later, Now
<1>4. Forwards(Now)' /\ SafeInv' /\ CheckpointInv'
  BY <1>2, <1>3 DEF Inv, SafeInv, CheckpointInv
<1>5. Event("exit", 0) \in Occurrences /\ Broadcast(Event("exit", 0))
  BY DEF AnnounceExit, Event, Occurrences
<1>6. Happens(Now, Event("exit", 0), Now')
  <2> DEFINE q == [pos |-> Len(log), epoch |-> output.epoch]
  <2>1. q \in Hops
    BY <1>1 DEF Hops
  <2>2. Hop(Now', q, Event("exit", 0), q)
    BY <1>1, <1>2, NowFields DEF Hop, Event
  <2> QED  BY <1>2, <2>1, <2>2, NowFields DEF Happens
<1>7. /\ \A c \in Clients : ClientInv(Now, pane[c], wire[c], receiver[c])'
      /\ UploadInv'
  BY <1>2, <1>3, <1>5, <1>6, SessionClients
<1> QED  BY <1>4, <1>7 DEF Inv

-----------------------------------------------------------------------------
(* A message taken from the wire.                                          *)

LEMMA Own ==
    ASSUME NEW p \in Panes
    PROVE  OwnWrites(p) = {} <=> \A k \in 1..Len(p.writes) : ~p.writes[k].own
<1>1. DOMAIN p.writes = 1..Len(p.writes)
  BY PaneType
<1> QED  BY <1>1 DEF OwnWrites

\* The pane that follows its stream and has no writes has parsed all it received.
LEMMA Settled ==
    ASSUME NEW t, NEW p \in Panes, PaneInv(t, p), OwnWrites(p) = {}, p.committed # Unset
    PROVE  Following(t, p) /\ p.writes = <<>> /\ Len(p.writes) = 0 /\ p.committed = p.received
<1>1. Following(t, p)
  BY DEF PaneInv
<1>2. Len(p.writes) = 0
  BY <1>1, Own, PaneType DEF Following
<1> QED  BY <1>1, <1>2, PaneType DEF Following

\* Which of its parts a pane is in shows in the mode.
LEMMA Modes ==
    ASSUME NEW t, NEW p \in Panes, PaneInv(t, p)
    PROVE  /\ p.received # Unset /\ p.mode \in {"none", "resume"} => p.committed # Unset
           /\ p.mode = "restore" => p.committed = Unset /\ Clearing(p)
           /\ p.mode = "restored" => p.committed = Unset /\ Restored(t, p)
  BY DEF PaneInv, Following, Disconnected, Clearing, Restored

LEMMA WayHead ==
    ASSUME NEW t, NEW s, NEW w \in Seq(Messages), w # <<>>, NEW u, Way(t, s, w, u)
    PROVE  /\ \E x \in Stops : /\ Leg(t, s, Head(w), x) /\ Placed(t, s) /\ Placed(t, x)
                              /\ Way(t, x, Tail(w), u)
           /\ SyncNext(Tail(w), 0) => Head(w).type = "size"
<1>1. PICK S \in [Nat -> Stops] : S[0] = s /\ S[Len(w)] = u /\ Track(t, w, S)
  BY DEF Way
<1> DEFINE n == Len(w)
           v == Tail(w)
           T == [k \in Nat |-> S[k + 1]]
<1>2. /\ n \in Nat \ {0} /\ Len(v) = n - 1 /\ Head(w) = w[1]
      /\ \A k \in 1..(n - 1) : v[k] = w[k + 1]
      /\ T \in [Nat -> Stops] /\ \A k \in Nat : T[k] = S[k + 1] /\ S[k] \in Stops
  OBVIOUS
<1> HIDE DEF n, v, T
<1>3. /\ \A k \in 1..n : Leg(t, S[k - 1], w[k], S[k])
      /\ \A k \in 0..n : Placed(t, S[k]) /\ (SyncNext(w, k) \/ Fits(t, S[k]))
      /\ \A k \in 1..n : SyncNext(w, k) => w[k].type = "size"
  BY <1>1 DEF Track, n
<1>4. S[1] \in Stops /\ Leg(t, s, Head(w), S[1]) /\ Placed(t, s) /\ Placed(t, S[1])
  <2>1. 1 \in 1..n /\ 1 \in 0..n /\ 0 \in 0..n /\ 1 - 1 = 0
    BY <1>2
  <2> QED  BY <1>1, <1>2, <1>3, <2>1
<1>5. \A k \in 0..(n - 1) : SyncNext(v, k) <=> SyncNext(w, k + 1)
  <2> SUFFICES ASSUME NEW k \in 0..(n - 1) PROVE SyncNext(v, k) <=> SyncNext(w, k + 1)
    OBVIOUS
  <2>1. (k < n - 1 <=> k + 1 < n) /\ (k < n - 1 => k + 1 \in 1..(n - 1))
    BY <1>2
  <2>2. k < n - 1 => v[k + 1] = w[(k + 1) + 1]
    BY <1>2, <2>1
  <2> QED  BY <1>2, <2>1, <2>2 DEF SyncNext, n
<1>6. Way(t, S[1], v, u)
  <2>1. T[0] = S[1] /\ T[Len(v)] = u
    <3>1. 0 + 1 = 1 /\ n - 1 \in Nat /\ (n - 1) + 1 = n
      BY <1>2
    <3> QED  BY <1>1, <1>2, <3>1 DEF n
  <2>2. ASSUME NEW k \in 1..(n - 1) PROVE Leg(t, T[k - 1], v[k], T[k])
    <3>1. k + 1 \in 1..n /\ (k + 1) - 1 = k /\ k - 1 \in Nat /\ (k - 1) + 1 = k /\ k \in Nat
      BY <1>2
    <3> QED  BY <1>2, <1>3, <3>1
  <2>3. ASSUME NEW k \in 0..(n - 1)
        PROVE  Placed(t, T[k]) /\ (SyncNext(v, k) \/ Fits(t, T[k]))
    <3>1. k + 1 \in 0..n /\ k \in Nat
      BY <1>2
    <3> QED  BY <1>2, <1>3, <1>5, <3>1
  <2>4. ASSUME NEW k \in 1..(n - 1), SyncNext(v, k) PROVE v[k].type = "size"
    <3>1. k + 1 \in 1..n /\ k \in 0..(n - 1)
      BY <1>2
    <3> QED  BY <1>2, <1>3, <1>5, <2>4, <3>1
  <2> QED  BY <1>2, <2>1, <2>2, <2>3, <2>4 DEF Way, Track
<1>7. SyncNext(v, 0) => Head(w).type = "size"
  <2>1. 0 \in 0..(n - 1) /\ 1 \in 1..n /\ 0 + 1 = 1
    BY <1>2
  <2>2. SyncNext(v, 0) <=> SyncNext(w, 1)
    BY <1>5, <2>1
  <2>3. SyncNext(w, 1) => w[1].type = "size"
    BY <1>3, <2>1
  <2> QED  BY <1>2, <2>2, <2>3
<1> QED  BY <1>4, <1>6, <1>7 DEF v

LEMMA OpenHead ==
    ASSUME NEW t, NEW p \in Panes, NEW w \in Seq(Messages), w # <<>>,
           NEW r, OpenInv(t, p, w, r)
    PROVE  \E x \in Stops :
             /\ Leg(t, At(p), Head(w), x) /\ Placed(t, At(p)) /\ Placed(t, x)
             /\ \A q \in Panes :
                  At(q) = x /\ (Head(w).type = "size" => OwnWrites(q) = {})
                  => OpenInv(t, q, Tail(w), r)
<1>1. PICK u \in Stops : Way(t, At(p), w, u) /\ (r.live => SentInv(t, r, u))
  BY DEF OpenInv
<1>2. PICK x \in Stops : /\ Leg(t, At(p), Head(w), x) /\ Placed(t, At(p)) /\ Placed(t, x)
                         /\ Way(t, x, Tail(w), u)
  BY <1>1, WayHead
<1>3. SyncNext(Tail(w), 0) => Head(w).type = "size"
  BY <1>1, WayHead
<1> QED  BY <1>1, <1>2, <1>3 DEF OpenInv

LEMMA SizeClient ==
    ASSUME NEW t \in Terminals, NEW p \in Panes, NEW w \in Seq(Messages), NEW r,
           ClientInv(t, p, w, r), p.link = "up",
           w # <<>>, Head(w).type = "size", OwnWrites(p) = {},
           NEW q \in Panes, q = [p EXCEPT !.epoch = Head(w).number]
    PROVE  ClientInv(t, q, Tail(w), r)
<1>1. PICK x \in Stops :
         /\ Leg(t, At(p), Head(w), x)
         /\ \A y \in Panes : At(y) = x /\ (Head(w).type = "size" => OwnWrites(y) = {})
                             => OpenInv(t, y, Tail(w), r)
  BY OpenHead DEF ClientInv
<1>2. /\ q.committed = p.committed /\ q.received = p.received /\ q.mode = p.mode
      /\ q.target = p.target /\ q.view = p.view /\ q.writes = p.writes
      /\ q.accepting = p.accepting /\ q.link = "up" /\ q.epoch = Head(w).number
  BY DEF Panes
<1>3. At(q) = x /\ OwnWrites(q) = {}
  BY <1>1, <1>2 DEF Leg, At, Stop, OwnWrites
<1>4. q.epoch # Unset
  <2>1. Head(w) \in Messages
    OBVIOUS
  <2> QED  BY <1>2, <2>1 DEF Messages, Unset
<1>5. PaneInv(t, q)
  <2>1. CASE p.committed # Unset
    <3>1. Following(t, p) /\ Len(p.writes) = 0 /\ p.committed = p.received
      BY <2>1, Settled DEF ClientInv
    <3>2. p.received \in Nat
      BY <3>1, PaneType DEF Following
    <3>3. InGrid(t, q.committed, q.received, q.epoch)
      BY <1>2, <3>1, <3>2 DEF InGrid
    <3>4. Following(t, q)
      BY <1>2, <1>4, <3>1, <3>3 DEF Following
    <3> QED  BY <1>2, <2>1, <3>4 DEF PaneInv, ClientInv
  <2>2. CASE p.committed = Unset
    BY <1>2, <2>2 DEF PaneInv, ClientInv, Disconnected, Clearing, Restored, ClearedBy
  <2> QED  BY <2>1, <2>2
<1> QED  BY <1>1, <1>2, <1>3, <1>5 DEF ClientInv

LEMMA ResumeClient ==
    ASSUME NEW t \in Terminals, NEW p \in Panes, NEW w \in Seq(Messages), NEW r,
           ClientInv(t, p, w, r), p.link = "up",
           w # <<>>, Head(w).type = "resume", OwnWrites(p) = {},
           NEW q \in Panes, q = Begun(p, Head(w))
    PROVE  ClientInv(t, q, Tail(w), r) /\ p.committed # Unset
<1>1. PICK x \in Stops :
         /\ Leg(t, At(p), Head(w), x)
         /\ \A y \in Panes : At(y) = x /\ (Head(w).type = "size" => OwnWrites(y) = {})
                             => OpenInv(t, y, Tail(w), r)
  BY OpenHead DEF ClientInv
<1>2. /\ q.committed = p.committed /\ q.received = p.committed /\ q.mode = "resume"
      /\ q.target = Head(w).number /\ q.view = p.view /\ q.writes = p.writes
      /\ q.accepting = FALSE /\ q.link = "up" /\ q.epoch = p.epoch
  BY DEF Panes, Begun
<1>3. p.received # Unset /\ p.mode \in {"none", "resume"}
  BY <1>1 DEF Leg, At, Stop
<1>4. p.committed # Unset
  BY <1>3, Modes DEF ClientInv
<1>5. Following(t, p) /\ p.writes = <<>> /\ p.committed = p.received
  BY <1>4, Settled DEF ClientInv
<1>6. At(q) = x
  BY <1>1, <1>2, <1>5 DEF Leg, At, Stop
<1>7. Following(t, q)
  BY <1>2, <1>5 DEF Following
<1>8. PaneInv(t, q)
  BY <1>2, <1>4, <1>7 DEF PaneInv
<1> QED  BY <1>1, <1>2, <1>4, <1>6, <1>8 DEF ClientInv

LEMMA RestoreClient ==
    ASSUME NEW t \in Terminals, NEW p \in Panes, NEW w \in Seq(Messages), NEW r,
           ClientInv(t, p, w, r), p.link = "up",
           w # <<>>, Head(w).type = "restore", OwnWrites(p) = {},
           NEW q \in Panes, q = Begun(p, Head(w))
    PROVE  ClientInv(t, q, Tail(w), r)
<1>1. PICK x \in Stops :
         /\ Leg(t, At(p), Head(w), x)
         /\ \A y \in Panes : At(y) = x /\ (Head(w).type = "size" => OwnWrites(y) = {})
                             => OpenInv(t, y, Tail(w), r)
  BY OpenHead DEF ClientInv
<1>2. /\ q.committed = Unset /\ q.received = Head(w).number /\ q.mode = "restore"
      /\ q.target = Head(w).number /\ q.view = p.view /\ q.writes = Append(p.writes, ResetWrite)
      /\ q.accepting = FALSE /\ q.link = "up" /\ q.epoch = p.epoch
  BY DEF Panes, Begun
<1>3. Head(w).number # Unset
  <2>1. Head(w) \in Messages
    OBVIOUS
  <2> QED  BY <2>1 DEF Messages, Unset
<1>4. At(q) = x
  BY <1>1, <1>2 DEF Leg, At, Stop
<1>5. /\ Len(q.writes) = Len(p.writes) + 1
      /\ \A k \in 1..Len(p.writes) : q.writes[k] = p.writes[k]
      /\ q.writes[Len(p.writes) + 1] = ResetWrite
  BY <1>2, PaneType
<1>6. \A k \in 1..Len(q.writes) : ~q.writes[k].own
  <2>1. \A k \in 1..Len(p.writes) : ~p.writes[k].own
    BY Own
  <2>2. ResetWrite.own = FALSE
    BY DEF ResetWrite
  <2>3. \A k \in 1..(Len(p.writes) + 1) : k \in 1..Len(p.writes) \/ k = Len(p.writes) + 1
    BY PaneType
  <2> QED  BY <1>5, <2>1, <2>2, <2>3
<1>7. ClearedBy(q, Len(q.writes))
  BY <1>5, PaneType DEF ClearedBy, ResetWrite
<1>8. PaneInv(t, q)
  BY <1>2, <1>3, <1>6, <1>7 DEF PaneInv, Clearing
<1> QED  BY <1>1, <1>2, <1>4, <1>8 DEF ClientInv

LEMMA Appended ==
    ASSUME NEW p \in Panes, NEW q \in Panes, NEW x \in Writes,
           q.writes = Append(p.writes, x)
    PROVE  /\ Len(q.writes) = Len(p.writes) + 1 /\ Len(p.writes) \in Nat
           /\ \A k \in 1..Len(p.writes) : q.writes[k] = p.writes[k]
           /\ q.writes[Len(q.writes)] = x /\ q.writes[Len(p.writes) + 1] = x
  BY PaneType

LEMMA WriteFields ==
    ASSUME NEW m
    PROVE  /\ Write(m).kind = m.type /\ Write(m).from = m.number
           /\ Write(m).upto = m.upto /\ Write(m).view = m.view /\ Write(m).own = TRUE
  BY DEF Write

LEMMA SnapshotClient ==
    ASSUME NEW t \in Terminals, NEW p \in Panes, NEW w \in Seq(Messages), NEW r,
           ClientInv(t, p, w, r), p.link = "up", w # <<>>, Head(w).type = "snapshot",
           NEW q \in Panes, q = Accepted(p, Head(w))
    PROVE  /\ p.mode = "restore" /\ Head(w).number = p.target
           /\ ClientInv(t, q, Tail(w), r)
<1> DEFINE m == Head(w)
<1>1. PICK x \in Stops :
         /\ Leg(t, At(p), m, x)
         /\ \A y \in Panes : At(y) = x /\ (m.type = "size" => OwnWrites(y) = {})
                             => OpenInv(t, y, Tail(w), r)
  BY OpenHead DEF ClientInv
<1>2. m \in Messages /\ Write(m) \in Writes
  <2>1. m \in Messages
    OBVIOUS
  <2> QED  BY <2>1, WriteType
<1>3. /\ q.committed = p.committed /\ q.received = p.received /\ q.mode = "restored"
      /\ q.target = p.target /\ q.view = p.view /\ q.writes = Append(p.writes, Write(m))
      /\ q.accepting = p.accepting /\ q.link = "up" /\ q.epoch = p.epoch
  BY DEF Panes, Accepted
<1>4. /\ p.mode = "restore" /\ p.received = m.number /\ p.target = m.number
      /\ Sound(t, m.view, m.number)
  BY <1>1 DEF Leg, At, Stop
<1>5. At(q) = x
  BY <1>1, <1>3 DEF Leg, At, Stop
<1>6. p.committed = Unset /\ Clearing(p)
  BY <1>4, Modes DEF ClientInv
<1>7. /\ Len(q.writes) = Len(p.writes) + 1 /\ Len(p.writes) \in Nat
      /\ \A k \in 1..Len(p.writes) : q.writes[k] = p.writes[k]
      /\ q.writes[Len(q.writes)] = Write(m)
  BY <1>2, <1>3, Appended
<1>8. ClearedBy(q, Len(q.writes) - 1)
  <2>1. Len(q.writes) - 1 = Len(p.writes)
    BY <1>7
  <2>2. Len(p.writes) # 0 => q.writes[Len(p.writes)] = p.writes[Len(p.writes)]
    BY <1>7
  <2> QED  BY <1>3, <1>6, <2>1, <2>2 DEF ClearedBy, Clearing
<1>9. /\ q.writes[Len(q.writes)].own /\ q.writes[Len(q.writes)].kind = "snapshot"
      /\ Sound(t, q.writes[Len(q.writes)].view, q.received)
  <2>1. Write(m).own /\ Write(m).kind = "snapshot" /\ Write(m).view = m.view
    BY WriteFields
  <2> QED  BY <1>3, <1>4, <1>7, <2>1
<1>10. \A k \in 1..(Len(q.writes) - 1) : ~q.writes[k].own
  BY <1>6, <1>7 DEF Clearing
<1>11. Restored(t, q)
  BY <1>3, <1>6, <1>7, <1>8, <1>9, <1>10 DEF Restored, Clearing
<1>12. PaneInv(t, q)
  BY <1>3, <1>4, <1>6, <1>11 DEF PaneInv, ClientInv
<1> QED  BY <1>1, <1>3, <1>4, <1>5, <1>12 DEF ClientInv

LEMMA OutputClient ==
    ASSUME NEW t \in Terminals, NEW p \in Panes, NEW w \in Seq(Messages), NEW r,
           ClientInv(t, p, w, r), p.link = "up", w # <<>>, Head(w).type = "output",
           NEW q \in Panes, q = Accepted(p, Head(w))
    PROVE  /\ p.received # Unset /\ Head(w).number = p.received
           /\ ClientInv(t, q, Tail(w), r)
<1> DEFINE m == Head(w)
<1>1. PICK x \in Stops :
         /\ Leg(t, At(p), m, x) /\ Placed(t, x)
         /\ \A y \in Panes : At(y) = x /\ (m.type = "size" => OwnWrites(y) = {})
                             => OpenInv(t, y, Tail(w), r)
  BY OpenHead DEF ClientInv
<1>2. m \in Messages /\ Write(m) \in Writes /\ m.number \in Nat /\ m.upto \in Nat
  <2>1. m \in Messages
    OBVIOUS
  <2> QED  BY <2>1, WriteType DEF Messages
<1>3. /\ q.committed = p.committed /\ q.received = m.upto /\ q.mode = p.mode
      /\ q.target = p.target /\ q.view = p.view /\ q.writes = Append(p.writes, Write(m))
      /\ q.accepting = p.accepting /\ q.link = "up" /\ q.epoch = p.epoch
  BY DEF Panes, Accepted
<1>4. /\ p.mode \in {"none", "resume"} /\ p.received = m.number
      /\ m.number <= m.upto /\ InGrid(t, m.number, m.upto, p.epoch)
      /\ x = Stop(m.upto, p.epoch, p.mode, p.target)
  BY <1>1 DEF Leg, At, Stop
<1>5. At(q) = x /\ m.upto <= Len(t.log)
  BY <1>1, <1>2, <1>3, <1>4 DEF At, Stop, Placed, Unset
<1>6. p.received # Unset /\ p.committed # Unset
  BY <1>2, <1>4, Modes DEF ClientInv, Unset
<1>7. Following(t, p) /\ p.committed \in Nat
  BY <1>6, PaneType DEF ClientInv, PaneInv
<1> DEFINE n == Len(p.writes)
<1>8. /\ Len(q.writes) = n + 1 /\ n \in Nat
      /\ \A k \in 1..n : q.writes[k] = p.writes[k]
      /\ q.writes[n + 1] = Write(m)
  BY <1>2, <1>3, Appended
<1>9. /\ q.writes[n + 1].from = p.received /\ q.writes[n + 1].upto = m.upto
      /\ q.writes[n + 1].kind = "output" /\ q.writes[n + 1].own = TRUE
  BY <1>4, <1>8, WriteFields
<1>10. /\ \A k \in 1..n :
            /\ p.writes[k].kind = "output" /\ p.writes[k].own
            /\ p.writes[k].from <= p.writes[k].upto
            /\ p.writes[k].upto <= p.received
            /\ k < n => p.writes[k + 1].from = p.writes[k].upto
       /\ n = 0 => p.committed = p.received
       /\ n # 0 => p.writes[1].from = p.committed /\ p.writes[n].upto = p.received
       /\ \A k \in 1..n : p.writes[k].upto \in Nat
  BY <1>7, PaneType DEF Following, Writes
<1> HIDE DEF n
<1>11. ASSUME NEW k \in 1..(n + 1)
       PROVE  /\ q.writes[k].kind = "output" /\ q.writes[k].own
              /\ q.writes[k].from <= q.writes[k].upto
              /\ q.writes[k].upto <= q.received
              /\ k < n + 1 => q.writes[k + 1].from = q.writes[k].upto
  <2>1. CASE k = n + 1
    BY <1>2, <1>3, <1>4, <1>8, <1>9, <2>1
  <2>2. CASE k \in 1..n
    <3>1. q.writes[k] = p.writes[k] /\ (k < n => q.writes[k + 1] = p.writes[k + 1])
      <4>1. n \in Nat /\ k \in Nat /\ (k < n => k + 1 \in 1..n)
        BY <1>8, <2>2
      <4>2. \A j \in 1..n : q.writes[j] = p.writes[j]
        BY <1>8
      <4> QED  BY <2>2, <4>1, <4>2
    <3>2. p.writes[k].upto <= m.upto
      BY <1>2, <1>4, <1>10, <2>2
    <3>3. /\ q.writes[k].kind = "output" /\ q.writes[k].own
          /\ q.writes[k].from <= q.writes[k].upto
          /\ q.writes[k].upto <= q.received
      BY <1>3, <1>10, <2>2, <3>1, <3>2
    <3>4. CASE k = n
      BY <1>9, <1>10, <2>2, <3>1, <3>3, <3>4
    <3>5. CASE k < n
      BY <1>10, <2>2, <3>1, <3>3, <3>5
    <3> QED  BY <1>8, <2>2, <3>4, <3>5
  <2> QED  BY <1>8, <2>1, <2>2
<1>12. InGrid(t, p.committed, m.upto, p.epoch)
  <2>1. InGrid(t, p.committed, m.number, p.epoch)
    BY <1>4, <1>7 DEF Following
  <2>2. \A k \in p.committed + 1..m.upto :
           k \in p.committed + 1..m.number \/ k \in m.number + 1..m.upto
    BY <1>2, <1>7
  <2> QED  BY <1>4, <2>1, <2>2 DEF InGrid
<1>13. Following(t, q)
  <2>1. q.writes[1].from = q.committed
    <3>1. CASE n = 0
      <4>1. q.writes[n + 1] = q.writes[1]
        BY <3>1
      <4> QED  BY <1>3, <1>9, <1>10, <3>1, <4>1
    <3>2. CASE n # 0
      <4>1. 1 \in 1..n
        BY <1>8, <3>2
      <4> QED  BY <1>3, <1>8, <1>10, <3>2, <4>1
    <3> QED  BY <3>1, <3>2
  <2>2. q.received # Unset /\ q.committed <= q.received /\ n + 1 # 0
    BY <1>2, <1>3, <1>4, <1>7, <1>8 DEF Following, Unset
  <2>3. q.epoch # Unset /\ q.mode \in {"none", "resume"} /\ Sound(t, q.view, q.committed)
    BY <1>3, <1>7 DEF Following
  <2> QED  BY <1>3, <1>5, <1>8, <1>9, <1>11, <1>12, <2>1, <2>2, <2>3 DEF Following
<1>14. PaneInv(t, q)
  BY <1>3, <1>6, <1>13 DEF PaneInv, ClientInv
<1> QED  BY <1>1, <1>3, <1>4, <1>5, <1>6, <1>14 DEF ClientInv

LEMMA SyncedClient ==
    ASSUME NEW t \in Terminals, NEW p \in Panes, NEW w \in Seq(Messages), NEW r,
           ClientInv(t, p, w, r), p.link = "up", w # <<>>, Head(w).type = "synced",
           OwnWrites(p) = {}, NEW q \in Panes, q = Synced(p)
    PROVE  Finished(p, Head(w).number) /\ ClientInv(t, q, Tail(w), r)
<1> DEFINE m == Head(w)
<1>1. PICK x \in Stops :
         /\ Leg(t, At(p), m, x) /\ Placed(t, At(p))
         /\ \A y \in Panes : At(y) = x /\ (m.type = "size" => OwnWrites(y) = {})
                             => OpenInv(t, y, Tail(w), r)
  BY OpenHead DEF ClientInv
<1>2. m \in Messages /\ m.number \in Nat
  <2>1. m \in Messages
    OBVIOUS
  <2> QED  BY <2>1 DEF Messages
<1>3. /\ q.committed = p.target /\ q.received = p.received /\ q.mode = "none"
      /\ q.target = Unset /\ q.view = p.view /\ q.writes = p.writes
      /\ q.link = "up" /\ q.epoch = p.epoch
  BY DEF Panes, Synced
<1>4. /\ p.mode \in {"resume", "restored"} /\ p.received = m.number /\ p.target = m.number
      /\ x = Stop(p.received, p.epoch, "none", Unset)
  BY <1>1 DEF Leg, At, Stop
<1>5. At(q) = x /\ p.received # Unset
  BY <1>2, <1>3, <1>4 DEF At, Stop, Unset
<1>6. p.epoch # Unset /\ p.received <= Len(t.log)
  BY <1>1, <1>5 DEF Placed, At, Stop
<1>7. /\ Len(p.writes) = 0 /\ Sound(t, p.view, p.received)
      /\ p.mode = "resume" => p.committed = p.received
  <2>1. CASE p.mode = "resume"
    <3>1. p.committed # Unset
      BY <1>5, <2>1, Modes DEF ClientInv
    <3>2. Following(t, p) /\ Len(p.writes) = 0 /\ p.committed = p.received
      BY <3>1, Settled DEF ClientInv
    <3> QED  BY <3>2 DEF Following
  <2>2. CASE p.mode = "restored"
    <3>1. Restored(t, p)
      BY <2>2, Modes DEF ClientInv
    <3>2. ~(Len(p.writes) > 0 /\ p.writes[Len(p.writes)].own)
      BY Own, PaneType
    <3> QED  BY <2>2, <3>1, <3>2 DEF Restored
  <2> QED  BY <1>4, <2>1, <2>2
<1>8. Finished(p, m.number)
  BY <1>4, <1>7 DEF Finished
<1>9. InGrid(t, q.committed, q.received, q.epoch)
  BY <1>2, <1>3, <1>4 DEF InGrid
<1>10. Following(t, q)
  BY <1>2, <1>3, <1>4, <1>5, <1>6, <1>7, <1>9 DEF Following
<1>11. PaneInv(t, q)
  BY <1>3, <1>4, <1>5, <1>10 DEF PaneInv
<1> QED  BY <1>1, <1>3, <1>5, <1>8, <1>11 DEF ClientInv

LEMMA ExitClient ==
    ASSUME NEW t \in Terminals, NEW p \in Panes, NEW w \in Seq(Messages), NEW r,
           ClientInv(t, p, w, r), p.link = "up", w # <<>>, Head(w).type = "exit",
           OwnWrites(p) = {}, NEW q \in Panes,
           q = [p EXCEPT !.link = "exited", !.accepting = FALSE]
    PROVE  ClientInv(t, q, Tail(w), r)
<1>1. PICK x \in Stops : Leg(t, At(p), Head(w), x)
  BY OpenHead DEF ClientInv
<1>2. /\ q.committed = p.committed /\ q.received = p.received /\ q.mode = p.mode
      /\ q.target = p.target /\ q.view = p.view /\ q.writes = p.writes
      /\ q.accepting = FALSE /\ q.link = "exited" /\ q.epoch = p.epoch
  BY DEF Panes
<1>3. /\ p.mode = "none" /\ p.received # Unset
      /\ t.exit # Unset /\ p.received >= t.exit
  BY <1>1 DEF Leg, At, Stop
<1>4. p.committed # Unset
  BY <1>3, Modes DEF ClientInv
<1>5. Following(t, p) /\ p.writes = <<>> /\ p.committed = p.received
  BY <1>4, Settled DEF ClientInv
<1>6. PaneInv(t, q)
  BY <1>2, <1>4, <1>5 DEF PaneInv, Following
<1> QED  BY <1>2, <1>3, <1>4, <1>5, <1>6 DEF ClientInv, ExitedInv

-----------------------------------------------------------------------------
(* A step of the pane that takes nothing from the wire.                    *)

LEMMA OpenSame ==
    ASSUME NEW t, NEW p \in Panes, NEW q \in Panes, NEW w, NEW r, OpenInv(t, p, w, r),
           At(q) = At(p), OwnWrites(p) = {} => OwnWrites(q) = {}
    PROVE  OpenInv(t, q, w, r)
  BY DEF OpenInv

LEMMA PaneSame ==
    ASSUME NEW t, NEW p \in Panes, NEW q \in Panes, PaneInv(t, p),
           q.committed = p.committed, At(q) = At(p), q.view = p.view, q.writes = p.writes,
           q.accepting => p.accepting /\ q.link = p.link
    PROVE  PaneInv(t, q)
<1>1. /\ q.received = p.received /\ q.epoch = p.epoch /\ q.mode = p.mode /\ q.target = p.target
  BY DEF At, Stop
<1> QED  BY <1>1 DEF PaneInv, Following, Disconnected, Clearing, Restored, ClearedBy

LEMMA CloseClient ==
    ASSUME NEW t \in Terminals, NEW p \in Panes, NEW w \in Seq(Messages), NEW r,
           ClientInv(t, p, w, r), p.link = "up", ~(SizeSyncTogether /\ SyncNext(w, 0)),
           NEW q \in Panes,
           q \in {Failed(p), [Failed(p) EXCEPT !.recovering = TRUE]}
    PROVE  ClientInv(t, q, <<>>, NoReceiver)
<1>1. /\ q.committed = p.committed /\ q.received = p.received /\ q.mode = p.mode
      /\ q.target = p.target /\ q.view = p.view /\ q.writes = p.writes
      /\ q.accepting = FALSE /\ q.link = "closing" /\ q.epoch = p.epoch
  BY DEF Panes, Failed
<1>2. At(q) = At(p)
  BY <1>1 DEF At
<1>3. PaneInv(t, q)
  BY <1>1, <1>2, PaneSame DEF ClientInv
<1>4. Placed(t, At(p)) /\ (SyncNext(w, 0) \/ Fits(t, At(p)))
  <2>1. PICK S \in [Nat -> Stops] : S[0] = At(p) /\ Track(t, w, S)
    BY DEF ClientInv, OpenInv, Way
  <2>2. 0 \in 0..Len(w)
    OBVIOUS
  <2> QED  BY <2>1, <2>2 DEF Track
<1>5. Fits(t, At(p))
  BY <1>4 DEF Fits
<1> QED  BY <1>1, <1>2, <1>3, <1>4, <1>5 DEF ClientInv, ClosedInv, NoReceiver

LEMMA Concatenation ==
    ASSUME NEW A, NEW v \in Seq(A), NEW x \in Seq(A)
    PROVE  /\ Len(v \o x) = Len(v) + Len(x) /\ v \o x \in Seq(A)
           /\ \A k \in 1..Len(v) : (v \o x)[k] = v[k]
           /\ \A k \in (Len(v) + 1)..(Len(v) + Len(x)) : (v \o x)[k] = x[k - Len(v)]
<1>1. Len(v) \in Nat /\ Len(x) \in Nat /\ Len(v \o x) = Len(v) + Len(x) /\ v \o x \in Seq(A)
  OBVIOUS
<1>2. ASSUME NEW k \in 1..Len(v) PROVE (v \o x)[k] = v[k]
  <2>1. k \in 1..(Len(v) + Len(x))
    BY <1>1
  <2> QED  BY <1>1, <2>1
<1>3. ASSUME NEW k \in (Len(v) + 1)..(Len(v) + Len(x)) PROVE (v \o x)[k] = x[k - Len(v)]
  <2>1. k \in 1..(Len(v) + Len(x)) /\ ~(k <= Len(v))
    BY <1>1
  <2> QED  BY <1>1, <2>1
<1> QED  BY <1>1, <1>2, <1>3

\* The parsed bytes of an output follow those on the screen.
LEMMA SoundAppend ==
    ASSUME NEW t \in Terminals, NEW v \in Views, NEW n \in Nat, NEW m \in Nat,
           NEW e \in Epochs, Sound(t, v, n), n <= m, m <= Len(t.log), InGrid(t, n, m, e)
    PROVE  Sound(t, v \o Cells(n, m, e), m)
<1>1. /\ Cells(n, m, e) \in Views /\ Len(Cells(n, m, e)) = m - n
      /\ \A k \in 1..(m - n) : Cells(n, m, e)[k] = <<n + k, e>>
  BY CellsType
<1> DEFINE x == Cells(n, m, e)
           y == v \o x
<1>2. v \in Seq(Nat \X Epochs) /\ x \in Seq(Nat \X Epochs) /\ Len(v) = n
  BY <1>1 DEF Views, Sound
<1>3. Len(x) = m - n /\ \A k \in 1..(m - n) : x[k] = <<n + k, e>>
  BY <1>1
<1> HIDE DEF x
<1>4. /\ Len(y) = m
      /\ \A k \in 1..n : y[k] = v[k]
      /\ \A k \in (n + 1)..m : y[k] = x[k - n]
  <2>1. /\ Len(y) = Len(v) + Len(x)
        /\ \A k \in 1..Len(v) : y[k] = v[k]
        /\ \A k \in (Len(v) + 1)..(Len(v) + Len(x)) : y[k] = x[k - Len(v)]
    BY <1>2, Concatenation
  <2>4. Len(v) + Len(x) = m
    BY <1>2, <1>3
  <2> QED  BY <1>2, <2>1, <2>4
<1> HIDE DEF y
<1>5. ASSUME NEW k \in 1..m
      PROVE  y[k][1] = k /\ (SizeSyncTogether => y[k][2] = t.log[k])
  <2>1. CASE k <= n
    BY <1>4, <2>1 DEF Sound
  <2>2. CASE ~(k <= n)
    <3>1. k \in (n + 1)..m /\ k - n \in 1..(m - n) /\ n + (k - n) = k
      BY <2>2
    <3>2. y[k] = <<k, e>>
      BY <1>3, <1>4, <3>1
    <3>3. SizeSyncTogether => t.log[k] = e
      BY <3>1 DEF InGrid
    <3> QED  BY <3>2, <3>3
  <2> QED  BY <2>1, <2>2
<1> QED  BY <1>4, <1>5 DEF Sound, x, y

LEMMA FollowingParse ==
    ASSUME NEW t \in Terminals, NEW p \in Panes, Following(t, p), p.committed # Unset,
           p.writes # <<>>, NEW w \in Writes, w = Head(p.writes), NEW q \in Panes,
           q.view = Parsed(p, w), q.writes = Tail(p.writes), q.committed = w.upto,
           At(q) = At(p)
    PROVE  w.own /\ w.kind = "output" /\ Committable(p, w.upto) /\ Following(t, q)
<1>1. /\ q.received = p.received /\ q.epoch = p.epoch /\ q.mode = p.mode /\ q.target = p.target
  BY DEF At, Stop
<1> DEFINE n == Len(p.writes)
<1>2. /\ n \in Nat /\ n # 0 /\ 1 \in 1..n /\ w = p.writes[1] /\ Len(q.writes) = n - 1
      /\ \A k \in 1..(n - 1) : q.writes[k] = p.writes[k + 1]
  BY PaneType
<1>3. /\ \A k \in 1..n :
            /\ p.writes[k].kind = "output" /\ p.writes[k].own
            /\ p.writes[k].from <= p.writes[k].upto
            /\ p.writes[k].upto <= p.received
            /\ k < n => p.writes[k + 1].from = p.writes[k].upto
      /\ p.writes[1].from = p.committed /\ p.writes[n].upto = p.received
      /\ p.received # Unset /\ p.epoch # Unset /\ p.mode \in {"none", "resume"}
      /\ p.received <= Len(t.log) /\ InGrid(t, p.committed, p.received, p.epoch)
  BY <1>2 DEF Following
<1> HIDE DEF n
<1>4. /\ w.kind = "output" /\ w.own /\ w.from = p.committed /\ w.from <= w.upto
      /\ w.upto <= p.received
  BY <1>2, <1>3
<1>5. w.from \in Nat /\ w.upto \in Nat /\ p.received \in Nat /\ p.epoch \in Epochs /\ p.view \in Views
  BY <1>3, PaneType DEF Writes
<1>6. Committable(p, w.upto)
  BY <1>3, <1>4 DEF Committable
<1>7. q.view = p.view \o Cells(w.from, w.upto, p.epoch)
  BY <1>4 DEF Parsed
<1>8. Sound(t, q.view, w.upto)
  <2>1. Sound(t, p.view, w.from)
    BY <1>4 DEF Following
  <2>2. InGrid(t, w.from, w.upto, p.epoch)
    BY <1>3, <1>4, <1>5 DEF InGrid
  <2>3. w.upto <= Len(t.log)
    BY <1>3, <1>4, <1>5, TerminalType
  <2> QED  BY <1>4, <1>5, <1>7, <2>1, <2>2, <2>3, SoundAppend
<1>9. InGrid(t, w.upto, q.received, q.epoch)
  BY <1>1, <1>3, <1>4, <1>5 DEF InGrid
<1>10. ASSUME NEW k \in 1..(n - 1)
       PROVE  /\ q.writes[k].kind = "output" /\ q.writes[k].own
              /\ q.writes[k].from <= q.writes[k].upto
              /\ q.writes[k].upto <= q.received
              /\ k < n - 1 => q.writes[k + 1].from = q.writes[k].upto
  <2>1. k + 1 \in 1..n /\ q.writes[k] = p.writes[k + 1]
    BY <1>2
  <2>2. k < n - 1 => k + 1 < n /\ k + 1 \in 1..(n - 1) /\ q.writes[k + 1] = p.writes[(k + 1) + 1]
    BY <1>2
  <2> QED  BY <1>1, <1>3, <2>1, <2>2
<1>11. IF n - 1 = 0 THEN q.committed = q.received
       ELSE q.writes[1].from = q.committed /\ q.writes[n - 1].upto = q.received
  <2>1. CASE n = 1
    BY <1>1, <1>2, <1>3, <2>1
  <2>2. CASE n # 1
    <3>1. 1 \in 1..(n - 1) /\ n - 1 \in 1..(n - 1) /\ (n - 1) + 1 = n /\ 1 < n /\ 1 + 1 = 2
      BY <1>2, <2>2
    <3>2. q.writes[1] = p.writes[2] /\ q.writes[n - 1] = p.writes[n]
      BY <1>2, <3>1
    <3>3. p.writes[2].from = p.writes[1].upto
      BY <1>2, <1>3, <3>1
    <3> QED  BY <1>1, <1>2, <1>3, <2>2, <3>2, <3>3
  <2> QED  BY <1>2, <2>1, <2>2
<1>12. Following(t, q)
  BY <1>1, <1>2, <1>3, <1>4, <1>8, <1>9, <1>10, <1>11 DEF Following
<1> QED  BY <1>4, <1>6, <1>12

LEMMA BlankParse ==
    ASSUME NEW t \in Terminals, NEW p \in Panes,
           Disconnected(p) \/ Clearing(p) \/ Restored(t, p),
           p.writes # <<>>, NEW w \in Writes, w = Head(p.writes), NEW q \in Panes,
           q.view = Parsed(p, w), q.writes = Tail(p.writes), At(q) = At(p)
    PROVE  /\ ~(w.own /\ w.kind = "output")
           /\ Disconnected(q) \/ Clearing(q) \/ Restored(t, q)
<1>1. /\ q.received = p.received /\ q.epoch = p.epoch /\ q.mode = p.mode /\ q.target = p.target
  BY DEF At, Stop
<1> DEFINE n == Len(p.writes)
<1>2. /\ n \in Nat /\ n # 0 /\ 1 \in 1..n /\ w = p.writes[1] /\ Len(q.writes) = n - 1
      /\ \A k \in 1..(n - 1) : q.writes[k] = p.writes[k + 1] /\ k + 1 \in 1..n
  BY PaneType
<1>0. (n = 0 <=> Len(p.writes) = 0) /\ (n > 0 => Len(p.writes) > 0) /\ Len(p.writes) = n
  OBVIOUS
<1> HIDE DEF n
<1>3. ASSUME NEW i \in 1..n, p.writes[i].kind = "reset"
      PROVE  i \in 1..n /\ (i = 1 => q.view = <<>>) /\ (i # 1 => q.writes[i - 1].kind = "reset")
  <2>1. i = 1 => q.view = <<>>
    BY <1>2, <1>3 DEF Parsed
  <2>2. i # 1 => i - 1 \in 1..(n - 1) /\ (i - 1) + 1 = i
    BY <1>2
  <2> QED  BY <1>2, <1>3, <2>1, <2>2
<1>4. CASE Disconnected(p)
  BY <1>0, <1>1, <1>2, <1>4 DEF Disconnected
<1>5. CASE Clearing(p)
  <2>1. p.writes[n].kind = "reset" /\ n \in 1..n
    BY <1>0, <1>2, <1>5 DEF Clearing, ClearedBy
  <2>2. ClearedBy(q, n - 1)
    <3>1. n - 1 = 0 <=> n = 1
      BY <1>2
    <3> QED  BY <1>3, <2>1, <3>1 DEF ClearedBy
  <2>3. Clearing(q)
    BY <1>0, <1>1, <1>2, <1>5, <2>2 DEF Clearing
  <2> QED  BY <1>0, <1>2, <1>5, <2>3 DEF Clearing
<1>6. CASE Restored(t, p)
  <2>1. /\ p.mode = "restored" /\ p.received # Unset /\ p.target = p.received
        /\ p.writes[n].own /\ p.writes[n].kind = "snapshot"
        /\ Sound(t, p.writes[n].view, p.received)
        /\ \A k \in 1..(n - 1) : ~p.writes[k].own
        /\ ClearedBy(p, n - 1)
    BY <1>0, <1>2, <1>6 DEF Restored
  <2>2. CASE n = 1
    <3>1. p.view = <<>>
      BY <2>1, <2>2 DEF ClearedBy
    <3>2. w.kind = "snapshot" /\ q.view = p.view \o w.view /\ w.view \in Views
      BY <1>2, <2>1, <2>2 DEF Parsed, Writes
    <3>3. q.view = w.view
      BY <3>1, <3>2 DEF Views
    <3>4. Restored(t, q)
      BY <1>1, <1>2, <2>1, <2>2, <3>3 DEF Restored
    <3> QED  BY <3>2, <3>4
  <2>3. CASE n # 1
    <3>1. n - 1 \in 1..n /\ n - 1 \in 1..(n - 1) /\ (n - 1) + 1 = n /\ 1 \in 1..(n - 1)
      BY <1>2, <2>3
    <3>2. p.writes[n - 1].kind = "reset"
      BY <2>1, <2>3, <1>2 DEF ClearedBy
    <3>3. ClearedBy(q, (n - 1) - 1)
      <4>1. (n - 1) - 1 = 0 <=> n - 1 = 1
        BY <1>2
      <4> QED  BY <1>3, <3>1, <3>2, <4>1 DEF ClearedBy
    <3>4. q.writes[n - 1] = p.writes[n]
      BY <1>2, <3>1
    <3>5. \A k \in 1..((n - 1) - 1) : ~q.writes[k].own
      <4> SUFFICES ASSUME NEW k \in 1..((n - 1) - 1) PROVE ~q.writes[k].own
        OBVIOUS
      <4>1. k + 1 \in 1..(n - 1) /\ k \in 1..(n - 1)
        BY <1>2
      <4> QED  BY <1>2, <2>1, <4>1
    <3>6. Restored(t, q)
      BY <1>1, <1>2, <2>1, <3>1, <3>3, <3>4, <3>5 DEF Restored
    <3> QED  BY <1>2, <2>1, <3>1, <3>6
  <2> QED  BY <2>2, <2>3
<1> QED  BY <1>4, <1>5, <1>6

LEMMA ParseClient ==
    ASSUME NEW t \in Terminals, NEW p \in Panes, NEW w \in Seq(Messages), NEW r,
           ClientInv(t, p, w, r), p.writes # <<>>, NEW x, x = Head(p.writes),
           NEW q \in Panes, q.received = p.received, q.mode = p.mode, q.target = p.target,
           q.view = Parsed(p, x), q.writes = Tail(p.writes), q.accepting = p.accepting,
           q.link = p.link, q.epoch = p.epoch,
           q.committed = IF x.own /\ x.kind = "output" THEN x.upto ELSE p.committed
    PROVE  /\ x.own /\ x.kind = "output" => Committable(p, x.upto)
           /\ ClientInv(t, q, w, r)
<1>1. x \in Writes /\ p.writes[1] = x /\ 1 \in 1..Len(p.writes)
  BY PaneType
<1>3. /\ q.committed = IF x.own /\ x.kind = "output" THEN x.upto ELSE p.committed
      /\ q.received = p.received /\ q.mode = p.mode
      /\ q.target = p.target /\ q.view = Parsed(p, x) /\ q.writes = Tail(p.writes)
      /\ q.accepting = p.accepting /\ q.link = p.link /\ q.epoch = p.epoch
  OBVIOUS
<1>4. At(q) = At(p)
  BY <1>3 DEF At
<1>5. OwnWrites(p) = {} => OwnWrites(q) = {}
  <2> SUFFICES ASSUME \A k \in 1..Len(p.writes) : ~p.writes[k].own,
                      NEW k \in 1..Len(q.writes)
               PROVE  ~q.writes[k].own
    BY Own
  <2>1. k + 1 \in 1..Len(p.writes) /\ q.writes[k] = p.writes[k + 1]
    BY <1>3, PaneType
  <2> QED  BY <2>1
<1>6. ASSUME p.committed # Unset
      PROVE  (x.own /\ x.kind = "output" => Committable(p, x.upto)) /\ PaneInv(t, q)
  <2>1. Following(t, p)
    BY <1>6 DEF ClientInv, PaneInv
  <2>2. x.own /\ x.kind = "output"
    BY <1>1, <2>1 DEF Following
  <2>3. Committable(p, x.upto) /\ Following(t, q)
    <3>1. q.view = Parsed(p, x) /\ q.writes = Tail(p.writes) /\ q.committed = x.upto
      BY <1>3, <2>2
    <3> HIDE DEF Following
    <3> QED  BY <1>1, <1>4, <1>6, <2>1, <3>1, FollowingParse
  <2>4. q.committed # Unset
    BY <1>1, <1>3, <2>2 DEF Writes, Unset
  <2>5. PaneInv(t, q)
    BY <1>3, <1>6, <2>3, <2>4 DEF PaneInv, ClientInv
  <2> QED  BY <2>3, <2>5
<1>7. ASSUME p.committed = Unset
      PROVE  (x.own /\ x.kind = "output" => Committable(p, x.upto)) /\ PaneInv(t, q)
  <2>1. Disconnected(p) \/ Clearing(p) \/ Restored(t, p)
    BY <1>7 DEF ClientInv, PaneInv
  <2>2. /\ ~(x.own /\ x.kind = "output")
        /\ Disconnected(q) \/ Clearing(q) \/ Restored(t, q)
    BY <1>1, <1>3, <1>4, <2>1, BlankParse
  <2>3. PaneInv(t, q)
    BY <1>3, <1>7, <2>2 DEF PaneInv, ClientInv
  <2> QED  BY <2>2, <2>3
<1>8. p.link \in {"closing", "down"} => ClosedInv(t, q, w, r)
  BY <1>3, <1>4, <1>5 DEF ClientInv, ClosedInv
<1>9. p.link # "exited"
  BY DEF ClientInv, ExitedInv
<1> QED  BY <1>3, <1>4, <1>5, <1>6, <1>7, <1>8, <1>9, OpenSame DEF ClientInv

LEMMA SettleClient ==
    ASSUME NEW t \in Terminals, NEW p \in Panes, NEW w \in Seq(Messages), NEW r,
           ClientInv(t, p, w, r), p.link = "closing", NEW settled \in Panes,
           settled = [p EXCEPT !.link = "down", !.recovering = MustRestart(p),
                               !.writes = Disowned(p.writes)],
           NEW q \in Panes, q = IF MustRestart(p) THEN Restarted(settled) ELSE settled
    PROVE  ClientInv(t, q, w, r)
<1>1. /\ settled.committed = p.committed /\ settled.received = p.received
      /\ settled.mode = p.mode /\ settled.target = p.target /\ settled.view = p.view
      /\ settled.writes = Disowned(p.writes) /\ settled.accepting = p.accepting
      /\ settled.link = "down" /\ settled.epoch = p.epoch
  BY DEF Panes
<1>2. /\ Len(Disowned(p.writes)) = Len(p.writes) /\ Len(p.writes) \in Nat
      /\ \A k \in 1..Len(p.writes) : /\ ~Disowned(p.writes)[k].own
                                      /\ Disowned(p.writes)[k].kind = p.writes[k].kind
  BY PaneType, DisownedType
<1>3. w = <<>> /\ ~r.live /\ Placed(t, At(p)) /\ Fits(t, At(p)) /\ ~p.accepting
  BY DEF ClientInv, ClosedInv, PaneInv
<1>4. CASE MustRestart(p)
  <2>1. /\ q.committed = Unset /\ q.received = Unset /\ q.mode = "none" /\ q.target = Unset
        /\ q.writes = Disowned(p.writes) /\ q.accepting = p.accepting /\ q.link = "down"
    BY <1>1, <1>4 DEF Restarted, Panes
  <2>2. Len(q.writes) = Len(p.writes) /\ \A k \in 1..Len(q.writes) : ~q.writes[k].own
    BY <1>2, <2>1
  <2>4. OwnWrites(q) = {} /\ Disconnected(q)
    BY <2>1, <2>2, Own DEF Disconnected
  <2>3. Placed(t, At(q)) /\ Fits(t, At(q))
    BY <2>1 DEF Placed, Fits, At, Stop
  <2> QED  BY <1>3, <2>1, <2>3, <2>4 DEF ClientInv, ClosedInv, PaneInv
<1>5. CASE ~MustRestart(p)
  <2>1. q = settled /\ OwnWrites(p) = {}
    BY <1>5 DEF MustRestart
  <2>4. /\ Len(q.writes) = Len(p.writes)
        /\ \A k \in 1..Len(p.writes) : ~q.writes[k].own /\ q.writes[k].kind = p.writes[k].kind
    <3>1. q.writes = Disowned(p.writes)
      BY <1>1, <2>1
    <3>2. \A k \in 1..Len(p.writes) : /\ q.writes[k] = Disowned(p.writes)[k]
                                      /\ q.writes[k].own = Disowned(p.writes)[k].own
      BY <3>1
    <3>3. Len(q.writes) = Len(p.writes)
      BY <1>2, <3>1
    <3> HIDE DEF Disowned
    <3> QED  BY <1>2, <3>2, <3>3
  <2>5. /\ q.committed = p.committed /\ q.received = p.received /\ q.epoch = p.epoch
        /\ q.mode = p.mode /\ q.target = p.target /\ q.view = p.view
        /\ q.accepting = p.accepting /\ q.link = "down"
    BY <1>1, <2>1
  <2>2. At(q) = At(p) /\ OwnWrites(q) = {}
    BY <2>4, <2>5, Own DEF At
  <2>3. PaneInv(t, q)
    <3>1. CASE p.committed # Unset
      <4>1. Following(t, p) /\ Len(p.writes) = 0
        BY <2>1, <3>1, Settled DEF ClientInv
      <4>2. Following(t, q)
        BY <2>4, <2>5, <4>1 DEF Following
      <4> QED  BY <1>3, <2>5, <3>1, <4>2 DEF PaneInv
    <3>2. CASE p.committed = Unset
      <4>1. Disconnected(p) => Disconnected(q)
        BY <2>4, <2>5 DEF Disconnected
      <4>2. Clearing(p) => Clearing(q)
        BY <1>2, <2>4, <2>5 DEF Clearing, ClearedBy
      <4>3. Restored(t, p) => Restored(t, q)
        <5>1. ~(Len(p.writes) > 0 /\ p.writes[Len(p.writes)].own)
          BY <1>2, <2>1, Own
        <5> QED  BY <1>2, <2>4, <2>5, <5>1 DEF Restored
      <4> QED  BY <1>3, <2>5, <3>2, <4>1, <4>2, <4>3 DEF PaneInv, ClientInv
    <3> QED  BY <3>1, <3>2
  <2> QED  BY <1>3, <2>2, <2>3, <2>5 DEF ClientInv, ClosedInv
<1> QED  BY <1>4, <1>5

-----------------------------------------------------------------------------
(* What is sent to a pane.                                                 *)

LEMMA WayConcat ==
    ASSUME NEW t, NEW s, NEW v \in Seq(Messages), NEW u, NEW w \in Seq(Messages), NEW x,
           Way(t, s, v, u), Way(t, u, w, x), ~SyncNext(w, 0)
    PROVE  Way(t, s, v \o w, x)
<1>1. PICK S \in [Nat -> Stops] : S[0] = s /\ S[Len(v)] = u /\ Track(t, v, S)
  BY DEF Way
<1>2. PICK R \in [Nat -> Stops] : R[0] = u /\ R[Len(w)] = x /\ Track(t, w, R)
  BY DEF Way
<1> DEFINE n == Len(v)
           m == Len(w)
           y == v \o w
           T == [k \in Nat |-> IF k <= n THEN S[k] ELSE R[k - n]]
<1>3. /\ n \in Nat /\ m \in Nat /\ Len(y) = n + m /\ y \in Seq(Messages)
      /\ \A k \in 1..n : y[k] = v[k]
      /\ \A k \in (n + 1)..(n + m) : y[k] = w[k - n]
  BY Concatenation
<1>4. /\ T \in [Nat -> Stops]
      /\ \A k \in 0..n : T[k] = S[k]
      /\ \A k \in n..(n + m) : T[k] = R[k - n]
  <2>1. \A k \in Nat : k > n => k - n \in Nat
    BY <1>3
  <2>2. n - n = 0 /\ R[0] = S[n]
    BY <1>1, <1>2, <1>3
  <2>3. \A k \in n..(n + m) : k \in Nat /\ (k = n \/ ~(k <= n))
    BY <1>3
  <2>4. \A k \in 0..n : k \in Nat /\ k <= n
    BY <1>3
  <2> QED  BY <1>3, <2>1, <2>2, <2>3, <2>4
<1>5. /\ \A k \in 1..n : Leg(t, S[k - 1], v[k], S[k])
      /\ \A k \in 0..n : Placed(t, S[k]) /\ (SyncNext(v, k) \/ Fits(t, S[k]))
      /\ \A k \in 1..n : SyncNext(v, k) => v[k].type = "size"
      /\ \A k \in 1..m : Leg(t, R[k - 1], w[k], R[k])
      /\ \A k \in 0..m : Placed(t, R[k]) /\ (SyncNext(w, k) \/ Fits(t, R[k]))
      /\ \A k \in 1..m : SyncNext(w, k) => w[k].type = "size"
  BY <1>1, <1>2 DEF Track
<1>6. ~SyncNext(v, n)
  BY <1>3 DEF SyncNext
<1> HIDE DEF n, m, y, T
<1>7. \A k \in 0..(n - 1) : SyncNext(y, k) <=> SyncNext(v, k)
  <2> SUFFICES ASSUME NEW k \in 0..(n - 1) PROVE SyncNext(y, k) <=> SyncNext(v, k)
    OBVIOUS
  <2>1. k + 1 \in 1..n /\ k < n /\ k < n + m
    BY <1>3
  <2> QED  BY <1>3, <2>1 DEF SyncNext, n
<1>8. \A k \in n..(n + m) : SyncNext(y, k) <=> SyncNext(w, k - n)
  <2> SUFFICES ASSUME NEW k \in n..(n + m) PROVE SyncNext(y, k) <=> SyncNext(w, k - n)
    OBVIOUS
  <2>1. /\ k < n + m <=> k - n < m
        /\ k < n + m => k + 1 \in (n + 1)..(n + m) /\ (k + 1) - n = (k - n) + 1
    BY <1>3
  <2>2. k < n + m => y[k + 1] = w[(k - n) + 1]
    BY <1>3, <2>1
  <2> QED  BY <1>3, <2>1, <2>2 DEF SyncNext, m
<1>9. ASSUME NEW k \in 1..(n + m) PROVE Leg(t, T[k - 1], y[k], T[k])
  <2>1. CASE k <= n
    <3>1. k \in 1..n /\ k \in 0..n /\ k - 1 \in 0..n
      BY <1>3, <2>1
    <3> QED  BY <1>3, <1>4, <1>5, <3>1
  <2>2. CASE ~(k <= n)
    <3>1. /\ k \in (n + 1)..(n + m) /\ k \in n..(n + m) /\ k - 1 \in n..(n + m)
          /\ k - n \in 1..m /\ (k - 1) - n = (k - n) - 1
      BY <1>3, <2>2
    <3>2. y[k] = w[k - n] /\ T[k] = R[k - n] /\ T[k - 1] = R[(k - n) - 1]
      BY <1>3, <1>4, <3>1
    <3> QED  BY <1>5, <3>1, <3>2
  <2> QED  BY <2>1, <2>2
<1>10. ASSUME NEW k \in 0..(n + m)
       PROVE  Placed(t, T[k]) /\ (SyncNext(y, k) \/ Fits(t, T[k]))
  <2>1. CASE k < n
    <3>1. k \in 0..n /\ k \in 0..(n - 1)
      BY <1>3, <2>1
    <3> QED  BY <1>4, <1>5, <1>7, <3>1
  <2>2. CASE ~(k < n)
    <3>1. k \in n..(n + m) /\ k - n \in 0..m
      BY <1>3, <2>2
    <3> QED  BY <1>4, <1>5, <1>8, <3>1
  <2> QED  BY <2>1, <2>2
<1>11. ASSUME NEW k \in 1..(n + m), SyncNext(y, k) PROVE y[k].type = "size"
  <2>1. CASE k < n
    <3>1. k \in 1..n /\ k \in 0..(n - 1)
      BY <1>3, <2>1
    <3> QED  BY <1>3, <1>5, <1>7, <1>11, <3>1
  <2>2. CASE k = n
    <3>1. k \in n..(n + m) /\ k - n = 0
      BY <1>3, <2>2
    <3>2. SyncNext(w, 0)
      BY <1>8, <1>11, <3>1
    <3> QED  BY <3>2
  <2>3. CASE k > n
    <3>1. k \in n..(n + m) /\ k - n \in 1..m /\ k \in (n + 1)..(n + m)
      BY <1>3, <2>3
    <3>2. SyncNext(w, k - n) /\ y[k] = w[k - n]
      BY <1>3, <1>8, <1>11, <3>1
    <3> QED  BY <1>5, <3>1, <3>2
  <2> QED  BY <1>3, <2>1, <2>2, <2>3
<1>12. T[0] = s /\ T[n + m] = x
  <2>1. 0 \in 0..n /\ n + m \in n..(n + m) /\ (n + m) - n = m
    BY <1>3
  <2> QED  BY <1>1, <1>2, <1>4, <2>1 DEF m
<1> QED  BY <1>3, <1>4, <1>9, <1>10, <1>11, <1>12 DEF Way, Track, y

LEMMA WayMessage ==
    ASSUME NEW t, NEW s \in Stops, NEW m \in Messages, NEW x \in Stops, Leg(t, s, m, x),
           Placed(t, s), Fits(t, s), Placed(t, x), Fits(t, x)
    PROVE  Way(t, s, <<m>>, x)
<1> DEFINE S == [k \in Nat |-> IF k = 0 THEN s ELSE x]
           w == <<m>>
<1>1. /\ S \in [Nat -> Stops] /\ S[0] = s /\ S[1] = x /\ Len(w) = 1 /\ w[1] = m
      /\ 1 - 1 = 0 /\ 0..1 = {0, 1} /\ 1..1 = {1}
  OBVIOUS
<1> HIDE DEF S, w
<1>2. ~SyncNext(w, 1)
  BY <1>1 DEF SyncNext
<1>3. Track(t, w, S)
  BY <1>1, <1>2 DEF Track
<1> QED  BY <1>1, <1>3 DEF Way, w

LEMMA WayOpening ==
    ASSUME NEW t, NEW s \in Stops, NEW a \in Messages, NEW x \in Stops,
           NEW b \in Messages, NEW y \in Stops, Leg(t, s, a, x), Leg(t, x, b, y),
           a.type = "size", b.type \in Syncs, Placed(t, s), Fits(t, s),
           Placed(t, x), Placed(t, y), Fits(t, y)
    PROVE  Way(t, s, <<a, b>>, y) /\ ~SyncNext(<<a, b>>, 0)
<1> DEFINE S == [k \in Nat |-> IF k = 0 THEN s ELSE IF k = 1 THEN x ELSE y]
           w == <<a, b>>
<1>1. /\ S \in [Nat -> Stops] /\ S[0] = s /\ S[1] = x /\ S[2] = y /\ Len(w) = 2 /\ w[1] = a
      /\ w[2] = b /\ 1 - 1 = 0 /\ 2 - 1 = 1 /\ 1 + 1 = 2 /\ 0 + 1 = 1
      /\ 0..2 = {0, 1, 2} /\ 1..2 = {1, 2}
  OBVIOUS
<1> HIDE DEF S, w
<1>2. SyncNext(w, 1) /\ ~SyncNext(w, 2) /\ ~SyncNext(w, 0)
  BY <1>1 DEF SyncNext, Syncs
<1>3. \A k \in 1..Len(w) : Leg(t, S[k - 1], w[k], S[k])
  BY <1>1
<1>4. \A k \in 0..Len(w) : Placed(t, S[k]) /\ (SyncNext(w, k) \/ Fits(t, S[k]))
  BY <1>1, <1>2
<1>5. \A k \in 1..Len(w) : SyncNext(w, k) => w[k].type = "size"
  BY <1>1, <1>2
<1> QED  BY <1>1, <1>2, <1>3, <1>4, <1>5 DEF Way, Track, w

\* A message that opens no synchronization is one more leg.
LEMMA WayAppend ==
    ASSUME NEW t, NEW s, NEW w \in Seq(Messages), NEW u \in Stops, Way(t, s, w, u),
           NEW m \in Messages, m.type \notin Syncs, NEW x \in Stops, Leg(t, u, m, x),
           Placed(t, u), Fits(t, u), Placed(t, x), Fits(t, x)
    PROVE  Way(t, s, Append(w, m), x)
<1>1. Way(t, u, <<m>>, x)
  BY WayMessage
<1>2. ~SyncNext(<<m>>, 0)
  BY DEF SyncNext
<1>3. Append(w, m) = w \o <<m>> /\ <<m>> \in Seq(Messages)
  OBVIOUS
<1> QED  BY <1>1, <1>2, <1>3, WayConcat

\* The end of a way fits.
LEMMA WayEnd ==
    ASSUME NEW t, NEW s, NEW w \in Seq(Messages), NEW u, Way(t, s, w, u)
    PROVE  Placed(t, u) /\ Fits(t, u)
<1>1. PICK S \in [Nat -> Stops] : S[Len(w)] = u /\ Track(t, w, S)
  BY DEF Way
<1>2. Len(w) \in 0..Len(w) /\ ~SyncNext(w, Len(w))
  BY DEF SyncNext
<1> QED  BY <1>1, <1>2 DEF Track

\* Without messages the end is the start.
LEMMA WayEmpty ==
    ASSUME NEW t, NEW s \in Stops, Placed(t, s), Fits(t, s)
    PROVE  Way(t, s, <<>>, s)
<1> DEFINE S == [k \in Nat |-> s]
<1>1. S \in [Nat -> Stops] /\ S[0] = s /\ Len(<<>>) = 0 /\ 1..0 = {} /\ 0..0 = {0}
  OBVIOUS
<1> HIDE DEF S
<1> QED  BY <1>1 DEF Way, Track

-----------------------------------------------------------------------------
(* A synchronization, and what the socket loop forwards.                   *)

LEMMA SnapshotSound ==
    ASSUME Inv
    PROVE  Sound(Now, SnapshotView, output.sequence)
<1>1. /\ Now \in Terminals /\ Now.log = log /\ output.sequence = Len(log)
      /\ output.sequence \in Nat /\ output.epoch \in Epochs
  BY NowType, NowFields DEF Inv, TypeOK, States, Epochs
<1> DEFINE kept == output.checkpoint
<1>2. CASE kept # NoUpload /\ kept.epoch = output.epoch /\ kept.sequence >= output.earliest
  <2>1. SnapshotView = kept.view \o Cells(kept.sequence, output.sequence, output.epoch)
    BY <1>2 DEF SnapshotView
  <2>2. /\ Sound(Now, kept.view, kept.sequence) /\ kept.sequence # Unset
        /\ \A n \in (kept.sequence + 1)..Len(log) : log[n] = output.epoch
    BY <1>2 DEF Inv, CheckpointInv
  <2>3. kept.view \in Views /\ kept.sequence \in Nat
    BY <2>2 DEF Inv, TypeOK, States, Uploads, Positions
  <2>4. kept.sequence <= output.sequence
    BY <1>1, <2>2 DEF Sound
  <2>5. InGrid(Now, kept.sequence, output.sequence, output.epoch)
    BY <1>1, <2>2 DEF InGrid
  <2> HIDE DEF kept
  <2> QED  BY <1>1, <2>1, <2>2, <2>3, <2>4, <2>5, SoundAppend
<1>3. CASE ~(kept # NoUpload /\ kept.epoch = output.epoch /\ kept.sequence >= output.earliest)
  <2>1. SnapshotView = Screen
    BY <1>3 DEF SnapshotView
  <2>2. Len(Screen) = Len(log) /\ \A k \in 1..Len(log) : Screen[k] = <<k, log[k]>>
    BY ScreenType DEF Inv
  <2> QED  BY <1>1, <2>1, <2>2 DEF Sound
<1> QED  BY <1>2, <1>3

LEMMA SameSequence ==
    ASSUME NEW A, NEW v \in Seq(A), NEW w \in Seq(A), Len(v) = Len(w),
           \A k \in 1..Len(v) : v[k] = w[k]
    PROVE  v = w
  OBVIOUS

LEMMA ThreeMessages ==
    ASSUME NEW a \in Messages, NEW b \in Messages, NEW d \in Messages
    PROVE  Append(<<a, b>>, d) = <<a, b, d>> /\ <<a, b, d>> \in Seq(Messages)
<1> DEFINE v == Append(<<a, b>>, d)
           w == <<a, b, d>>
<1>1. v \in Seq(Messages) /\ w \in Seq(Messages) /\ Len(v) = Len(w) /\ \A k \in 1..Len(v) : v[k] = w[k]
  <2>1. Len(v) = 3 /\ Len(w) = 3 /\ v[1] = w[1] /\ v[2] = w[2] /\ v[3] = w[3]
    OBVIOUS
  <2> QED  BY <2>1
<1> HIDE DEF v, w
<1>2. v = w
  BY <1>1, SameSequence
<1> QED  BY <1>1, <1>2 DEF v, w

LEMMA FourMessages ==
    ASSUME NEW a \in Messages, NEW b \in Messages, NEW d \in Messages, NEW e \in Messages
    PROVE  /\ Append(Append(<<a, b>>, d), e) = <<a, b, d, e>>
           /\ <<a, b, d, e>> \in Seq(Messages)
<1> DEFINE v == Append(<<a, b, d>>, e)
           w == <<a, b, d, e>>
<1>1. v \in Seq(Messages) /\ w \in Seq(Messages) /\ Len(v) = Len(w) /\ \A k \in 1..Len(v) : v[k] = w[k]
  <2>1. /\ Len(v) = 4 /\ Len(w) = 4 /\ v[1] = w[1] /\ v[2] = w[2] /\ v[3] = w[3]
        /\ v[4] = w[4]
    OBVIOUS
  <2> QED  BY <2>1
<1> HIDE DEF v, w
<1>2. v = w
  BY <1>1, SameSequence
<1> QED  BY <1>1, <1>2, ThreeMessages DEF v, w

\* What a resumption or a restoration leaves the pane with.
Caught == Stop(output.sequence, output.epoch, "none", Unset)

LEMMA MessageFields ==
    /\ \A ty, n : /\ Message(ty, n).type = ty /\ Message(ty, n).number = n
                  /\ Message(ty, n).upto = n
    /\ \A m, n : /\ OutputMessage(m, n).type = "output" /\ OutputMessage(m, n).number = m
                 /\ OutputMessage(m, n).upto = n
    /\ \A n, v : /\ SnapshotMessage(n, v).type = "snapshot" /\ SnapshotMessage(n, v).number = n
                 /\ SnapshotMessage(n, v).view = v
<1>1. \A ty, n : /\ Message(ty, n).type = ty /\ Message(ty, n).number = n
                 /\ Message(ty, n).upto = n
  BY DEF Message
<1>2. \A m, n : OutputMessage(m, n) = [type |-> "output", number |-> m, upto |-> n, view |-> <<>>]
  BY DEF Message, OutputMessage
<1>3. \A n, v : SnapshotMessage(n, v) = [type |-> "snapshot", number |-> n, upto |-> n, view |-> v]
  BY DEF Message, SnapshotMessage
<1> QED  BY <1>1, <1>2, <1>3

\* What the terminal has now fits.
LEMMA NowFits ==
    ASSUME Inv, NEW mode, NEW target
    PROVE  LET s == Stop(output.sequence, output.epoch, mode, target)
           IN  Placed(Now, s) /\ Fits(Now, s)
<1>1. /\ Now.log = log /\ Now.epoch = output.epoch /\ output.sequence = Len(log)
      /\ Len(log) \in Nat /\ output.epoch \in Nat /\ output.epoch # Unset
  BY NowFields DEF Inv, TypeOK, States, Unset
<1>2. Had(Now, output.epoch, Len(log))
  <2>1. Len(log) > 0 => Len(log) \in 1..Len(log)
    BY <1>1
  <2>2. Len(log) > 0 => log[Len(log)] <= output.epoch
    BY <1>1, <2>1 DEF Inv, Forwards
  <2> QED  BY <1>1, <2>2 DEF Had
<1> QED  BY <1>1, <1>2 DEF Placed, Fits, Stop

LEMMA StopFields ==
    \A pos, epoch, mode, target :
        LET s == Stop(pos, epoch, mode, target)
        IN  s.pos = pos /\ s.epoch = epoch /\ s.mode = mode /\ s.target = target
  BY DEF Stop

LEMMA StopType ==
    \A pos \in Positions, epoch \in Epochs, target \in Positions,
       mode \in {"none", "resume", "restore", "restored"} :
        Stop(pos, epoch, mode, target) \in Stops
  BY DEF Stop, Stops

LEMMA RestoreWay ==
    ASSUME Inv, NEW s \in Stops, Placed(Now, s), Fits(Now, s)
    PROVE  /\ Way(Now, s, Restoring, Caught) /\ ~SyncNext(Restoring, 0)
           /\ Restoring \in Seq(Messages)
<1> DEFINE L == output.sequence
           E == output.epoch
           a == Message("size", E)
           b == Message("restore", L)
           d == SnapshotMessage(L, SnapshotView)
           e == Message("synced", L)
           x == Stop(s.pos, E, s.mode, s.target)
           y == Stop(L, E, "restore", L)
           z == Stop(L, E, "restored", L)
<1>1. L \in Nat /\ E \in Nat /\ L \in Positions /\ E \in Epochs /\ Unset \in Positions
  BY DEF Inv, TypeOK, States, Positions, Epochs
<1>2. a \in Messages /\ b \in Messages /\ d \in Messages /\ e \in Messages
  BY <1>1, MessageType, SnapshotType DEF Inv
<1>3. x \in Stops /\ y \in Stops /\ z \in Stops /\ Caught \in Stops
  BY <1>1, StopType DEF Stops, Caught
<1>4. Placed(Now, x)
  BY <1>1, StopFields DEF Placed, Unset
<1>5. /\ Placed(Now, y) /\ Fits(Now, y) /\ Placed(Now, z) /\ Fits(Now, z)
      /\ Placed(Now, Caught) /\ Fits(Now, Caught)
  BY NowFits DEF Caught
<1>6. Leg(Now, s, a, x)
  BY MessageFields DEF Leg
<1>7. Leg(Now, x, b, y)
  BY MessageFields, StopFields DEF Leg
<1>8. Leg(Now, y, d, z)
  BY MessageFields, StopFields, SnapshotSound DEF Leg
<1>9. Leg(Now, z, e, Caught)
  BY MessageFields, StopFields DEF Leg, Caught
<1>10. /\ a.type = "size" /\ b.type \in Syncs /\ d.type \notin Syncs /\ e.type \notin Syncs
  BY MessageFields DEF Syncs
<1> HIDE DEF a, b, d, e, x, y, z, L, E
<1>11. Way(Now, s, <<a, b>>, y) /\ <<a, b>> \in Seq(Messages)
  BY <1>2, <1>3, <1>4, <1>5, <1>6, <1>7, <1>10, WayOpening
<1>12. Way(Now, s, Append(<<a, b>>, d), z)
  BY <1>2, <1>3, <1>5, <1>8, <1>10, <1>11, WayAppend
<1>16. Append(<<a, b>>, d) \in Seq(Messages)
  BY <1>2
<1>13. Way(Now, s, Append(Append(<<a, b>>, d), e), Caught)
  BY <1>2, <1>3, <1>5, <1>9, <1>10, <1>12, <1>16, WayAppend
<1>14. Restoring = <<a, b, d, e>>
  BY DEF Restoring, a, b, d, e, L, E
<1>15. ~SyncNext(<<a, b, d, e>>, 0)
  BY <1>10 DEF SyncNext, Syncs
<1> QED  BY <1>2, <1>13, <1>14, <1>15, FourMessages

LEMMA ResumeWay ==
    ASSUME Inv, NEW s \in Stops, Placed(Now, s), Fits(Now, s),
           s.pos \in Nat, s.epoch = output.epoch, s.mode \in {"none", "resume"}
    PROVE  /\ Way(Now, s, Resuming(s.pos), Caught) /\ ~SyncNext(Resuming(s.pos), 0)
           /\ Resuming(s.pos) \in Seq(Messages)
<1> DEFINE L == output.sequence
           E == output.epoch
           a == Message("size", E)
           b == Message("resume", L)
           d == OutputMessage(s.pos, L)
           e == Message("synced", L)
           x == Stop(s.pos, E, s.mode, s.target)
           y == Stop(s.pos, E, "resume", L)
           z == Stop(L, E, "resume", L)
<1>1. L \in Nat /\ E \in Nat /\ L \in Positions /\ E \in Epochs /\ Unset \in Positions
  BY DEF Inv, TypeOK, States, Positions, Epochs
<1>2. a \in Messages /\ b \in Messages /\ d \in Messages /\ e \in Messages
  BY <1>1, MessageType
<1>3. x \in Stops /\ y \in Stops /\ z \in Stops /\ Caught \in Stops /\ s.pos # Unset
  BY <1>1, StopType DEF Stops, Caught, Unset
<1>4. Placed(Now, x)
  BY <1>1, StopFields DEF Placed, Unset
<1>5. /\ Placed(Now, z) /\ Fits(Now, z) /\ Placed(Now, Caught) /\ Fits(Now, Caught)
  BY NowFits DEF Caught
<1>6. Placed(Now, y) /\ Fits(Now, y)
  BY StopFields DEF Placed, Fits
<1>7. Leg(Now, s, a, x)
  BY MessageFields DEF Leg
<1>8. Leg(Now, x, b, y)
  BY <1>3, MessageFields, StopFields DEF Leg
<1>9. s.pos <= L /\ Leg(Now, y, d, z)
  <2>1. Now.log = log /\ Now.epoch = output.epoch /\ L = Len(log)
    BY NowFields DEF Inv, TypeOK
  <2>2. s.pos <= L
    BY <1>3, <2>1 DEF Placed
  <2>3. InGrid(Now, s.pos, L, E)
    <3> SUFFICES ASSUME SizeSyncTogether, NEW n \in (s.pos + 1)..L PROVE log[n] = E
      BY <2>1 DEF InGrid
    <3>1. /\ s.pos + 1 \in 1..Len(log) /\ n \in 1..Len(log) /\ s.pos < Len(log) /\ s.pos + 1 <= n
      BY <1>1, <2>1
    <3>2. E <= log[s.pos + 1]
      BY <1>3, <2>1, <3>1 DEF Fits, Had
    <3>3. log[s.pos + 1] <= log[n] /\ log[n] <= E
      BY <2>1, <3>1 DEF Inv, Forwards
    <3>4. log[n] \in Nat /\ log[s.pos + 1] \in Nat
      <4>1. log \in Seq(Nat)
        BY DEF Inv, TypeOK
      <4> QED  BY <3>1, <4>1
    <3> QED  BY <1>1, <3>2, <3>3, <3>4
  <2> QED  BY <2>2, <2>3, MessageFields, StopFields DEF Leg
<1>10. s.pos = L => Leg(Now, y, e, Caught)
  BY MessageFields, StopFields DEF Leg, Caught
<1>11. Leg(Now, z, e, Caught)
  BY MessageFields, StopFields DEF Leg, Caught
<1>12. /\ a.type = "size" /\ b.type \in Syncs /\ d.type \notin Syncs /\ e.type \notin Syncs
  BY MessageFields DEF Syncs
<1>13. Resuming(s.pos) = IF s.pos = L THEN <<a, b, e>> ELSE <<a, b, d, e>>
  BY DEF Resuming
<1> HIDE DEF a, b, d, e, x, y, z, L, E
<1>14. Way(Now, s, <<a, b>>, y) /\ <<a, b>> \in Seq(Messages)
  BY <1>2, <1>3, <1>4, <1>6, <1>7, <1>8, <1>12, WayOpening
<1>15. CASE s.pos = L
  <2>1. Way(Now, s, Append(<<a, b>>, e), Caught)
    BY <1>2, <1>3, <1>5, <1>6, <1>10, <1>12, <1>14, <1>15, WayAppend
  <2>2. Resuming(s.pos) = <<a, b, e>>
    BY <1>13, <1>15
  <2>3. ~SyncNext(<<a, b, e>>, 0)
    BY <1>12 DEF SyncNext, Syncs
  <2> QED  BY <1>2, <2>1, <2>2, <2>3, ThreeMessages
<1>16. CASE s.pos # L
  <2>1. Way(Now, s, Append(<<a, b>>, d), z)
    BY <1>2, <1>3, <1>5, <1>6, <1>9, <1>12, <1>14, WayAppend
  <2>5. Append(<<a, b>>, d) \in Seq(Messages)
    BY <1>2
  <2>2. Way(Now, s, Append(Append(<<a, b>>, d), e), Caught)
    BY <1>2, <1>3, <1>5, <1>11, <1>12, <2>1, <2>5, WayAppend
  <2>3. Resuming(s.pos) = <<a, b, d, e>>
    BY <1>13, <1>16
  <2>4. ~SyncNext(<<a, b, d, e>>, 0)
    BY <1>12 DEF SyncNext, Syncs
  <2>6. /\ Append(Append(<<a, b>>, d), e) = <<a, b, d, e>>
        /\ <<a, b, d, e>> \in Seq(Messages)
    BY <1>2, FourMessages
  <2> QED  BY <2>2, <2>3, <2>4, <2>6
<1> QED  BY <1>15, <1>16

\* With the exit, if it happened: what a synchronization sends.
LEMMA SyncWay ==
    ASSUME Inv, NEW s \in Stops, Placed(Now, s), Fits(Now, s),
           NEW resumable \in BOOLEAN, NEW sequence,
           resumable => /\ s.pos = sequence /\ s.pos \in Nat
                        /\ s.epoch = output.epoch /\ s.mode \in {"none", "resume"}
    PROVE  LET v == SyncMessages(resumable, sequence)
           IN  Way(Now, s, v, Caught) /\ ~SyncNext(v, 0) /\ v \in Seq(Messages)
<1> DEFINE v == IF resumable THEN Resuming(sequence) ELSE Restoring
           e == Message("exit", 0)
<1>1. Way(Now, s, v, Caught) /\ ~SyncNext(v, 0) /\ v \in Seq(Messages)
  BY RestoreWay, ResumeWay
<1> HIDE DEF v
<1>2. CASE exitedAt = Unset
  <2>1. SyncMessages(resumable, sequence) = v \o <<>> /\ v \o <<>> = v
    <3>1. v \o <<>> = v
      BY <1>1
    <3> QED  BY <1>2, <3>1 DEF SyncMessages, v
  <2> QED  BY <1>1, <2>1
<1>3. CASE exitedAt # Unset
  <2>1. SyncMessages(resumable, sequence) = v \o <<e>>
    BY <1>3 DEF SyncMessages, v
  <2>2. Leg(Now, Caught, e, Caught)
    <3>1. Now.exit = exitedAt /\ exitedAt <= output.sequence /\ output.sequence # Unset
      BY NowFields DEF Inv, Forwards, TypeOK, States, Unset
    <3> QED  BY <1>3, <3>1, MessageFields, StopFields DEF Leg, Caught
  <2>3. e \in Messages /\ e.type \notin Syncs
    BY MessageType, MessageFields DEF Syncs
  <2>4. Placed(Now, Caught) /\ Fits(Now, Caught) /\ Caught \in Stops
    <3>1. output.sequence \in Positions /\ output.epoch \in Epochs /\ Unset \in Positions
      BY DEF Inv, TypeOK, States, Positions, Epochs
    <3> QED  BY <3>1, NowFits, StopType DEF Caught
  <2> HIDE DEF e
  <2>5. Way(Now, s, Append(v, e), Caught)
    BY <1>1, <2>2, <2>3, <2>4, WayAppend
  <2>6. /\ Append(v, e) = v \o <<e>> /\ Append(v, e) \in Seq(Messages)
        /\ Len(Append(v, e)) = Len(v) + 1 /\ (0 < Len(v) => Append(v, e)[1] = v[1])
        /\ (~(0 < Len(v)) => Append(v, e)[1] = e) /\ 0 + 1 = 1
    BY <1>1, <2>3
  <2>7. ~SyncNext(Append(v, e), 0)
    BY <1>1, <2>3, <2>6 DEF SyncNext
  <2> QED  BY <2>1, <2>5, <2>6, <2>7
<1> QED  BY <1>2, <1>3

\* A fresh subscription goes on where the synchronization ends.
LEMMA FreshSent ==
    ASSUME Inv
    PROVE  FreshReceiver.live => SentInv(Now, FreshReceiver, Caught)
<1> SUFFICES ASSUME FreshReceiver.live PROVE SentInv(Now, FreshReceiver, Caught)
  OBVIOUS
<1>1. FreshReceiver = [live |-> TRUE, queue |-> <<>>, lagged |-> FALSE, sent |-> output.sequence]
  BY DEF FreshReceiver, NoReceiver
<1> DEFINE Q == [k \in Nat |-> [pos |-> output.sequence, epoch |-> output.epoch]]
<1>2. /\ output.sequence \in Nat /\ output.epoch \in Nat
      /\ Now.log = log /\ Now.epoch = output.epoch /\ output.sequence = Len(log)
  BY NowFields DEF Inv, TypeOK, States
<1>3. Q \in [Nat -> Hops] /\ Q[0] = [pos |-> output.sequence, epoch |-> output.epoch]
  BY <1>2 DEF Hops
<1> HIDE DEF Q
<1>4. Len(<<>>) = 0 /\ 1..0 = {} /\ 0..0 = {0}
  OBVIOUS
<1>5. QueueInv(Now, <<>>, Caught, Q)
  BY <1>2, <1>3, <1>4, StopFields DEF QueueInv, Caught
<1> QED  BY <1>1, <1>3, <1>5, StopFields DEF SentInv, Caught

\* One more message, and what the receiver has after it.
LEMMA OpenAppend ==
    ASSUME NEW t, NEW p \in Panes, NEW w \in Seq(Messages), NEW u \in Stops,
           SyncNext(w, 0) => OwnWrites(p) = {}, Way(t, At(p), w, u),
           NEW m \in Messages, m.type \notin Syncs, NEW x \in Stops, Leg(t, u, m, x),
           Placed(t, x), Fits(t, x), NEW r, r.live => SentInv(t, r, x)
    PROVE  OpenInv(t, p, Append(w, m), r)
<1>1. Placed(t, u) /\ Fits(t, u)
  BY WayEnd
<1>2. Way(t, At(p), Append(w, m), x)
  BY <1>1, WayAppend
<1>3. SyncNext(Append(w, m), 0) => SyncNext(w, 0)
  <2>1. /\ Len(Append(w, m)) = Len(w) + 1 /\ Len(w) \in Nat /\ 0 + 1 = 1
        /\ 0 < Len(w) => Append(w, m)[1] = w[1]
        /\ ~(0 < Len(w)) => Append(w, m)[1] = m
    OBVIOUS
  <2> QED  BY <2>1 DEF SyncNext
<1> QED  BY <1>2, <1>3 DEF OpenInv

\* The queue without its first n events.
LEMMA QueueRest ==
    ASSUME NEW t, NEW q \in Seq(Occurrences), NEW s, NEW Q \in [Nat -> Hops],
           QueueInv(t, q, s, Q), NEW n \in 0..Len(q), NEW x,
           x.pos = Q[n].pos, x.epoch = Q[n].epoch,
           NEW y \in Seq(Occurrences), Len(y) = Len(q) - n,
           \A k \in 1..Len(y) : y[k] = q[k + n]
    PROVE  \E R \in [Nat -> Hops] : QueueInv(t, y, x, R)
<1> DEFINE R == [k \in Nat |-> Q[k + n]]
           m == Len(y)
<1>1. /\ R \in [Nat -> Hops] /\ \A k \in Nat : R[k] = Q[k + n]
      /\ m \in Nat /\ Len(q) = m + n /\ n \in Nat /\ Len(q) \in Nat
  OBVIOUS
<1>2. /\ \A k \in 1..(m + n) : Hop(t, Q[k - 1], q[k], Q[k])
      /\ Q[m + n].pos = Len(t.log) /\ Q[m + n].epoch = t.epoch
      /\ \A k \in 0..(m + n) : Q[k].pos <= Len(t.log)
      /\ \A i, j \in 0..(m + n) :
            i <= j /\ (\A k \in (i + 1)..j : q[k].type = "output") => Q[j].epoch = Q[i].epoch
  BY <1>1 DEF QueueInv
<1> HIDE DEF R, m
<1>3. R[0].pos = x.pos /\ R[0].epoch = x.epoch
  <2>1. 0 + n = n
    BY <1>1
  <2> QED  BY <1>1, <2>1
<1>4. ASSUME NEW k \in 1..m PROVE Hop(t, R[k - 1], y[k], R[k])
  <2>1. k + n \in 1..(m + n) /\ (k + n) - 1 = (k - 1) + n /\ k - 1 \in Nat /\ k \in Nat
    BY <1>1
  <2>2. y[k] = q[k + n] /\ R[k] = Q[k + n] /\ R[k - 1] = Q[(k + n) - 1]
    BY <1>1, <2>1 DEF m
  <2> QED  BY <1>2, <2>1, <2>2
<1>5. R[m].pos = Len(t.log) /\ R[m].epoch = t.epoch
  BY <1>1, <1>2
<1>6. ASSUME NEW k \in 0..m PROVE R[k].pos <= Len(t.log)
  <2>1. k + n \in 0..(m + n) /\ k \in Nat
    BY <1>1
  <2> QED  BY <1>1, <1>2, <2>1
<1>7. ASSUME NEW i \in 0..m, NEW j \in 0..m, i <= j,
             \A k \in (i + 1)..j : y[k].type = "output"
      PROVE  R[j].epoch = R[i].epoch
  <2>1. i + n \in 0..(m + n) /\ j + n \in 0..(m + n) /\ i + n <= j + n
    BY <1>1, <1>7
  <2>2. ASSUME NEW k \in (i + n + 1)..(j + n) PROVE q[k].type = "output"
    <3>1. k - n \in (i + 1)..j /\ k - n \in 1..m /\ (k - n) + n = k
      BY <1>1
    <3>2. y[k - n] = q[k]
      BY <3>1 DEF m
    <3> QED  BY <1>7, <3>1, <3>2
  <2>3. Q[j + n].epoch = Q[i + n].epoch
    BY <1>2, <2>1, <2>2
  <2> QED  BY <1>1, <2>3
<1>8. QueueInv(t, y, x, R)
  BY <1>3, <1>4, <1>5, <1>6, <1>7 DEF QueueInv, m
<1> QED  BY <1>1, <1>8

\* The merged outputs at the head of the queue.
LEMMA MergedHops ==
    ASSUME NEW t \in Terminals, Forwards(t), NEW q \in Seq(Occurrences),
           NEW s \in Stops, s.pos \in Nat, NEW Q \in [Nat -> Hops], QueueInv(t, q, s, Q),
           q # <<>>, NEW n \in Mergeable(q)
    PROVE  /\ n \in 1..Len(q) /\ Head(q).number = s.pos
           /\ Q[n].pos = s.pos + n /\ Q[n].epoch = s.epoch
           /\ \A k \in (s.pos + 1)..(s.pos + n) : t.log[k] = s.epoch
           /\ s.pos + n <= Len(t.log)
           /\ Had(t, s.epoch, s.pos + n)
<1>1. n \in 1..Len(q) /\ Len(q) \in Nat /\ Head(q) = q[1] /\ 1 \in 1..Len(q) /\ n \in Nat /\ n - 1 \in Nat
  BY DEF Mergeable
<1>2. \A k \in 1..n : q[k] = Event("output", q[1].number + k - 1)
  BY DEF Mergeable
<1>3. ASSUME NEW k \in 1..n
      PROVE  q[k].type = "output" /\ q[k].number = q[1].number + k - 1
  <2>1. q[k] = Event("output", q[1].number + k - 1)
    BY <1>2
  <2>2. \A a, b : Event(a, b).type = a /\ Event(a, b).number = b
    BY DEF Event
  <2> QED  BY <2>1, <2>2
<1>4. \A k \in 1..n : Hop(t, Q[k - 1], q[k], Q[k])
  BY <1>1 DEF QueueInv
<1>5. \A k \in 1..n : /\ q[k].number = Q[k - 1].pos /\ Q[k - 1].pos < Len(t.log)
                      /\ t.log[Q[k - 1].pos + 1] = Q[k - 1].epoch
                      /\ Q[k].pos = Q[k - 1].pos + 1 /\ Q[k].epoch = Q[k - 1].epoch
  BY <1>3, <1>4 DEF Hop
<1>6. Q[0].pos = s.pos /\ Q[0].epoch = s.epoch
  BY DEF QueueInv
<1>7. q[1].number = s.pos
  <2>1. 1 \in 1..n /\ 1 - 1 = 0
    BY <1>1
  <2> QED  BY <1>5, <1>6, <2>1
<1>8. ASSUME NEW j \in 0..n PROVE Q[j].epoch = s.epoch
  <2>1. 0 \in 0..Len(q) /\ j \in 0..Len(q) /\ 0 <= j /\ \A k \in (0 + 1)..j : q[k].type = "output"
    BY <1>1, <1>3
  <2>2. Q[j].epoch = Q[0].epoch
    BY <2>1 DEF QueueInv
  <2> QED  BY <1>6, <2>2
<1>9. ASSUME NEW k \in 1..n PROVE Q[k - 1].pos = s.pos + k - 1
  BY <1>3, <1>5, <1>7
<1>10. Q[n].pos = s.pos + n /\ s.pos + n <= Len(t.log)
  <2>1. n \in 1..n
    BY <1>1
  <2>2. Q[n].pos = Q[n - 1].pos + 1 /\ Q[n - 1].pos = s.pos + n - 1 /\ Q[n - 1].pos < Len(t.log)
    BY <1>5, <1>9, <2>1
  <2> QED  BY <1>1, <2>2, TerminalType
<1>11. ASSUME NEW k \in (s.pos + 1)..(s.pos + n) PROVE t.log[k] = s.epoch
  <2>1. k - s.pos \in 1..n /\ (k - s.pos) - 1 \in 0..n /\ s.pos + (k - s.pos) - 1 = k - 1 /\ (k - 1) + 1 = k
    BY <1>1
  <2>2. Q[(k - s.pos) - 1].pos = k - 1 /\ Q[(k - s.pos) - 1].epoch = s.epoch
    BY <1>8, <1>9, <2>1
  <2>3. t.log[Q[(k - s.pos) - 1].pos + 1] = Q[(k - s.pos) - 1].epoch
    BY <1>5, <2>1
  <2> QED  BY <2>1, <2>2, <2>3
<1>12. Had(t, s.epoch, s.pos + n)
  <2>1. /\ s.pos + n \in (s.pos + 1)..(s.pos + n) /\ s.pos + n \in 1..Len(t.log)
        /\ Len(t.log) \in Nat
    BY <1>1, <1>10, TerminalType
  <2>2. t.log[s.pos + n] = s.epoch /\ t.log[s.pos + n] \in Nat
    BY <1>11, <2>1, TerminalType
  <2>3. s.epoch <= t.epoch
    BY <2>1, <2>2 DEF Forwards
  <2>4. ASSUME s.pos + n < Len(t.log) PROVE s.epoch <= t.log[s.pos + n + 1]
    <3>1. s.pos + n + 1 \in 1..Len(t.log) /\ s.pos + n <= s.pos + n + 1
      BY <1>1, <2>1, <2>4
    <3> QED  BY <2>1, <2>2, <3>1 DEF Forwards
  <2> QED  BY <2>2, <2>3, <2>4 DEF Had
<1>13. Head(q).number = s.pos
  BY <1>1, <1>7
<1>14. Q[n].epoch = s.epoch
  <2>1. n \in 0..n
    BY <1>1
  <2> QED  BY <1>8, <2>1
<1> QED  BY <1>1, <1>10, <1>11, <1>12, <1>13, <1>14

LEMMA OutputSent ==
    ASSUME NEW t \in Terminals, Forwards(t), NEW p \in Panes, NEW w \in Seq(Messages),
           NEW r \in Receivers, r.live, ~r.lagged, r.queue # <<>>,
           ClientInv(t, p, w, r), p.link = "up",
           NEW n \in Mergeable(r.queue), NEW x \in Receivers, x.live = r.live,
           x.lagged = r.lagged, x.sent = Head(r.queue).number + n,
           x.queue = SubSeq(r.queue, n + 1, Len(r.queue))
    PROVE  /\ x.sent > r.sent /\ Head(r.queue).number = r.sent
           /\ ClientInv(t, p, Append(w, OutputMessage(r.sent, x.sent)), x)
<1> DEFINE last == x.sent
<1>1. PICK u \in Stops : Way(t, At(p), w, u) /\ SentInv(t, r, u)
  BY DEF ClientInv, OpenInv
<1>2. u.pos = r.sent /\ u.mode = "none" /\ r.sent \in Nat /\ r.queue \in Seq(Occurrences)
  BY <1>1, ReceiverFacts DEF SentInv
<1>3. PICK Q \in [Nat -> Hops] : QueueInv(t, r.queue, u, Q)
  BY <1>1 DEF SentInv
<1>4. /\ n \in 1..Len(r.queue) /\ Head(r.queue).number = u.pos
      /\ Q[n].pos = u.pos + n /\ Q[n].epoch = u.epoch
      /\ \A k \in (u.pos + 1)..(u.pos + n) : t.log[k] = u.epoch
      /\ u.pos + n <= Len(t.log) /\ Had(t, u.epoch, u.pos + n)
  BY <1>2, <1>3, MergedHops
<1>5. last = u.pos + n /\ last > r.sent /\ last \in Nat
  BY <1>2, <1>4
<1> HIDE DEF last
<1> DEFINE z == Stop(last, u.epoch, u.mode, u.target)
           m == OutputMessage(r.sent, last)
<1>6. z \in Stops /\ z.pos = last /\ z.epoch = u.epoch /\ z.mode = "none"
  BY <1>2, <1>5, StopType, StopFields DEF Stops, Positions
<1>7. m \in Messages /\ m.type \notin Syncs
  BY <1>2, <1>5, MessageType, MessageFields DEF Syncs
<1>8. InGrid(t, r.sent, last, u.epoch)
  BY <1>2, <1>4, <1>5 DEF InGrid
<1>9. Leg(t, u, m, z)
  BY <1>2, <1>5, <1>8, MessageFields DEF Leg
<1>10. Placed(t, z) /\ Fits(t, z)
  <2>1. u.epoch # Unset
    <3>1. Placed(t, u) /\ u.pos # Unset
      BY <1>1, <1>2, WayEnd DEF Unset
    <3> QED  BY <3>1 DEF Placed
  <2> QED  BY <1>4, <1>5, <1>6, <2>1 DEF Placed, Fits
<1> HIDE DEF z, m
<1>11. SentInv(t, x, z)
  <2> DEFINE y == SubSeq(r.queue, n + 1, Len(r.queue))
  <2>1. /\ y \in Seq(Occurrences) /\ Len(y) = Len(r.queue) - n /\ n \in 0..Len(r.queue)
        /\ \A k \in 1..Len(y) : y[k] = r.queue[k + n]
    BY <1>2, <1>4
  <2> HIDE DEF y
  <2>2. z.pos = Q[n].pos /\ z.epoch = Q[n].epoch
    BY <1>4, <1>5, <1>6
  <2>3. \E R \in [Nat -> Hops] : QueueInv(t, y, z, R)
    BY <1>2, <1>3, <2>1, <2>2, QueueRest
  <2> QED  BY <1>6, <2>3 DEF SentInv, y, last
<1>12. OpenInv(t, p, Append(w, m), x)
  <2>1. SyncNext(w, 0) => OwnWrites(p) = {}
    BY DEF ClientInv, OpenInv
  <2> QED  BY <1>1, <1>6, <1>7, <1>9, <1>10, <1>11, <2>1, OpenAppend
<1> QED  BY <1>2, <1>4, <1>5, <1>12 DEF ClientInv, m, last

LEMMA ControlSent ==
    ASSUME NEW t \in Terminals, NEW p \in Panes, NEW w \in Seq(Messages),
           NEW r \in Receivers, r.live, ~r.lagged, r.queue # <<>>,
           ClientInv(t, p, w, r), p.link = "up",
           NEW e \in Occurrences, e = Head(r.queue), e.type \in {"size", "exit"},
           NEW x \in Receivers,
           IF e.type = "exit" THEN x = NoReceiver
           ELSE /\ x.live = r.live /\ x.lagged = r.lagged /\ x.sent = r.sent
                /\ x.queue = Tail(r.queue)
    PROVE  ClientInv(t, p, Append(w, Message(e.type, e.number)), x)
<1>1. PICK u \in Stops : Way(t, At(p), w, u) /\ SentInv(t, r, u)
  BY DEF ClientInv, OpenInv
<1>2. u.pos = r.sent /\ u.mode = "none" /\ r.sent \in Nat /\ r.queue \in Seq(Occurrences)
  BY <1>1, ReceiverFacts DEF SentInv
<1>3. PICK Q \in [Nat -> Hops] : QueueInv(t, r.queue, u, Q)
  BY <1>1 DEF SentInv
<1>4. /\ 1 \in 1..Len(r.queue) /\ r.queue[1] = e /\ 1 - 1 = 0 /\ 1 \in 0..Len(r.queue)
      /\ Tail(r.queue) \in Seq(Occurrences) /\ Len(Tail(r.queue)) = Len(r.queue) - 1
      /\ \A k \in 1..Len(Tail(r.queue)) : Tail(r.queue)[k] = r.queue[k + 1]
  BY <1>2
<1>5. Q[0].pos = u.pos /\ Q[0].epoch = u.epoch /\ Hop(t, Q[0], e, Q[1])
  BY <1>3, <1>4 DEF QueueInv
<1>6. Placed(t, u) /\ Fits(t, u) /\ u.pos # Unset
  BY <1>1, <1>2, WayEnd DEF Unset
<1>7. SyncNext(w, 0) => OwnWrites(p) = {}
  BY DEF ClientInv, OpenInv
<1> DEFINE m == Message(e.type, e.number)
<1>8. m \in Messages /\ m.type \notin Syncs /\ m.type = e.type /\ m.number = e.number /\ e.number \in Nat
  BY MessageType, MessageFields DEF Syncs, Occurrences
<1> HIDE DEF m
<1>9. CASE e.type = "size"
  <2> DEFINE z == Stop(u.pos, e.number, u.mode, u.target)
  <2>1. z \in Stops /\ z.pos = u.pos /\ z.epoch = e.number /\ z.mode = "none"
    <3>1. e.number \in Epochs
      BY <1>8 DEF Epochs
    <3> QED  BY <1>2, <3>1, StopType, StopFields DEF Stops
  <2>2. Leg(t, u, m, z)
    BY <1>8, <1>9 DEF Leg
  <2>3. Had(t, e.number, u.pos) /\ Q[1].pos = u.pos /\ Q[1].epoch = e.number
    BY <1>5, <1>9 DEF Hop
  <2>4. Placed(t, z) /\ Fits(t, z)
    BY <1>6, <1>8, <2>1, <2>3 DEF Placed, Fits, Unset
  <2> HIDE DEF z
  <2>5. \E R \in [Nat -> Hops] : QueueInv(t, Tail(r.queue), z, R)
    <3>1. z.pos = Q[1].pos /\ z.epoch = Q[1].epoch
      BY <2>1, <2>3
    <3> DEFINE y == Tail(r.queue)
    <3>2. /\ y \in Seq(Occurrences) /\ Len(y) = Len(r.queue) - 1
          /\ \A k \in 1..Len(y) : y[k] = r.queue[k + 1]
      BY <1>4
    <3> HIDE DEF y
    <3>3. \E R \in [Nat -> Hops] : QueueInv(t, y, z, R)
      <4>1. /\ r.queue \in Seq(Occurrences) /\ Q \in [Nat -> Hops]
            /\ QueueInv(t, r.queue, u, Q) /\ 1 \in 0..Len(r.queue)
        BY <1>2, <1>3, <1>4
      <4> QED  BY <3>1, <3>2, <4>1, QueueRest
    <3> QED  BY <3>3 DEF y
  <2>6. SentInv(t, x, z)
    BY <1>2, <1>9, <2>1, <2>5 DEF SentInv
  <2>7. OpenInv(t, p, Append(w, m), x)
    BY <1>1, <1>7, <1>8, <2>1, <2>2, <2>4, <2>6, OpenAppend
  <2> QED  BY <2>7 DEF ClientInv, m
<1>10. CASE e.type = "exit"
  <2>1. Leg(t, u, m, u)
    BY <1>2, <1>5, <1>6, <1>8, <1>10 DEF Leg, Hop
  <2>2. ~x.live
    BY <1>10 DEF NoReceiver
  <2>3. OpenInv(t, p, Append(w, m), x)
    BY <1>1, <1>6, <1>7, <1>8, <2>1, <2>2, OpenAppend
  <2> QED  BY <2>3 DEF ClientInv, m
<1> QED  BY <1>9, <1>10

-----------------------------------------------------------------------------
(* The steps of one connection and its pane.                               *)

LEMMA SameNow ==
    ASSUME UNCHANGED <<log, exitedAt>>, output'.epoch = output.epoch
    PROVE  Now' = Now
  BY DEF Now

LEMMA ClientStep ==
    ASSUME Inv, TypeOK', UNCHANGED <<log, exitedAt>>, output'.epoch = output.epoch,
           output'.safe = output.safe, CheckpointInv', NEW c \in Clients,
           \A d \in Clients : d # c => /\ pane'[d] = pane[d] /\ wire'[d] = wire[d]
                                       /\ receiver'[d] = receiver[d] /\ upload'[d] = upload[d],
           ClientInv(Now, pane'[c], wire'[c], receiver'[c]),
           upload'[c] # NoUpload =>
             upload'[c].sequence # Unset /\ Sound(Now, upload'[c].view, upload'[c].sequence)
    PROVE  Inv'
<1>1. Now' = Now
  BY SameNow
<1>2. Forwards(Now)' /\ SafeInv'
  BY <1>1 DEF Inv, SafeInv
<1>3. UploadInv'
  BY <1>1 DEF Inv, UploadInv
<1>4. ASSUME NEW d \in Clients PROVE ClientInv(Now, pane[d], wire[d], receiver[d])'
  <2>1. ClientInv(Now, pane'[d], wire'[d], receiver'[d])
    BY DEF Inv
  <2> QED  BY <1>1, <2>1
<1> QED  BY <1>2, <1>3, <1>4 DEF Inv

\* ... of the usual kind, that touches neither the session nor an upload.
LEMMA ConnectionStep ==
    ASSUME Inv, TypeOK', UNCHANGED <<log, output, exitedAt, announced, upload>>, NEW c \in Clients,
           \A d \in Clients : d # c => /\ pane'[d] = pane[d] /\ wire'[d] = wire[d]
                                       /\ receiver'[d] = receiver[d],
           ClientInv(Now, pane'[c], wire'[c], receiver'[c])
    PROVE  Inv'
<1>1. CheckpointInv'
  <2>1. Now' = Now
    BY SameNow
  <2> QED  BY <2>1 DEF Inv, CheckpointInv
<1>2. upload'[c] # NoUpload =>
        upload'[c].sequence # Unset /\ Sound(Now, upload'[c].view, upload'[c].sequence)
  BY DEF Inv, UploadInv
<1> QED  BY <1>1, <1>2, ClientStep

LEMMA InvStoreCheckpoint ==
    ASSUME Inv, TypeOK', NEW c \in Clients, StoreCheckpoint(c)
    PROVE  Inv'
<1>1. /\ UNCHANGED <<log, exitedAt, announced, receiver, wire, pane>>
      /\ upload[c] # NoUpload /\ upload' = [upload EXCEPT ![c] = NoUpload]
      /\ output' = IF Storable(upload[c]) THEN [output EXCEPT !.checkpoint = upload[c]]
                                          ELSE output
  BY DEF StoreCheckpoint
<1>2. output \in States /\ upload \in [Clients -> Uploads]
  BY DEF Inv, TypeOK
<1>3. output'.epoch = output.epoch /\ output'.safe = output.safe
  BY <1>1, <1>2 DEF States
<1>4. Now' = Now
  BY <1>1, <1>3, SameNow
<1>5. CheckpointInv'
  <2>1. CASE Storable(upload[c])
    <3>1. output'.checkpoint = upload[c]
      BY <1>1, <1>2, <2>1 DEF States
    <3>2. upload[c].sequence # Unset /\ Sound(Now, upload[c].view, upload[c].sequence)
      BY <1>1 DEF Inv, UploadInv
    <3>3. /\ upload[c].epoch = output.epoch
          /\ \A n \in (upload[c].sequence + 1)..Len(log) : log[n] = output.epoch
      BY <2>1 DEF Storable, Inv, SafeInv
    <3> QED  BY <1>1, <1>3, <1>4, <3>1, <3>2, <3>3 DEF CheckpointInv
  <2>2. CASE ~Storable(upload[c])
    BY <1>1, <1>4, <2>2 DEF Inv, CheckpointInv
  <2> QED  BY <2>1, <2>2
<1>6. /\ upload'[c] = NoUpload
      /\ \A d \in Clients : d # c => upload'[d] = upload[d]
  BY <1>1, <1>2
<1>7. ClientInv(Now, pane'[c], wire'[c], receiver'[c])
  BY <1>1 DEF Inv
<1> QED  BY <1>1, <1>3, <1>5, <1>6, <1>7, ClientStep

\* A receiver that is live serves a connection that is up.
LEMMA Served ==
    ASSUME NEW t, NEW p \in Panes, NEW w, NEW r, ClientInv(t, p, w, r), r.live
    PROVE  p.link = "up" \/ p.link = "exited"
  BY DEF Panes, ClientInv, ClosedInv

LEMMA InvResynchronize ==
    ASSUME Inv, TypeOK', NEW c \in Clients, Resynchronize(c)
    PROVE  Inv'
<1> DEFINE p == pane[c]
           w == wire[c]
           r == receiver[c]
           s == SyncMessages(CanResume(Unset, Unset), Unset)
<1>1. /\ r.live /\ UNCHANGED <<log, output, exitedAt, announced, pane, upload>>
      /\ wire' = [wire EXCEPT ![c] = w \o s]
      /\ receiver' = [receiver EXCEPT ![c] = FreshReceiver]
  BY DEF Resynchronize, Forwardable, Synchronize
<1>2. /\ p \in Panes /\ w \in Seq(Messages) /\ r \in Receivers
      /\ wire'[c] = w \o s /\ receiver'[c] = FreshReceiver /\ pane'[c] = p
      /\ \A d \in Clients : d # c => /\ pane'[d] = pane[d] /\ wire'[d] = wire[d]
                                     /\ receiver'[d] = receiver[d]
  BY <1>1 DEF Inv, TypeOK
<1>3. ClientInv(Now, p, w, r)
  BY DEF Inv
<1>4. PaneInv(Now, p) /\ (p.link = "exited" => ExitedInv(Now, p)) /\ p.link \in {"up", "exited"}
  BY <1>1, <1>2, <1>3, Served DEF ClientInv
<1>5. ASSUME p.link = "up" PROVE OpenInv(Now, p, w \o s, FreshReceiver)
  <2>1. PICK u \in Stops : Way(Now, At(p), w, u)
    BY <1>3, <1>5 DEF ClientInv, OpenInv
  <2>2. Placed(Now, u) /\ Fits(Now, u)
    BY <1>2, <2>1, WayEnd
  <2>3. CanResume(Unset, Unset) = FALSE
    BY DEF CanResume
  <2>4. Way(Now, u, s, Caught) /\ ~SyncNext(s, 0) /\ s \in Seq(Messages)
    BY <2>2, <2>3, SyncWay
  <2> HIDE DEF s
  <2>5. Way(Now, At(p), w \o s, Caught)
    BY <1>2, <2>1, <2>4, WayConcat
  <2>6. SyncNext(w \o s, 0) => SyncNext(w, 0)
    <3>1. /\ Len(w) \in Nat /\ Len(s) \in Nat /\ Len(w \o s) = Len(w) + Len(s) /\ 0 + 1 = 1
          /\ 0 < Len(w) => (w \o s)[1] = w[1]
          /\ ~(0 < Len(w)) => w \o s = s
      BY <1>2, <2>4
    <3> QED  BY <2>4, <3>1 DEF SyncNext
  <2>7. Caught \in Stops
    BY StopType DEF Caught, Inv, TypeOK, States, Positions, Epochs
  <2> QED  BY <1>3, <1>5, <2>5, <2>6, <2>7, FreshSent DEF ClientInv, OpenInv
<1> HIDE DEF s
<1>6. ClientInv(Now, pane'[c], wire'[c], receiver'[c])
  BY <1>2, <1>4, <1>5 DEF ClientInv
<1> QED  BY <1>1, <1>2, <1>6, ConnectionStep

LEMMA InvConnect ==
    ASSUME Inv, TypeOK', NEW c \in Clients, Connect(c)
    PROVE  Inv'
<1> DEFINE p == pane[c]
           q == [p EXCEPT !.link = "up"]
           resumable == CanResume(p.committed, p.epoch)
           v == SyncMessages(resumable, p.committed)
<1>1. /\ p.link = "down" /\ UNCHANGED <<log, output, exitedAt, announced, upload>>
      /\ wire' = [wire EXCEPT ![c] = wire[c] \o v]
      /\ receiver' = [receiver EXCEPT ![c] = FreshReceiver]
      /\ pane' = [pane EXCEPT ![c].link = "up"]
  BY DEF Connect, Synchronize
<1>2. /\ p \in Panes /\ wire[c] \in Seq(Messages)
      /\ wire'[c] = wire[c] \o v /\ receiver'[c] = FreshReceiver /\ pane'[c] = q
      /\ \A d \in Clients : d # c => /\ pane'[d] = pane[d] /\ wire'[d] = wire[d]
                                     /\ receiver'[d] = receiver[d]
  BY <1>1 DEF Inv, TypeOK
<1>3. q \in Panes
  <2>1. pane'[c] \in Panes
    BY DEF TypeOK
  <2> QED  BY <1>2, <2>1
<1>4. /\ q.committed = p.committed /\ q.received = p.received /\ q.mode = p.mode
      /\ q.target = p.target /\ q.view = p.view /\ q.writes = p.writes
      /\ q.accepting = p.accepting /\ q.link = "up" /\ q.epoch = p.epoch
  BY <1>2 DEF Panes
<1>5. ClientInv(Now, p, wire[c], receiver[c])
  BY DEF Inv
<1>6. /\ PaneInv(Now, p) /\ wire[c] = <<>> /\ OwnWrites(p) = {}
      /\ Placed(Now, At(p)) /\ Fits(Now, At(p))
  BY <1>1, <1>5 DEF ClientInv, ClosedInv
<1>7. At(q) = At(p) /\ OwnWrites(q) = OwnWrites(p)
  BY <1>4 DEF At, OwnWrites
<1>8. PaneInv(Now, q)
  <2>1. ~p.accepting
    BY <1>1, <1>6 DEF PaneInv
  <2> QED  BY <1>2, <1>3, <1>4, <1>6, <1>7, <2>1, PaneSame
<1>9. /\ At(p) \in Stops /\ At(p).pos = p.received /\ At(p).epoch = p.epoch /\ At(p).mode = p.mode
  BY <1>2, StopType, StopFields DEF Panes, At
<1>10. resumable => /\ At(p).pos = p.committed /\ At(p).pos \in Nat
                    /\ At(p).epoch = output.epoch /\ At(p).mode \in {"none", "resume"}
  <2> SUFFICES ASSUME resumable PROVE /\ p.received = p.committed /\ p.received \in Nat
                                      /\ p.epoch = output.epoch /\ p.mode \in {"none", "resume"}
    BY <1>9
  <2>1. p.committed # Unset /\ p.epoch = output.epoch
    BY DEF CanResume
  <2>2. Following(Now, p) /\ p.committed = p.received
    BY <1>2, <1>6, <2>1, Settled
  <2> QED  BY <1>2, <2>1, <2>2 DEF Panes, Positions, Following
<1> HIDE DEF q
<1>11. Way(Now, At(p), v, Caught) /\ ~SyncNext(v, 0) /\ v \in Seq(Messages)
  <2>1. resumable \in BOOLEAN
    BY DEF CanResume
  <2> HIDE DEF resumable
  <2>2. \A a \in BOOLEAN : \A b :
           (a => /\ At(p).pos = b /\ At(p).pos \in Nat
                 /\ At(p).epoch = output.epoch /\ At(p).mode \in {"none", "resume"})
           => /\ Way(Now, At(p), SyncMessages(a, b), Caught)
              /\ ~SyncNext(SyncMessages(a, b), 0)
              /\ SyncMessages(a, b) \in Seq(Messages)
    BY <1>6, <1>9, SyncWay
  <2> QED  BY <1>10, <2>1, <2>2
<1> HIDE DEF v
<1>12. wire'[c] = v
  BY <1>2, <1>6, <1>11
<1>13. OpenInv(Now, q, v, FreshReceiver)
  <2>1. Caught \in Stops
    BY StopType DEF Caught, Inv, TypeOK, States, Positions, Epochs
  <2> QED  BY <1>7, <1>11, <2>1, FreshSent DEF OpenInv
<1>14. ClientInv(Now, pane'[c], wire'[c], receiver'[c])
  BY <1>2, <1>4, <1>8, <1>12, <1>13 DEF ClientInv
<1> QED  BY <1>1, <1>2, <1>14, ConnectionStep

LEMMA InvForwardOutput ==
    ASSUME Inv, TypeOK', NEW c \in Clients, ForwardOutput(c)
    PROVE  Inv'
<1> DEFINE p == pane[c]
           w == wire[c]
           r == receiver[c]
<1>1. PICK n \in Mergeable(r.queue) :
        LET last == Head(r.queue).number + n
        IN  /\ receiver' = [receiver EXCEPT ![c].queue = SubSeq(r.queue, n + 1, Len(r.queue)),
                                            ![c].sent = IF last > r.sent THEN last ELSE r.sent]
            /\ wire' = IF last <= r.sent THEN wire
                       ELSE [wire EXCEPT ![c] = Append(w, OutputMessage(r.sent, last))]
  BY DEF ForwardOutput
<1> DEFINE last == Head(r.queue).number + n
<1>2. /\ r.live /\ ~r.lagged /\ r.queue # <<>> /\ Head(r.queue).number <= r.sent
      /\ UNCHANGED <<log, output, exitedAt, announced, pane, upload>>
  BY DEF ForwardOutput, Forwardable
<1>3. /\ p \in Panes /\ w \in Seq(Messages) /\ r \in Receivers /\ receiver'[c] \in Receivers
      /\ receiver \in [Clients -> Receivers] /\ wire \in [Clients -> Seq(Messages)]
  BY DEF Inv, TypeOK
<1>4. ClientInv(Now, p, w, r) /\ Now \in Terminals /\ Forwards(Now)
  BY NowType DEF Inv
<1>5. /\ \A d \in Clients : d # c => /\ pane'[d] = pane[d] /\ wire'[d] = wire[d]
                                     /\ receiver'[d] = receiver[d]
      /\ pane'[c] = p
  BY <1>1, <1>2, <1>3
<1>6. /\ receiver'[c].live = r.live /\ receiver'[c].lagged = r.lagged
      /\ receiver'[c].queue = SubSeq(r.queue, n + 1, Len(r.queue))
      /\ receiver'[c].sent = IF last > r.sent THEN last ELSE r.sent
  BY <1>1, <1>3 DEF Receivers
<1>7. PaneInv(Now, p) /\ p.link \in {"up", "exited"} /\ (p.link = "exited" => ExitedInv(Now, p))
  BY <1>2, <1>3, <1>4, Served DEF ClientInv
<1> HIDE DEF p, w, r
<1>8. CASE p.link = "exited"
  <2>1. ClientInv(Now, pane'[c], wire'[c], receiver'[c])
    BY <1>5, <1>7, <1>8 DEF ClientInv
  <2> QED  BY <1>2, <1>5, <2>1, ConnectionStep
<1>9. CASE p.link = "up"
  <2>1. ASSUME NEW x \in Receivers, x.live = r.live, x.lagged = r.lagged, x.sent = last,
               x.queue = SubSeq(r.queue, n + 1, Len(r.queue))
        PROVE  last > r.sent /\ ClientInv(Now, p, Append(w, OutputMessage(r.sent, last)), x)
    <3>1. x.sent = Head(r.queue).number + n
      BY <2>1
    <3>2. x.sent > r.sent /\ ClientInv(Now, p, Append(w, OutputMessage(r.sent, x.sent)), x)
      BY <1>2, <1>3, <1>4, <1>9, <2>1, <3>1, OutputSent
    <3> QED  BY <2>1, <3>2
  <2>2. /\ r.queue \in Seq(Occurrences) /\ r.sent \in Nat /\ n \in 1..Len(r.queue)
        /\ SubSeq(r.queue, n + 1, Len(r.queue)) \in Seq(Occurrences)
        /\ r.live \in BOOLEAN /\ r.lagged \in BOOLEAN
    BY <1>3 DEF Receivers, Mergeable, r
  <2>3. last \in Nat
    <3>1. Head(r.queue) \in Occurrences
      BY <1>2, <2>2 DEF r
    <3> QED  BY <2>2, <3>1 DEF Occurrences
  <2> DEFINE x == [live |-> r.live, queue |-> SubSeq(r.queue, n + 1, Len(r.queue)),
                   lagged |-> r.lagged, sent |-> last]
  <2>4. x \in Receivers
    BY <2>2, <2>3 DEF Receivers
  <2>5. last > r.sent
    BY <2>1, <2>4
  <2>6. receiver'[c].sent = last
    BY <1>6, <2>5 DEF r
  <2>7. ClientInv(Now, p, Append(w, OutputMessage(r.sent, last)), receiver'[c])
    BY <1>3, <1>6, <2>1, <2>6 DEF r
  <2>8. wire'[c] = Append(w, OutputMessage(r.sent, last))
    <3>1. ~(last <= r.sent)
      BY <2>2, <2>3, <2>5
    <3> QED  BY <1>1, <1>3, <3>1 DEF r, w
  <2>9. ClientInv(Now, pane'[c], wire'[c], receiver'[c])
    BY <1>5, <2>7, <2>8
  <2> QED  BY <1>2, <1>5, <2>9, ConnectionStep
<1> QED  BY <1>7, <1>8, <1>9

LEMMA InvForwardControl ==
    ASSUME Inv, TypeOK', NEW c \in Clients, ForwardControl(c)
    PROVE  Inv'
<1> DEFINE p == pane[c]
           w == wire[c]
           r == receiver[c]
           e == Head(r.queue)
<1>1. /\ r.live /\ ~r.lagged /\ r.queue # <<>> /\ e.type \in {"size", "exit"}
      /\ wire' = [wire EXCEPT ![c] = Append(w, Message(e.type, e.number))]
      /\ receiver' = [receiver EXCEPT ![c] =
                        IF e.type = "exit" THEN NoReceiver ELSE [r EXCEPT !.queue = Tail(r.queue)]]
      /\ UNCHANGED <<log, output, exitedAt, announced, pane, upload>>
  BY DEF ForwardControl, Forwardable
<1>2. /\ p \in Panes /\ w \in Seq(Messages) /\ r \in Receivers /\ receiver'[c] \in Receivers
      /\ wire'[c] = Append(w, Message(e.type, e.number)) /\ pane'[c] = p
      /\ receiver'[c] = IF e.type = "exit" THEN NoReceiver ELSE [r EXCEPT !.queue = Tail(r.queue)]
      /\ \A d \in Clients : d # c => /\ pane'[d] = pane[d] /\ wire'[d] = wire[d]
                                     /\ receiver'[d] = receiver[d]
  BY <1>1 DEF Inv, TypeOK
<1>3. ClientInv(Now, p, w, r) /\ Now \in Terminals
  BY NowType DEF Inv
<1>4. PaneInv(Now, p) /\ p.link \in {"up", "exited"} /\ (p.link = "exited" => ExitedInv(Now, p))
  BY <1>1, <1>2, <1>3, Served DEF ClientInv
<1>5. e \in Occurrences
  <2>1. r.queue \in Seq(Occurrences)
    BY <1>2 DEF Receivers
  <2> QED  BY <1>1, <2>1
<1>6. IF e.type = "exit" THEN receiver'[c] = NoReceiver
      ELSE /\ receiver'[c].live = r.live /\ receiver'[c].lagged = r.lagged
           /\ receiver'[c].sent = r.sent /\ receiver'[c].queue = Tail(r.queue)
  BY <1>2 DEF Receivers
<1>7. ClientInv(Now, pane'[c], wire'[c], receiver'[c])
  <2>1. CASE p.link = "exited"
    BY <1>2, <1>4, <2>1 DEF ClientInv
  <2>2. CASE p.link = "up"
    <3> DEFINE x == receiver'[c]
    <3>1. x \in Receivers
      BY <1>2
    <3>2. IF e.type = "exit" THEN x = NoReceiver
          ELSE /\ x.live = r.live /\ x.lagged = r.lagged
               /\ x.sent = r.sent /\ x.queue = Tail(r.queue)
      BY <1>6
    <3>3. e = Head(r.queue)
      OBVIOUS
    <3> HIDE DEF x, e, p, w
    <3>4. ClientInv(Now, p, Append(w, Message(e.type, e.number)), x)
      BY <1>1, <1>2, <1>3, <1>5, <2>2, <3>1, <3>2, <3>3, ControlSent DEF p, w
    <3> QED  BY <1>2, <3>4 DEF x, e, p, w
  <2> QED  BY <1>4, <2>1, <2>2
<1> QED  BY <1>1, <1>2, <1>7, ConnectionStep

\* What a consumed message leaves behind.
LEMMA Consumed ==
    ASSUME Inv, TypeOK', NEW c \in Clients, Consume(c), wire[c] # <<>>,
           NEW q, pane' = [pane EXCEPT ![c] = q],
           q \in Panes => ClientInv(Now, q, Tail(wire[c]), receiver[c])
    PROVE  Inv'
<1>1. /\ UNCHANGED <<log, output, exitedAt, announced, upload>> /\ wire'[c] = Tail(wire[c])
      /\ pane'[c] = q /\ receiver'[c] = receiver[c]
      /\ \A d \in Clients : d # c => /\ pane'[d] = pane[d] /\ wire'[d] = wire[d]
                                     /\ receiver'[d] = receiver[d]
  BY DEF Consume, Inv, TypeOK
<1>2. pane'[c] \in Panes
  BY DEF TypeOK
<1> QED  BY <1>1, <1>2, ConnectionStep

\* What a hangup leaves behind.
LEMMA HungUp ==
    ASSUME Inv, TypeOK', NEW c \in Clients, HangUp(c),
           NEW q, pane' = [pane EXCEPT ![c] = q],
           q \in Panes => ClientInv(Now, q, <<>>, NoReceiver)
    PROVE  Inv'
<1>1. /\ UNCHANGED <<log, output, exitedAt, announced, upload>> /\ wire'[c] = <<>>
      /\ pane'[c] = q /\ receiver'[c] = NoReceiver
      /\ \A d \in Clients : d # c => /\ pane'[d] = pane[d] /\ wire'[d] = wire[d]
                                     /\ receiver'[d] = receiver[d]
  BY DEF HangUp, Inv, TypeOK
<1>2. pane'[c] \in Panes
  BY DEF TypeOK
<1> QED  BY <1>1, <1>2, ConnectionStep

\* The client of a step, and what arrives.
LEMMA Client ==
    ASSUME Inv, NEW c \in Clients
    PROVE  /\ Now \in Terminals /\ pane[c] \in Panes /\ wire[c] \in Seq(Messages)
           /\ receiver[c] \in Receivers /\ ClientInv(Now, pane[c], wire[c], receiver[c])
  BY NowType DEF Inv, TypeOK

LEMMA InvReceiveSize ==
    ASSUME Inv, TypeOK', NEW c \in Clients, ReceiveSize(c)
    PROVE  Inv'
<1>1. /\ pane[c].link = "up" /\ wire[c] # <<>> /\ Head(wire[c]).type = "size"
      /\ OwnWrites(pane[c]) = {} /\ Consume(c)
      /\ pane' = [pane EXCEPT ![c] = [pane[c] EXCEPT !.epoch = Head(wire[c]).number]]
  BY DEF ReceiveSize, Arrives
<1> DEFINE q == [pane[c] EXCEPT !.epoch = Head(wire[c]).number]
<1>2. q \in Panes => ClientInv(Now, q, Tail(wire[c]), receiver[c])
  BY <1>1, Client, SizeClient
<1> HIDE DEF q
<1> QED  BY <1>1, <1>2, Consumed DEF q

LEMMA InvReceiveSync ==
    ASSUME Inv, TypeOK', NEW c \in Clients, ReceiveSync(c)
    PROVE  Inv'
<1> DEFINE q == Begun(pane[c], Head(wire[c]))
<1>1. /\ pane[c].link = "up" /\ wire[c] # <<>> /\ OwnWrites(pane[c]) = {} /\ Consume(c)
      /\ Head(wire[c]).type = "resume" \/ Head(wire[c]).type = "restore"
      /\ pane' = [pane EXCEPT ![c] = q]
  BY DEF ReceiveSync, Arrives
<1> HIDE DEF q
<1>2. q \in Panes => ClientInv(Now, q, Tail(wire[c]), receiver[c])
  <2>1. CASE Head(wire[c]).type = "resume"
    BY <1>1, <2>1, Client, ResumeClient DEF q
  <2>2. CASE Head(wire[c]).type = "restore"
    BY <1>1, <2>2, Client, RestoreClient DEF q
  <2> QED  BY <1>1, <2>1, <2>2
<1> QED  BY <1>1, <1>2, Consumed

LEMMA InvReceiveFrame ==
    ASSUME Inv, TypeOK', NEW c \in Clients, ReceiveFrame(c)
    PROVE  Inv'
<1> DEFINE p == pane[c]
           frame == Head(wire[c])
           q == Accepted(p, frame)
<1>1. /\ p.link = "up" /\ wire[c] # <<>>
      /\ frame.type = "snapshot" \/ frame.type = "output"
      /\ pane' = [pane EXCEPT ![c] = IF Accepts(p, frame) THEN q ELSE Failed(p)]
      /\ Accepts(p, frame) => Consume(c)
  BY DEF ReceiveFrame, Arrives
<1>2. frame \in Messages /\ p \in Panes
  <2>1. wire[c] \in Seq(Messages) /\ p \in Panes
    BY Client
  <2> QED  BY <1>1, <2>1
<1>3. q \in Panes
  BY <1>1, <1>2, AcceptedType
<1>4. Accepts(p, frame) /\ ClientInv(Now, q, Tail(wire[c]), receiver[c])
  <2>1. CASE frame.type = "snapshot"
    <3>1. /\ p.mode = "restore" /\ frame.number = p.target
          /\ ClientInv(Now, q, Tail(wire[c]), receiver[c])
      BY <1>1, <1>3, <2>1, Client, SnapshotClient
    <3> QED  BY <2>1, <3>1 DEF Accepts
  <2>2. CASE frame.type = "output"
    <3>1. /\ p.received # Unset /\ frame.number = p.received
          /\ ClientInv(Now, q, Tail(wire[c]), receiver[c])
      BY <1>1, <1>3, <2>2, Client, OutputClient
    <3> QED  BY <2>2, <3>1 DEF Accepts
  <2> QED  BY <1>1, <2>1, <2>2
<1> HIDE DEF q
<1> QED  BY <1>1, <1>4, Consumed

LEMMA InvReceiveSynced ==
    ASSUME Inv, TypeOK', NEW c \in Clients, ReceiveSynced(c)
    PROVE  Inv'
<1> DEFINE p == pane[c]
           n == Head(wire[c]).number
           q == Synced(p)
<1>1. /\ p.link = "up" /\ wire[c] # <<>> /\ Head(wire[c]).type = "synced"
      /\ OwnWrites(p) = {}
      /\ pane' = [pane EXCEPT ![c] = IF Finished(p, n) THEN q ELSE Failed(p)]
      /\ Finished(p, n) => Consume(c)
  BY DEF ReceiveSynced, Arrives
<1>2. q \in Panes
  BY Client, SyncedType
<1>3. Finished(p, n) /\ ClientInv(Now, q, Tail(wire[c]), receiver[c])
  BY <1>1, <1>2, Client, SyncedClient
<1> HIDE DEF q
<1> QED  BY <1>1, <1>3, Consumed

LEMMA InvReceiveExit ==
    ASSUME Inv, TypeOK', NEW c \in Clients, ReceiveExit(c)
    PROVE  Inv'
<1> DEFINE p == pane[c]
           q == [p EXCEPT !.link = "exited", !.accepting = FALSE]
<1>1. /\ p.link = "up" /\ wire[c] # <<>> /\ Head(wire[c]).type = "exit"
      /\ OwnWrites(p) = {} /\ Consume(c)
      /\ pane' = [pane EXCEPT ![c].link = "exited", ![c].accepting = FALSE]
  BY DEF ReceiveExit, Arrives
<1>2. pane' = [pane EXCEPT ![c] = q]
  BY <1>1 DEF Inv, TypeOK
<1>3. q \in Panes => ClientInv(Now, q, Tail(wire[c]), receiver[c])
  BY <1>1, Client, ExitClient
<1> HIDE DEF q
<1> QED  BY <1>1, <1>2, <1>3, Consumed

\* What a pane is once xterm parsed its next write.
LEMMA ParsePane ==
    ASSUME Inv, NEW c \in Clients, pane[c].writes # <<>>
    PROVE  LET p == pane[c]
               x == Head(p.writes)
               commits == x.own /\ x.kind = "output"
               shown == [p EXCEPT !.writes = Tail(p.writes), !.view = Parsed(p, x)]
               q == IF commits THEN [shown EXCEPT !.committed = x.upto] ELSE shown
           IN  /\ commits => Committable(p, x.upto)
               /\ ClientInv(Now, q, wire[c], receiver[c])
<1> DEFINE p == pane[c]
           x == Head(p.writes)
           commits == x.own /\ x.kind = "output"
           shown == [p EXCEPT !.writes = Tail(p.writes), !.view = Parsed(p, x)]
           q == IF commits THEN [shown EXCEPT !.committed = x.upto] ELSE shown
<1>1. /\ ClientInv(Now, p, wire[c], receiver[c]) /\ Now \in Terminals
      /\ wire[c] \in Seq(Messages) /\ p \in Panes
  BY Client
<1>2. q \in Panes
  BY <1>1, ParsedType
<1>3. /\ q.committed = IF x.own /\ x.kind = "output" THEN x.upto ELSE p.committed
      /\ q.received = p.received /\ q.mode = p.mode /\ q.target = p.target
      /\ q.view = Parsed(p, x) /\ q.writes = Tail(p.writes)
      /\ q.accepting = p.accepting /\ q.link = p.link /\ q.epoch = p.epoch
      /\ x = Head(p.writes) /\ p.writes # <<>>
  BY <1>1 DEF Panes
<1>4. /\ commits => Committable(p, x.upto)
      /\ ClientInv(Now, q, wire[c], receiver[c])
  <2> HIDE DEF q, shown, x, p
  <2> QED  BY <1>1, <1>2, <1>3, ParseClient
<1> QED  BY <1>4

LEMMA InvParse ==
    ASSUME Inv, TypeOK', NEW c \in Clients, Parse(c)
    PROVE  Inv'
<1> DEFINE p == pane[c]
           x == Head(p.writes)
           commits == x.own /\ x.kind = "output"
           shown == [p EXCEPT !.writes = Tail(p.writes), !.view = Parsed(p, x)]
           q == IF commits THEN [shown EXCEPT !.committed = x.upto] ELSE shown
<1>1. /\ p.writes # <<>>
      /\ pane' = [pane EXCEPT ![c] = IF ~commits THEN shown
             ELSE IF Committable(p, x.upto) THEN [shown EXCEPT !.committed = x.upto]
             ELSE Failed(shown)]
      /\ ~(commits /\ ~Committable(p, x.upto)) =>
            UNCHANGED <<log, output, exitedAt, announced, receiver, wire, upload>>
  BY DEF Parse
<1>2. /\ commits => Committable(p, x.upto)
      /\ ClientInv(Now, q, wire[c], receiver[c])
  BY <1>1, ParsePane
<1>3. pane' = [pane EXCEPT ![c] = q]
  BY <1>1, <1>2
<1>4. UNCHANGED <<log, output, exitedAt, announced, receiver, wire, upload>>
  BY <1>1, <1>2
<1>5. pane'[c] = q /\ \A d \in Clients : d # c => pane'[d] = pane[d]
  BY <1>3 DEF Inv, TypeOK
<1> HIDE DEF q
<1>6. ClientInv(Now, pane'[c], wire'[c], receiver'[c])
  BY <1>2, <1>4, <1>5
<1> QED  BY <1>4, <1>5, <1>6, ConnectionStep

LEMMA InvWriteCheckpoint ==
    ASSUME Inv, TypeOK', NEW c \in Clients, WriteCheckpoint(c)
    PROVE  Inv'
<1> DEFINE p == pane[c]
           q == [p EXCEPT !.uploaded = <<p.committed, p.epoch>>]
           u == [sequence |-> p.committed, epoch |-> p.epoch, view |-> p.view]
<1>1. /\ p.link = "up" /\ OwnWrites(p) = {} /\ p.committed # Unset
      /\ upload' = [upload EXCEPT ![c] = u] /\ pane' = [pane EXCEPT ![c] = q]
      /\ UNCHANGED <<log, output, exitedAt, announced, receiver, wire>>
  <2>1. pane \in [Clients -> Panes]
    BY DEF Inv, TypeOK
  <2> QED  BY <2>1 DEF WriteCheckpoint
<1>2. p \in Panes /\ Now \in Terminals /\ ClientInv(Now, p, wire[c], receiver[c])
  BY Client
<1>3. /\ q.committed = p.committed /\ q.received = p.received /\ q.mode = p.mode
      /\ q.target = p.target /\ q.view = p.view /\ q.writes = p.writes
      /\ q.accepting = p.accepting /\ q.link = p.link /\ q.epoch = p.epoch
  BY <1>2 DEF Panes
<1> HIDE DEF q
<1>4. /\ pane'[c] = q /\ q \in Panes /\ upload'[c] = u
      /\ \A d \in Clients : d # c => /\ pane'[d] = pane[d] /\ wire'[d] = wire[d]
                                     /\ receiver'[d] = receiver[d] /\ upload'[d] = upload[d]
  <2>1. pane'[c] \in Panes
    BY DEF TypeOK
  <2> QED  BY <1>1, <2>1 DEF Inv, TypeOK
<1>5. Sound(Now, p.view, p.committed)
  <2>1. PaneInv(Now, p)
    BY <1>2 DEF ClientInv
  <2>2. Following(Now, p)
    BY <1>1, <1>2, <2>1, Settled
  <2> QED  BY <2>2 DEF Following
<1>6. ClientInv(Now, q, wire[c], receiver[c])
  <2>1. At(q) = At(p) /\ OwnWrites(q) = OwnWrites(p)
    BY <1>3 DEF At, OwnWrites
  <2>2. PaneInv(Now, q)
    BY <1>2, <1>3, <1>4, <2>1, PaneSame DEF ClientInv
  <2>3. OpenInv(Now, q, wire[c], receiver[c])
    BY <1>1, <1>2, <1>4, <2>1, OpenSame DEF ClientInv
  <2> QED  BY <1>1, <1>3, <2>2, <2>3 DEF ClientInv
<1>7. CheckpointInv'
  <2>1. Now' = Now
    BY <1>1, SameNow
  <2> QED  BY <1>1, <2>1 DEF Inv, CheckpointInv
<1>8. ClientInv(Now, pane'[c], wire'[c], receiver'[c])
  BY <1>1, <1>4, <1>6
<1>9. upload'[c].sequence # Unset /\ Sound(Now, upload'[c].view, upload'[c].sequence)
  BY <1>1, <1>4, <1>5
<1> HIDE DEF u, p
<1> QED  BY <1>1, <1>4, <1>7, <1>8, <1>9, ClientStep

\* A sync message is the next one of the connection.
LEMMA Middle ==
    ASSUME Inv, NEW c \in Clients, pane[c].link = "up"
    PROVE  SyncNext(wire[c], 0) <=> MidSynchronization(c)
<1>1. wire[c] \in Seq(Messages)
  BY Client
<1>2. Len(wire[c]) \in Nat /\ 0 + 1 = 1 /\ (0 < Len(wire[c]) <=> wire[c] # <<>>)
      /\ (wire[c] # <<>> => Head(wire[c]) = wire[c][1])
  BY <1>1
<1> QED  BY <1>2 DEF SyncNext, MidSynchronization, Syncs

LEMMA InvBreak ==
    ASSUME Inv, TypeOK', NEW c \in Clients, Break(c)
    PROVE  Inv'
<1> DEFINE q == Failed(pane[c])
<1>1. /\ pane[c].link = "up" /\ ~(SizeSyncTogether /\ MidSynchronization(c))
      /\ HangUp(c) /\ pane' = [pane EXCEPT ![c] = q]
  BY DEF Break
<1>2. ~(SizeSyncTogether /\ SyncNext(wire[c], 0))
  BY <1>1, Middle
<1> HIDE DEF q
<1>3. q \in Panes => ClientInv(Now, q, <<>>, NoReceiver)
  BY <1>1, <1>2, Client, CloseClient DEF q
<1> QED  BY <1>1, <1>3, HungUp

LEMMA InvRecoverBacklog ==
    ASSUME Inv, TypeOK', NEW c \in Clients, RecoverBacklog(c)
    PROVE  Inv'
<1> DEFINE q == [Failed(pane[c]) EXCEPT !.recovering = TRUE]
<1>1. /\ pane[c].link = "up" /\ OwnWrites(pane[c]) # {}
      /\ HangUp(c) /\ pane' = [pane EXCEPT ![c] = q]
  BY DEF RecoverBacklog
<1>2. ~SyncNext(wire[c], 0)
  BY <1>1, Client DEF ClientInv, OpenInv
<1> HIDE DEF q
<1>3. q \in Panes => ClientInv(Now, q, <<>>, NoReceiver)
  BY <1>1, <1>2, Client, CloseClient DEF q
<1> QED  BY <1>1, <1>3, HungUp

LEMMA InvSettleClose ==
    ASSUME Inv, TypeOK', NEW c \in Clients, SettleClose(c)
    PROVE  Inv'
<1> DEFINE p == pane[c]
           settled == [p EXCEPT !.link = "down", !.recovering = MustRestart(p),
                                !.writes = Disowned(p.writes)]
           q == IF MustRestart(p) THEN Restarted(settled) ELSE settled
<1>1. /\ p.link = "closing" /\ pane' = [pane EXCEPT ![c] = q]
      /\ UNCHANGED <<log, output, exitedAt, announced, receiver, wire, upload>>
  BY DEF SettleClose
<1>2. /\ p \in Panes /\ Now \in Terminals /\ wire[c] \in Seq(Messages)
      /\ ClientInv(Now, p, wire[c], receiver[c])
  BY Client
<1>3. settled \in Panes
  <2>1. MustRestart(p) \in BOOLEAN
    BY <1>2 DEF MustRestart, Panes
  <2>2. Disowned(p.writes) \in Seq(Writes)
    BY <1>2, DisownedType DEF Panes
  <2> QED  BY <1>2, <2>1, <2>2 DEF Panes
<1>4. /\ pane'[c] = q /\ q \in Panes
      /\ \A d \in Clients : d # c => pane'[d] = pane[d]
  <2>1. pane'[c] \in Panes
    BY DEF TypeOK
  <2> QED  BY <1>1, <2>1 DEF Inv, TypeOK
<1>5. ClientInv(Now, q, wire[c], receiver[c])
  BY <1>1, <1>2, <1>3, <1>4, SettleClient
<1> HIDE DEF q
<1>6. ClientInv(Now, pane'[c], wire'[c], receiver'[c])
  BY <1>1, <1>4, <1>5
<1> QED  BY <1>1, <1>4, <1>6, ConnectionStep

-----------------------------------------------------------------------------
(* The specification.                                                      *)

LEMMA InitInv == Init => Inv
<1> SUFFICES ASSUME Init PROVE Inv
  OBVIOUS
<1>1. TypeOK
  BY TypeInit
<1>2. /\ log = <<>> /\ output.epoch = 0 /\ output.safe = {0} /\ output.checkpoint = NoUpload
      /\ exitedAt = Unset /\ Len(log) = 0 /\ \A c \in Clients : upload[c] = NoUpload
  BY DEF Init
<1>3. Forwards(Now) /\ SafeInv /\ UploadInv /\ CheckpointInv
  BY <1>2, NowFields DEF Forwards, SafeInv, UploadInv, CheckpointInv, Unset
<1>4. ASSUME NEW c \in Clients PROVE ClientInv(Now, pane[c], wire[c], receiver[c])
  <2>1. /\ pane[c].link = "down" /\ pane[c].committed = Unset /\ pane[c].received = Unset
        /\ pane[c].mode = "none" /\ pane[c].writes = <<>> /\ ~pane[c].accepting
        /\ wire[c] = <<>> /\ ~receiver[c].live
    BY DEF Init, NoReceiver
  <2>2. PaneInv(Now, pane[c])
    BY <2>1 DEF PaneInv, Disconnected
  <2>3. OwnWrites(pane[c]) = {}
    BY <2>1 DEF OwnWrites
  <2>4. Placed(Now, At(pane[c])) /\ Fits(Now, At(pane[c]))
    BY <2>1 DEF Placed, Fits, At, Stop
  <2> QED  BY <2>1, <2>2, <2>3, <2>4 DEF ClientInv, ClosedInv
<1> QED  BY <1>1, <1>3, <1>4 DEF Inv

LEMMA InvStutter == Inv /\ UNCHANGED vars => Inv'
<1> SUFFICES ASSUME Inv, UNCHANGED vars PROVE Inv'
  OBVIOUS
<1>1. UNCHANGED <<log, output, exitedAt, announced, receiver, wire, pane, upload>>
  BY DEF vars
<1>2. Now' = Now
  BY <1>1, SameNow
<1>3. TypeOK' /\ SafeInv' /\ CheckpointInv' /\ UploadInv' /\ Forwards(Now)'
  BY <1>1, <1>2 DEF Inv, TypeOK, SafeInv, CheckpointInv, UploadInv
<1>4. \A c \in Clients : ClientInv(Now, pane[c], wire[c], receiver[c])'
  BY <1>1, <1>2 DEF Inv
<1> QED  BY <1>3, <1>4 DEF Inv

LEMMA InvNext == Inv /\ [Next]_vars => Inv'
<1> SUFFICES ASSUME Inv, [Next]_vars PROVE Inv'
  OBVIOUS
<1>1. TypeOK'
  BY TypeNext DEF Inv
<1>2. CASE UNCHANGED vars
  BY <1>2, InvStutter
<1>3. CASE SessionStep
  BY <1>1, <1>3, InvPublish, InvResize, InvExited, InvAnnounceExit DEF SessionStep
<1>4. ASSUME NEW c \in Clients, Forward(c) PROVE Inv'
  BY <1>1, <1>4, InvResynchronize, InvForwardOutput, InvForwardControl DEF Forward
<1>5. ASSUME NEW c \in Clients, StoreCheckpoint(c) \/ WriteCheckpoint(c) PROVE Inv'
  BY <1>1, <1>5, InvStoreCheckpoint, InvWriteCheckpoint
<1>6. ASSUME NEW c \in Clients, Receive(c) PROVE Inv'
  BY <1>1, <1>6, InvReceiveSize, InvReceiveSync, InvReceiveFrame, InvReceiveSynced,
     InvReceiveExit DEF Receive
<1>7. ASSUME NEW c \in Clients, Parse(c) PROVE Inv'
  BY <1>1, <1>7, InvParse
<1>8. ASSUME NEW c \in Clients, Break(c) \/ RecoverBacklog(c) PROVE Inv'
  BY <1>1, <1>8, InvBreak, InvRecoverBacklog
<1>9. ASSUME NEW c \in Clients, SettleClose(c) \/ Connect(c) PROVE Inv'
  BY <1>1, <1>9, InvSettleClose, InvConnect
<1> QED  BY <1>2, <1>3, <1>4, <1>5, <1>6, <1>7, <1>8, <1>9 DEF Next, Idle

\* Every message, event, write and checkpoint of a terminal, and every pane, is
\* on its way from what the terminal was to what it is now, in each state of
\* the system, whatever breaks and whoever lags (src/terminal.rs,
\* src/workspace.rs, src/client/lib/terminal-stream.ts).
THEOREM Invariance == Spec => []Inv
  BY InitInv, InvNext, PTL DEF Spec

-----------------------------------------------------------------------------
(* What follows for the panes.                                             *)

LEMMA SoundShows ==
    ASSUME SizeSyncTogether, TypeOK, NEW view \in Views, NEW n \in Nat, Sound(Now, view, n)
    PROVE  Shows(view, n)
<1> SUFFICES ASSUME NEW k \in 1..n PROVE view[k] = <<k, log[k]>>
  BY NowFields DEF Sound, Shows
<1>1. view[k][1] = k /\ view[k][2] = log[k]
  BY NowFields DEF Sound
<1>2. view[k] \in Nat \X Epochs
  BY DEF Sound, Views
<1> QED  BY <1>1, <1>2

\* A pane that has parsed what it wrote shows what it says it does.
LEMMA FollowingShows ==
    ASSUME SizeSyncTogether, Inv, NEW c \in Clients, pane[c].committed # Unset
    PROVE  /\ Following(Now, pane[c]) /\ pane[c].committed \in Nat
           /\ Shows(pane[c].view, pane[c].committed)
<1>1. pane[c] \in Panes /\ Following(Now, pane[c]) /\ TypeOK
  BY Client DEF ClientInv, PaneInv, Inv
<1>2. pane[c].committed \in Nat /\ pane[c].view \in Views
  BY <1>1 DEF Panes, Positions
<1>3. Sound(Now, pane[c].view, pane[c].committed)
  BY <1>1 DEF Following
<1> QED  BY <1>1, <1>2, <1>3, SoundShows

LEMMA InvPaneIsTrue == SizeSyncTogether /\ Inv => PaneIsTrue
<1> SUFFICES ASSUME SizeSyncTogether, Inv PROVE PaneIsTrue
  OBVIOUS
<1>1. CommittedIsShown
  BY FollowingShows DEF CommittedIsShown
<1>2. ASSUME NEW c \in Clients, pane[c].accepting, ~MidSynchronization(c)
      PROVE  LET n == Len(pane[c].view)
             IN  Shows(pane[c].view, n) /\ HadGrid(pane[c].epoch, n)
  <2> DEFINE p == pane[c]
             n == p.committed
             m == p.received
  <2>1. /\ p \in Panes /\ wire[c] \in Seq(Messages)
        /\ ClientInv(Now, p, wire[c], receiver[c]) /\ PaneInv(Now, p)
    BY Client DEF ClientInv
  <2>2. p.link = "up" /\ n # Unset
    BY <1>2, <2>1 DEF PaneInv
  <2>3. Following(Now, p) /\ n \in Nat /\ Shows(p.view, n)
    BY <2>2, FollowingShows
  <2>4. Len(p.view) = n
    BY <2>3 DEF Shows
  <2>5. /\ m \in Nat /\ p.epoch \in Nat /\ n <= m /\ m <= Len(log)
        /\ InGrid(Now, n, m, p.epoch)
    BY <2>1, <2>3, NowFields DEF Following, Panes, Positions, Epochs
  <2>6. Had(Now, p.epoch, m)
    <3>1. PICK u \in Stops : Way(Now, At(p), wire[c], u)
      BY <2>1, <2>2 DEF ClientInv, OpenInv
    <3>2. ~SyncNext(wire[c], 0)
      BY <1>2, <2>2, Middle
    <3>3. Fits(Now, At(p))
      <4>1. PICK S \in [Nat -> Stops] : S[0] = At(p) /\ Track(Now, wire[c], S)
        BY <3>1 DEF Way
      <4>2. 0 \in 0..Len(wire[c])
        BY <2>1
      <4> QED  BY <3>2, <4>1, <4>2 DEF Track
    <3>4. At(p).pos = m /\ At(p).epoch = p.epoch
      BY StopFields DEF At
    <3> QED  BY <2>5, <3>3, <3>4 DEF Fits, Unset
  <2>7. /\ Len(log) \in Nat /\ \A k \in 1..Len(log) : log[k] \in Nat
        /\ \A i, j \in 1..Len(log) : i <= j => log[i] <= log[j]
        /\ output.epoch \in Nat
    BY NowFields DEF Inv, TypeOK, States, Forwards
  <2>8. /\ p.epoch <= output.epoch
        /\ m > 0 => log[m] <= p.epoch
        /\ m < Len(log) => p.epoch <= log[m + 1]
        /\ \A k \in (n + 1)..m : log[k] = p.epoch
    BY <2>5, <2>6, NowFields DEF Had, InGrid
  <2> HIDE DEF n, m
  <2>9. n > 0 => log[n] <= p.epoch
    <3> SUFFICES ASSUME n > 0 PROVE log[n] <= p.epoch
      OBVIOUS
    <3>1. n \in 1..Len(log) /\ m \in 1..Len(log) /\ m > 0
      BY <2>3, <2>5, <2>7
    <3>2. log[n] <= log[m] /\ log[n] \in Nat /\ log[m] \in Nat
      BY <2>5, <2>7, <3>1
    <3> QED  BY <2>5, <2>8, <3>1, <3>2
  <2>10. n < Len(log) => p.epoch <= log[n + 1]
    <3>1. CASE n = m
      BY <2>8, <3>1
    <3>2. CASE n # m
      <4>1. n + 1 \in (n + 1)..m
        BY <2>3, <2>5, <3>2
      <4> QED  BY <2>5, <2>8, <4>1
    <3> QED  BY <3>1, <3>2
  <2>11. HadGrid(p.epoch, n)
    BY <2>8, <2>9, <2>10 DEF HadGrid
  <2> QED  BY <2>3, <2>4, <2>11
<1> QED  BY <1>1, <1>2 DEF PaneIsTrue, ShowsThePast

LEMMA InvCheckpointExact == SizeSyncTogether /\ Inv => CheckpointExact
<1> SUFFICES ASSUME SizeSyncTogether, Inv, output.checkpoint # NoUpload
             PROVE  /\ output.checkpoint.epoch = output.epoch
                    /\ output.checkpoint.view
                         \o Cells(output.checkpoint.sequence, output.sequence, output.epoch)
                       = Screen
  BY DEF CheckpointExact
<1> DEFINE kept == output.checkpoint
           n == kept.sequence
           m == output.sequence
           v == kept.view \o Cells(n, m, output.epoch)
<1>1. /\ n # Unset /\ kept.epoch = output.epoch /\ Sound(Now, kept.view, n)
      /\ \A k \in (n + 1)..Len(log) : log[k] = output.epoch
  BY DEF Inv, CheckpointInv
<1>2. /\ n \in Nat /\ m \in Nat /\ m = Len(log) /\ kept.view \in Views /\ output.epoch \in Epochs
      /\ TypeOK /\ Now \in Terminals
  BY <1>1, NowType DEF Inv, TypeOK, States, Uploads, Positions, Epochs
<1>3. n <= m
  BY <1>1, <1>2, NowFields DEF Sound
<1>4. Sound(Now, v, m)
  <2>1. InGrid(Now, n, m, output.epoch)
    BY <1>1, <1>2, NowFields DEF InGrid
  <2> QED  BY <1>1, <1>2, <1>3, <2>1, NowFields, SoundAppend
<1>5. v \in Views
  <2>1. Cells(n, m, output.epoch) \in Views
    BY <1>2, CellsView
  <2> QED  BY <1>2, <2>1 DEF Views
<1> HIDE DEF v
<1>6. Shows(v, m)
  BY <1>2, <1>4, <1>5, SoundShows
<1>7. Screen \in Views /\ Len(Screen) = m /\ \A k \in 1..m : Screen[k] = <<k, log[k]>>
  <2>1. log \in Seq(Nat)
    BY <1>2 DEF TypeOK
  <2> QED  BY <1>2, <2>1, ScreenType DEF Screen
<1>8. v = Screen
  <2>1. v \in Seq(Nat \X Epochs) /\ Screen \in Seq(Nat \X Epochs) /\ Len(v) = Len(Screen)
    BY <1>5, <1>6, <1>7 DEF Shows, Views
  <2>2. \A k \in 1..Len(v) : v[k] = Screen[k]
    BY <1>6, <1>7 DEF Shows
  <2> HIDE DEF m, n
  <2> QED  BY <2>1, <2>2, SameSequence
<1> QED  BY <1>1, <1>8 DEF v

LEMMA InvFramesAccepted == Inv => FramesAccepted
<1> SUFFICES ASSUME Inv PROVE FramesAccepted
  OBVIOUS
<1>1. ASSUME NEW c \in Clients
      PROVE  LET p == pane[c]
                 m == Head(wire[c])
                 w == Head(p.writes)
             IN  /\ Arrives(c, "output") => p.received # Unset /\ m.number = p.received
                 /\ Arrives(c, "snapshot") => p.mode = "restore" /\ m.number = p.target
                 /\ Arrives(c, "resume") => p.committed # Unset
                 /\ Arrives(c, "synced") /\ OwnWrites(p) = {} => Finished(p, m.number)
                 /\ p.writes # <<>> /\ w.own /\ w.kind = "output" => Committable(p, w.upto)
  <2> DEFINE p == pane[c]
             m == Head(wire[c])
             w == Head(p.writes)
  <2>1. /\ Now \in Terminals /\ p \in Panes /\ wire[c] \in Seq(Messages)
        /\ ClientInv(Now, p, wire[c], receiver[c]) /\ PaneInv(Now, p)
    BY Client DEF ClientInv
  <2>2. ASSUME p.link = "up", wire[c] # <<>>
        PROVE  /\ m.number \in Nat
               /\ \E x \in Stops : Leg(Now, At(p), m, x)
    <3>1. m \in Messages
      BY <2>1, <2>2
    <3>2. OpenInv(Now, p, wire[c], receiver[c])
      BY <2>1, <2>2 DEF ClientInv
    <3> QED  BY <2>1, <2>2, <3>1, <3>2, OpenHead DEF Messages
  <2>3. At(p).pos = p.received /\ At(p).mode = p.mode /\ At(p).target = p.target
    BY StopFields DEF At
  <2>4. Arrives(c, "output") => p.received # Unset /\ m.number = p.received
    BY <2>2, <2>3 DEF Arrives, Leg, Unset
  <2>5. Arrives(c, "snapshot") => p.mode = "restore" /\ m.number = p.target
    BY <2>2, <2>3 DEF Arrives, Leg
  <2>6. Arrives(c, "resume") => p.committed # Unset
    <3> SUFFICES ASSUME Arrives(c, "resume") PROVE p.committed # Unset
      OBVIOUS
    <3>1. p.received # Unset /\ p.mode \in {"none", "resume"}
      BY <2>2, <2>3 DEF Arrives, Leg
    <3> QED  BY <2>1, <3>1, Modes
  <2>7. Arrives(c, "synced") /\ OwnWrites(p) = {} => Finished(p, m.number)
    <3>1. Synced(p) \in Panes
      BY <2>1, SyncedType
    <3> QED  BY <2>1, <3>1, SyncedClient DEF Arrives
  <2>8. p.writes # <<>> /\ w.own /\ w.kind = "output" => Committable(p, w.upto)
    BY ParsePane
  <2> QED  BY <2>4, <2>5, <2>6, <2>7, <2>8
<1>2. ASSUME NEW c \in Clients, pane[c].link = "exited"
      PROVE  Len(pane[c].view) >= exitedAt
  <2>1. /\ exitedAt # Unset /\ pane[c].committed # Unset /\ pane[c].committed >= exitedAt
        /\ Following(Now, pane[c])
    BY <1>2, Client, NowFields DEF ClientInv, ExitedInv, PaneInv
  <2>2. Len(pane[c].view) = pane[c].committed
    BY <2>1 DEF Following, Sound
  <2> QED  BY <2>1, <2>2
<1> QED  BY <1>1, <1>2 DEF FramesAccepted, NoStreamError, ExitAfterLastByte

\* A pane that takes input shows a point in the history of its terminal: every
\* byte up to some point once and in order, each laid out in the grid the
\* terminal had, and the grid it claims is one the terminal had then; and what
\* it would resume from is the end of what it shows (README.md, "resumes from
\* its last parser-committed byte"; src/client/lib/terminal-stream.ts).  As long as
\* no connection breaks between the two messages a synchronization opens with.
THEOREM PaneHolds == SizeSyncTogether => (Spec => []PaneIsTrue)
<1> SUFFICES ASSUME SizeSyncTogether PROVE Spec => []PaneIsTrue
  OBVIOUS
<1>1. Inv => PaneIsTrue
  BY InvPaneIsTrue
<1> QED  BY <1>1, Invariance, PTL

\* A checkpoint that was accepted (store_browser_checkpoint), followed by what
\* the terminal wrote since, is the screen of the terminal: a pane restored from
\* it sees what one that was always attached does.
THEOREM CheckpointHolds == SizeSyncTogether => (Spec => []CheckpointExact)
<1> SUFFICES ASSUME SizeSyncTogether PROVE Spec => []CheckpointExact
  OBVIOUS
<1>1. Inv => CheckpointExact
  BY InvCheckpointExact
<1> QED  BY <1>1, Invariance, PTL

\* TerminalStreamState never rejects what the server sent, whatever breaks: each
\* output follows the one before, each synchronization is complete when its end
\* arrives, what xterm parsed can be committed, and the exit comes after the
\* last byte (src/client/lib/terminal-stream.ts, accept, commit and finish).
THEOREM FramesHold == Spec => []FramesAccepted
<1>1. Inv => FramesAccepted
  BY InvFramesAccepted
<1> QED  BY <1>1, Invariance, PTL

\* A pane that could be resumed shows the bytes up to its position: each once, in
\* order, and none the terminal did not write.  This holds wherever connections
\* break; only the grids depend on the two messages arriving together.
BytesInOrder ==
    \A c \in Clients :
        pane[c].committed # Unset =>
            /\ Len(pane[c].view) = pane[c].committed /\ pane[c].committed <= Len(log)
            /\ \A k \in 1..pane[c].committed : pane[c].view[k][1] = k

\* The same, as a theorem: no output of the terminal is lost, doubled or
\* reordered on a pane that follows it (README.md, "resumes from its last
\* parser-committed byte"; src/terminal_state.rs, sync).
THEOREM BytesHold == Spec => []BytesInOrder
<1>1. Inv => BytesInOrder
  <2> SUFFICES ASSUME Inv, NEW c \in Clients, pane[c].committed # Unset
               PROVE  /\ Len(pane[c].view) = pane[c].committed /\ pane[c].committed <= Len(log)
                      /\ \A k \in 1..pane[c].committed : pane[c].view[k][1] = k
    BY DEF BytesInOrder
  <2>1. Following(Now, pane[c])
    BY Client DEF ClientInv, PaneInv
  <2> QED  BY <2>1, NowFields DEF Following, Sound
<1> QED  BY <1>1, Invariance, PTL
=============================================================================
