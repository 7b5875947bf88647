----------------------------- MODULE FlowControl -----------------------------
(***************************************************************************)
(* Flow control of one terminal (src/terminal.rs: FlowControlState, the    *)
(* read loop, subscribe) against the browsers that acknowledge its output  *)
(* (src/client/lib/terminal-stream.ts: TerminalOutputAck).  One counter    *)
(* stands for what all of them owe; the read loop stops above the high     *)
(* watermark and until the counter is below the low one, or until nobody   *)
(* has acknowledged anything for a whole deadline.                         *)
(*                                                                         *)
(* A browser is attached, then subscribed, and then resynchronized when it *)
(* falls too far behind.  Observers take no part.  A definition named      *)
(* Faulty... is a plausible bug in the one that follows it; no action uses *)
(* it.                                                                     *)
(***************************************************************************)
EXTENDS Naturals, FiniteSets

CONSTANTS
    Clients,
    High, Low,      \* the two watermarks
    AckBatch,       \* TERMINAL_ACK_BYTES
    MaxChunk,       \* bound of the model on one read from the pty
    MaxFeed,        \* bound of the model on what a browser may have unread:
                    \* one more event and its receiver has lagged
    MaxAcks         \* bound of the model on acknowledgements on their way

ASSUME FlowAssumption ==
    /\ High \in Nat /\ Low \in Nat /\ AckBatch \in Nat
    /\ MaxChunk \in Nat /\ MaxFeed \in Nat /\ MaxAcks \in Nat
    /\ 0 < AckBatch /\ AckBatch <= Low /\ Low <= High

VARIABLES
    unacknowledged, paused, clients, released,  \* FlowControlState
    reader,      \* the read loop: at the gate, waiting, reading, at the end
    waited,      \* flow_wait_until_resumed: last_unacknowledged, and whether
                 \* the deadline has passed
    link,        \* each browser: "none", "attached", "subscribed", "lagged"
    missed,      \* output published since it attached, while not subscribed
    feed,        \* live output on its way to it, or that it has not parsed
    batch,       \* parsed and not yet acknowledged
    acks,        \* acknowledged, the message on its way
    progressed   \* history: an acknowledgement counted since the deadline
                 \* was set

flowVars   == <<unacknowledged, paused, clients, released>>
readerVars == <<reader, waited, progressed>>
clientVars == <<link, missed, feed, batch, acks>>
vars == <<flowVars, readerVars, clientVars>>

Init ==
    /\ unacknowledged = 0 /\ paused = FALSE /\ clients = 0 /\ released = FALSE
    /\ reader = "gate" /\ waited = [last |-> 0, lapsed |-> FALSE]
    /\ link = [c \in Clients |-> "none"]
    /\ missed = [c \in Clients |-> 0]
    /\ feed = [c \in Clients |-> 0]
    /\ batch = [c \in Clients |-> 0]
    /\ acks = [c \in Clients |-> 0]
    /\ progressed = FALSE

-----------------------------------------------------------------------------
(* FlowControlState.                                                       *)

Blocked == paused /\ clients > 0 /\ ~released

Clear == unacknowledged' = 0 /\ paused' = FALSE

FaultyMinus(a, b) == a - b    \* does not saturate

Minus(a, b) == IF a < b THEN 0 ELSE a - b

Published(n) ==
    /\ unacknowledged' = IF clients = 0 THEN unacknowledged
                                        ELSE unacknowledged + n
    /\ paused' = (paused \/ (clients # 0 /\ unacknowledged + n > High))

FaultyStillPaused(left) == left > 0    \* waits for the last byte

StillPaused(left) == left >= Low

\* flow_acknowledged, which wakes the read loop when it resumes the pty.
Acknowledged(n) ==
    LET left == Minus(unacknowledged, n)
    IN  /\ unacknowledged' = left
        /\ paused' = (paused /\ StillPaused(left))
        /\ progressed' = (progressed \/ left < unacknowledged)

-----------------------------------------------------------------------------
(* The read loop, and the exit thread that opens the gate for good.        *)

\* Every lap of flow_wait_until_resumed begins with blocked().
Gate ==
    /\ reader = "gate"
    /\ reader' = IF Blocked THEN "waiting" ELSE "reading"
    /\ waited' = [last |-> unacknowledged, lapsed |-> FALSE]
    /\ progressed' = FALSE
    /\ UNCHANGED <<flowVars, clientVars>>

\* The deadline passes.
Lapse ==
    /\ reader = "waiting" /\ ~waited.lapsed
    /\ waited' = [waited EXCEPT !.lapsed = TRUE]
    /\ UNCHANGED <<flowVars, reader, progressed, clientVars>>

Resumed ==
    /\ reader = "waiting" /\ ~Blocked
    /\ reader' = "reading"
    /\ UNCHANGED <<flowVars, waited, progressed, clientVars>>

FaultyProgress == unacknowledged <= waited.last    \* any wake-up

Progress == unacknowledged < waited.last

\* A wake-up that finds the debt smaller sets a new deadline.
Extend ==
    /\ reader = "waiting" /\ Blocked
    /\ Progress
    /\ waited' = [last |-> unacknowledged, lapsed |-> FALSE]
    /\ progressed' = FALSE
    /\ UNCHANGED <<flowVars, reader, clientVars>>

FaultyWedged == waited.lapsed    \* does not look for progress first

\* The wait ended with the deadline, and no smaller debt.
Wedged == waited.lapsed /\ ~Progress

WriteOff ==
    /\ reader = "waiting" /\ Blocked /\ Wedged
    /\ Clear
    /\ reader' = "reading"
    /\ UNCHANGED <<clients, released, waited, progressed, clientVars>>

\* Bound of the model: before the release nothing can owe more than this, and
\* after it the counter only grows.
MaxDebt == High + MaxChunk

\* publish: a subscribed browser gets the chunk as live output, or lags.
Publish(n) ==
    /\ reader = "reading" /\ n \in 1..MaxChunk
    /\ unacknowledged + n <= MaxDebt
    /\ Published(n)
    /\ reader' = "gate"
    /\ missed' = [c \in Clients |->
         IF link[c] = "attached" /\ missed[c] + n <= MaxFeed
           THEN missed[c] + n ELSE missed[c]]
    /\ feed' = [c \in Clients |->
         IF link[c] = "subscribed" /\ feed[c] + n <= MaxFeed
           THEN feed[c] + n ELSE feed[c]]
    /\ link' = [c \in Clients |->
         IF link[c] = "subscribed" /\ feed[c] + n > MaxFeed THEN "lagged"
         ELSE link[c]]
    \* Bound of the model: a browser subscribes before that much is missed.
    /\ \A c \in Clients : link[c] = "attached" => missed[c] + n <= MaxFeed
    /\ UNCHANGED <<clients, released, waited, progressed, batch, acks>>

EndOfFile ==
    /\ reader = "reading"
    /\ reader' = "eof"
    /\ UNCHANGED <<flowVars, waited, progressed, clientVars>>

\* flow_release, by kill or by the exit thread.
Release ==
    /\ ~released
    /\ released' = TRUE
    /\ UNCHANGED <<unacknowledged, paused, clients, readerVars, clientVars>>

-----------------------------------------------------------------------------
(* Browsers.                                                               *)

\* flow_attach.
Attach(c) ==
    /\ link[c] = "none"
    /\ link' = [link EXCEPT ![c] = "attached"]
    /\ clients' = clients + 1
    /\ Clear
    /\ UNCHANGED <<released, readerVars, missed, feed, batch, acks>>

\* The new subscription takes the place of the receiver: the events still queued
\* there go with it, and only what has left for the browser will be parsed.
Replaces(c) == \E sent \in 0..feed[c] : feed' = [feed EXCEPT ![c] = sent]

FaultySubscribeSnapshot(c) ==    \* keeps what the snapshot contains as debt
    /\ link[c] \in {"attached", "lagged"}
    /\ link' = [link EXCEPT ![c] = "subscribed"]
    /\ missed' = [missed EXCEPT ![c] = 0]
    /\ Replaces(c)
    /\ UNCHANGED <<flowVars, readerVars, batch, acks>>

\* subscribe with a snapshot, on connection or to recover from a lag: what the
\* snapshot contains is never acknowledged.
SubscribeSnapshot(c) ==
    /\ link[c] \in {"attached", "lagged"}
    /\ link' = [link EXCEPT ![c] = "subscribed"]
    /\ missed' = [missed EXCEPT ![c] = 0]
    /\ Replaces(c)
    /\ Clear
    /\ UNCHANGED <<clients, released, readerVars, batch, acks>>

\* subscribe that resumes: the replay, which begins before the browser
\* attached, is live output to it.
SubscribeResume(c) ==
    /\ link[c] = "attached"
    /\ \E replayed \in missed[c]..MaxFeed :
         feed' = [feed EXCEPT ![c] = replayed]
    /\ link' = [link EXCEPT ![c] = "subscribed"]
    /\ missed' = [missed EXCEPT ![c] = 0]
    /\ UNCHANGED <<flowVars, readerVars, batch, acks>>

\* TerminalOutputAck.parsed.
Parse(c) ==
    /\ link[c] # "none"
    /\ \E n \in 1..feed[c] :
         /\ feed' = [feed EXCEPT ![c] = @ - n]
         /\ IF batch[c] + n < AckBatch
              THEN /\ batch' = [batch EXCEPT ![c] = @ + n]
                   /\ UNCHANGED acks
              ELSE /\ batch' = [batch EXCEPT ![c] = 0]
                   /\ acks[c] + batch[c] + n <= MaxAcks
                   /\ acks' = [acks EXCEPT ![c] = @ + batch[c] + n]
    /\ UNCHANGED <<flowVars, readerVars, link, missed>>

ReceiveAck(c) ==
    /\ acks[c] > 0
    /\ Acknowledged(acks[c])
    /\ acks' = [acks EXCEPT ![c] = 0]
    /\ UNCHANGED <<clients, released, reader, waited, link, missed, feed, batch>>

FaultyDetach(c) ==    \* keeps what the browser owed as debt
    /\ link[c] # "none"
    /\ link' = [link EXCEPT ![c] = "none"]
    /\ clients' = Minus(clients, 1)
    /\ missed' = [missed EXCEPT ![c] = 0]
    /\ feed' = [feed EXCEPT ![c] = 0]
    /\ batch' = [batch EXCEPT ![c] = 0]
    /\ acks' = [acks EXCEPT ![c] = 0]
    /\ UNCHANGED <<unacknowledged, paused, released, readerVars>>

\* flow_detach.
Detach(c) ==
    /\ link[c] # "none"
    /\ link' = [link EXCEPT ![c] = "none"]
    /\ clients' = Minus(clients, 1)
    /\ Clear
    /\ missed' = [missed EXCEPT ![c] = 0]
    /\ feed' = [feed EXCEPT ![c] = 0]
    /\ batch' = [batch EXCEPT ![c] = 0]
    /\ acks' = [acks EXCEPT ![c] = 0]
    /\ UNCHANGED <<released, readerVars>>

-----------------------------------------------------------------------------
Ended == reader = "eof" /\ UNCHANGED vars

Wait == Resumed \/ Extend \/ WriteOff

ReaderStep == \/ Gate \/ Lapse \/ Wait \/ EndOfFile
              \/ \E n \in 1..MaxChunk : Publish(n)

ClientStep(c) == \/ Attach(c) \/ SubscribeSnapshot(c) \/ SubscribeResume(c)
                 \/ Parse(c) \/ ReceiveAck(c) \/ Detach(c)

Next == ReaderStep \/ Release \/ Ended \/ \E c \in Clients : ClientStep(c)

Spec == Init /\ [][Next]_vars

\* Only the read loop's own wait is fair: its deadline passes, and it wakes up.
\* Browsers owe nothing.
FairSpec == Spec /\ WF_vars(Gate) /\ WF_vars(Lapse) /\ WF_vars(Wait)

-----------------------------------------------------------------------------
(* Properties.                                                             *)

TypeOK ==
    /\ unacknowledged \in Nat /\ clients \in Nat
    /\ paused \in BOOLEAN /\ released \in BOOLEAN /\ progressed \in BOOLEAN
    /\ reader \in {"gate", "waiting", "reading", "eof"}
    /\ waited \in [last : Nat, lapsed : BOOLEAN]
    /\ link \in [Clients -> {"none", "attached", "subscribed", "lagged"}]
    /\ missed \in [Clients -> Nat] /\ feed \in [Clients -> Nat]
    /\ batch \in [Clients -> Nat] /\ acks \in [Clients -> Nat]

\* What the counter says is owed is still coming: every browser that has not
\* lost an event will acknowledge at least that much, or will be replayed it.
\* Debt that nobody holds (folded into a snapshot, or of a browser that left)
\* would keep the terminal paused until the deadline.
DebtIsOwed ==
    \A c \in Clients :
        /\ link[c] = "subscribed" =>
             unacknowledged <= feed[c] + batch[c] + acks[c]
        /\ link[c] = "attached" => unacknowledged <= missed[c]

\* A terminal is never paused on a remainder too small to be acknowledged:
\* while it is, every browser that keeps up has output left to parse or an
\* acknowledgement on the way.
PauseIsPayable ==
    Blocked => \A c \in Clients :
        /\ link[c] = "subscribed" => feed[c] + acks[c] > 0
        /\ link[c] = "attached" => missed[c] > 0

\* The debt is owed, and can be paid.
DebtSound == DebtIsOwed /\ PauseIsPayable

\* The debt is only written off when no acknowledgement counted for a whole
\* deadline: a slow browser keeps its say.
WriteOffOnlyWedged ==
    [][reader = "waiting" /\ waited.lapsed /\ Blocked /\ reader' = "reading"
       => ~progressed]_vars

\* Whatever the browsers do, the read loop does not stay parked.
ReaderResumes == reader = "waiting" ~> reader # "waiting"
=============================================================================
