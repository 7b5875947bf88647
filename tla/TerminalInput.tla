---------------------------- MODULE TerminalInput ----------------------------
(***************************************************************************)
(* The input of one terminal (src/terminal.rs: TerminalInputQueue and its  *)
(* writer thread, TerminalSession::write and write_confirmed).  Callers    *)
(* accept messages into a bounded queue; the emulator's answers to device  *)
(* queries have a queue of their own, which goes first; one thread writes  *)
(* to the pty and may block there for ever.  A caller that asked for a     *)
(* confirmation waits for it, but not for longer than its time-out.        *)
(*                                                                         *)
(* Messages are numbered in the order in which they are accepted; the      *)
(* numbers, `typed' and `told' are history.  Answers carry the number 0.   *)
(* A definition named Faulty... is a plausible bug in the one that follows *)
(* it; no action uses it.                                                  *)
(***************************************************************************)
EXTENDS Naturals, Sequences, SequencesExt

CONSTANTS
    Callers,
    None,               \* no caller waits for a message
    Sizes,              \* sizes of a message, in bytes
    MaxInputBytes,      \* MAX_TERMINAL_INPUT_BYTES
    QueueMessages, QueueBytes,          \* TERMINAL_INPUT_QUEUE_*
    ResponseMessages, ResponseBytes,    \* TERMINAL_RESPONSE_QUEUE_*
    MaxAccepted         \* bound of the model on messages accepted

ASSUME InputAssumption ==
    /\ None \notin Callers
    /\ Sizes \subseteq Nat
    /\ MaxAccepted \in Nat

VARIABLES
    running,            \* TerminalInfo::status
    messages, responses, closed, failed,    \* TerminalInputState
    thread,             \* the writer: "looking", "parked" on the condition
                        \* variable, "writing", "confirming", "failing",
                        \* "stopped"
    current,            \* the message it has taken
    call,               \* each caller: "idle", "checked", "waiting"
    awaits,             \* the message it waits for
    slot,               \* its one-shot channel: "empty", "ok", "error"
    accepted,           \* history: messages accepted so far
    typed,              \* history: the messages written to the pty
    told                \* history: what callers were answered

queueVars  == <<messages, responses, closed, failed>>
writerVars == <<thread, current>>
callVars   == <<call, awaits, slot>>
inputVars  == <<running, queueVars, writerVars, callVars,
                accepted, typed, told>>

Nothing == [n |-> 0, size |-> 0, caller |-> None]
Message == [n : 1..MaxAccepted, size : Sizes, caller : Callers \cup {None}]
Response == [n : {0}, size : Sizes \cup {0}, caller : {None}]

Init ==
    /\ running = TRUE
    /\ messages = <<>> /\ responses = <<>> /\ closed = FALSE /\ failed = FALSE
    /\ thread = "looking" /\ current = Nothing
    /\ call = [c \in Callers |-> "idle"]
    /\ awaits = [c \in Callers |-> 0]
    /\ slot = [c \in Callers |-> "empty"]
    /\ accepted = 0 /\ typed = <<>> /\ told = {}

-----------------------------------------------------------------------------
(* The session.                                                            *)

\* The shell ends: no call is admitted any more, but one that has passed its
\* check goes on.
Exits == running /\ running' = FALSE
         /\ UNCHANGED <<queueVars, writerVars, callVars, accepted, typed, told>>

\* Waking the writer: the condition variable loses nothing while the lock is
\* held between looking and parking.
Woken == IF thread = "parked" THEN "looking" ELSE thread

FaultyCloseQueue ==
    /\ ~closed
    /\ \A c \in Callers : call[c] = "idle"
    /\ closed' = TRUE
    /\ UNCHANGED <<running, messages, responses, failed, writerVars, callVars,
                   accepted, typed, told>>
\* The last reference to the session goes.  A caller holds one.
CloseQueue ==
    /\ ~closed
    /\ \A c \in Callers : call[c] = "idle"
    /\ closed' = TRUE
    /\ thread' = Woken
    /\ UNCHANGED <<running, messages, responses, failed, current, callVars,
                   accepted, typed, told>>

-----------------------------------------------------------------------------
(* Accepting input.                                                        *)

\* write and write_confirmed look at the status first.
CheckRunning(c) ==
    /\ call[c] = "idle" /\ ~closed /\ running
    /\ call' = [call EXCEPT ![c] = "checked"]
    /\ UNCHANGED <<running, queueVars, writerVars, awaits, slot,
                   accepted, typed, told>>

TotalBytes(q) == FoldSeq(LAMBDA m, sum : sum + m.size, 0, q)

CheckOpen == ~failed /\ ~closed

\* A queue takes a message when it has a place and the bytes for it.
Fits(queue, size, places, bytes) ==
    /\ size <= MaxInputBytes
    /\ Len(queue) < places
    /\ TotalBytes(queue) + size <= bytes

FaultyEnqueue(m) ==
    /\ messages' = <<m>> \o messages
    /\ thread' = Woken
Enqueue(m) ==
    /\ messages' = Append(messages, m)
    /\ thread' = Woken

\* enqueue, enqueue_confirmed: the second leaves the caller with the receiver
\* of a fresh one-shot channel.
Submit(c, size, confirmed) ==
    LET m == [n |-> accepted + 1, size |-> size,
              caller |-> IF confirmed THEN c ELSE None] IN
    /\ call[c] = "checked" /\ accepted < MaxAccepted
    /\ CheckOpen /\ Fits(messages, size, QueueMessages, QueueBytes)
    /\ Enqueue(m)
    /\ accepted' = accepted + 1
    /\ call' = [call EXCEPT ![c] = IF confirmed THEN "waiting" ELSE "idle"]
    /\ awaits' = [awaits EXCEPT ![c] = IF confirmed THEN m.n ELSE 0]
    /\ slot' = [slot EXCEPT ![c] = "empty"]
    /\ UNCHANGED <<running, responses, closed, failed, current, typed, told>>

\* InputTooLarge, InputQueueFull, or a writer that stopped.
Refused(c) ==
    /\ call[c] = "checked"
    /\ \E size \in Sizes :
           ~(CheckOpen /\ Fits(messages, size, QueueMessages, QueueBytes))
    /\ call' = [call EXCEPT ![c] = "idle"]
    /\ UNCHANGED <<running, queueVars, writerVars, awaits, slot,
                   accepted, typed, told>>

\* enqueue_unobserved: an answer of the emulator, from the read loop.
Respond(size) ==
    LET m == [Nothing EXCEPT !.size = size] IN
    /\ CheckOpen /\ Fits(responses, size, ResponseMessages, ResponseBytes)
    /\ responses' = Append(responses, m)
    /\ thread' = Woken
    /\ UNCHANGED <<running, messages, closed, failed, current, callVars,
                   accepted, typed, told>>

-----------------------------------------------------------------------------
(* The writer thread.                                                      *)

\* receive: answers first; then input; a queue that is closed or failed only
\* when both are empty.
Take ==
    /\ thread = "looking" /\ (responses # <<>> \/ messages # <<>>)
    /\ IF responses # <<>>
       THEN /\ current' = Head(responses)
            /\ responses' = Tail(responses) /\ UNCHANGED messages
       ELSE /\ current' = Head(messages)
            /\ messages' = Tail(messages) /\ UNCHANGED responses
    /\ thread' = "writing"
    /\ UNCHANGED <<running, closed, failed, callVars, accepted, typed, told>>

WaitOrStop ==
    /\ thread = "looking" /\ responses = <<>> /\ messages = <<>>
    /\ thread' = IF closed \/ failed THEN "stopped" ELSE "parked"
    /\ UNCHANGED <<running, queueVars, current, callVars, accepted, typed, told>>

\* write_all and flush return: the message is in the terminal.
Write ==
    /\ thread = "writing"
    /\ typed' = IF current.n = 0 THEN typed ELSE Append(typed, current.n)
    /\ thread' = "confirming"
    /\ UNCHANGED <<running, queueVars, current, callVars, accepted, told>>

\* The one-shot channel of a message: its caller may have given up on it, and
\* even wait for another one.
Answered(m, answer) ==
    [c \in Callers |-> IF m.caller = c /\ awaits[c] = m.n THEN answer
                       ELSE slot[c]]

\* fail: everything queued is told, under the lock; the message that failed is
\* told after it.
WriteFails ==
    /\ thread = "writing"
    /\ slot' = [c \in Callers |->
                  IF \E i \in DOMAIN messages :
                         messages[i].caller = c /\ awaits[c] = messages[i].n
                  THEN "error" ELSE slot[c]]
    /\ messages' = <<>> /\ responses' = <<>> /\ failed' = TRUE
    /\ thread' = "failing"
    /\ UNCHANGED <<running, closed, current, call, awaits, accepted, typed, told>>

Tell ==
    /\ thread \in {"confirming", "failing"}
    /\ slot' = Answered(current, IF thread = "failing" THEN "error" ELSE "ok")
    /\ current' = Nothing
    /\ thread' = IF thread = "failing" THEN "stopped" ELSE "looking"
    /\ UNCHANGED <<running, queueVars, call, awaits, accepted, typed, told>>

-----------------------------------------------------------------------------
(* write_confirmed, waiting.                                               *)

Hear(c) ==
    /\ call[c] = "waiting" /\ slot[c] # "empty"
    /\ told' = told \cup {<<awaits[c], slot[c]>>}
    /\ call' = [call EXCEPT ![c] = "idle"]
    /\ awaits' = [awaits EXCEPT ![c] = 0]
    /\ slot' = [slot EXCEPT ![c] = "empty"]
    /\ UNCHANGED <<running, queueVars, writerVars, accepted, typed>>

\* CONFIRMATION_TIMEOUT: the receiver is dropped, the message stays queued.
TimesOut(c) ==
    /\ call[c] = "waiting" /\ slot[c] = "empty"
    /\ call' = [call EXCEPT ![c] = "idle"]
    /\ awaits' = [awaits EXCEPT ![c] = 0]
    /\ UNCHANGED <<running, queueVars, writerVars, slot, accepted, typed, told>>

-----------------------------------------------------------------------------
Next ==
    \/ Exits \/ CloseQueue
    \/ \E c \in Callers :
           \/ CheckRunning(c) \/ Refused(c) \/ Hear(c) \/ TimesOut(c)
           \/ \E size \in Sizes, confirmed \in BOOLEAN :
                  Submit(c, size, confirmed)
    \/ \E size \in Sizes : Respond(size)
    \/ Take \/ WaitOrStop \/ Write \/ WriteFails \/ Tell

Spec == Init /\ [][Next]_inputVars

-----------------------------------------------------------------------------
(* Properties.                                                             *)

\* The types: an answer of the emulator has number 0 and nobody waits for it;
\* a caller waits for a message exactly while it is in write_confirmed.
TypeOK ==
    /\ running \in BOOLEAN /\ closed \in BOOLEAN /\ failed \in BOOLEAN
    /\ messages \in Seq(Message)
    /\ responses \in Seq(Response)
    /\ thread \in {"looking", "parked", "writing", "confirming", "failing",
                   "stopped"}
    /\ current \in Message \cup Response
    /\ call \in [Callers -> {"idle", "checked", "waiting"}]
    /\ awaits \in [Callers -> 0..MaxAccepted]
    /\ slot \in [Callers -> {"empty", "ok", "error"}]
    /\ accepted \in 0..MaxAccepted
    /\ typed \in Seq(1..MaxAccepted)
    /\ told \subseteq (1..MaxAccepted) \X {"ok", "error"}

WasTyped(n) == \E i \in DOMAIN typed : typed[i] = n

\* What write_confirmed reports is so, whatever was timed out, retried or
\* failed meanwhile: a confirmed message has been written to the pty, and one
\* reported as failed never is.
AnswersTrue ==
    \A answer \in told :
        IF answer[2] = "ok" THEN WasTyped(answer[1]) ELSE ~WasTyped(answer[1])

\* The writer sleeps only when there is nothing for it: no message waits for
\* a wake-up that was missed, and a queue that was closed ends its thread.
WriterAwake ==
    /\ thread = "parked" =>
           messages = <<>> /\ responses = <<>> /\ ~closed /\ ~failed
    /\ thread = "stopped" => messages = <<>> /\ responses = <<>>

\* What callers and the writer may rely on.
InputSound == AnswersTrue /\ WriterAwake

\* What is accepted and not yet typed: the message in the writer's hands, then
\* the queue.
InHand == IF thread = "writing" /\ current.n # 0 THEN 1 ELSE 0
Line ==
    [i \in 1..(InHand + Len(messages)) |->
        IF i <= InHand THEN current.n ELSE messages[i - InHand].n]

\* The queue, its writer and the time-outs implement ordered input.
Contract == INSTANCE TypedInput WITH Numbers <- 1..MaxAccepted, line <- Line,
                                     typed <- typed, broken <- failed
InputInOrder == Contract!Spec
=============================================================================
