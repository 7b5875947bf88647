---------------------------- MODULE SecretCommand ----------------------------
(***************************************************************************)
(* The streaming redactor of src/access.rs (OutputRedactor): output comes  *)
(* in chunks cut anywhere, every pattern derived from the secret is        *)
(* replaced by a marker, and the last bytes are held back as long as a     *)
(* pattern could still begin in them.                                      *)
(***************************************************************************)
EXTENDS Integers, Sequences, FiniteSets, SequencesExt, FiniteSetsExt

CONSTANTS
    Symbols,     \* the bytes a command writes
    Patterns,    \* secret_redaction_variants: the secret and its encodings
    Marker       \* redaction_marker, one symbol no pattern contains

ASSUME PatternsAssumption ==
    /\ Patterns \subseteq Seq(Symbols) \ {<<>>} /\ IsFiniteSet(Patterns)
    /\ Marker \notin Symbols

VARIABLES
    pending,     \* OutputRedactor::pending
    emitted      \* everything push returned so far

Longest == Max({Len(p) : p \in Patterns} \cup {1})

\* The patterns are tried longest first.
MatchAt(text, at) ==
    LET matching == {p \in Patterns : /\ at + Len(p) - 1 <= Len(text)
                                      /\ SubSeq(text, at, at + Len(p) - 1) = p}
    IN  Max({Len(p) : p \in matching} \cup {0})

\* The loop of push: what it emits and where it stops, from position `at' on,
\* looking for matches that start at or before `limit'.
Scan(text, limit) ==
    LET step[at \in 1..(Len(text) + 1)] ==
          IF at > limit THEN [out |-> <<>>, next |-> at]
          ELSE LET length == MatchAt(text, at)
                   rest   == step[at + IF length = 0 THEN 1 ELSE length]
                   first  == IF length = 0 THEN text[at] ELSE Marker
               IN  [out |-> <<first>> \o rest.out, next |-> rest.next]
    IN  step[1]

FaultyLimit(text, final) ==    \* holds back one byte too few
    IF final THEN Len(text) ELSE Max({0, Len(text) - (Longest - 2)})

LazyLimit(text, final) ==    \* holds back one byte too many
    IF final THEN Len(text) ELSE Max({0, Len(text) - Longest})

\* How far a push may look for matches: a chunk that is not the last holds
\* back one byte less than the longest pattern.
Limit(text, final) ==
    IF final THEN Len(text) ELSE Max({0, Len(text) - (Longest - 1)})

Push(bytes, final) ==
    LET text == pending \o bytes
        scan == Scan(text, Limit(text, final))
    IN  /\ emitted' = emitted \o scan.out
        /\ pending' = SubSeq(text, scan.next, Len(text))

\* The reference: all the output at once, left to right, longest match first.
Redacted(text) == Scan(text, Len(text)).out

Shows(text, pattern) ==
    \E k \in 1..Len(text) :
        /\ k + Len(pattern) - 1 <= Len(text)
        /\ SubSeq(text, k, k + Len(pattern) - 1) = pattern

-----------------------------------------------------------------------------
(***************************************************************************)
(* One command run with a secret (src/access.rs: run_secret_command,       *)
(* stream_child, read_stream).  The task and the command's process group   *)
(* are two actors: the group writes to its output pipes, closes them,      *)
(* exits, or leaves a descendant behind that keeps them open; the task     *)
(* spawns it, delivers the value, forwards output until the pipes close or *)
(* it is canceled, and then waits for the exit status.                     *)
(* A definition named Faulty... is a plausible bug in the one that follows *)
(* it; no action uses it.                                                  *)
(***************************************************************************)

CONSTANTS
    MaxInput,      \* bound of the model on the output one command writes
    MaxChunk,      \* OUTPUT_CHUNK_BYTES, the most one read returns
    QueueSize      \* chunks the readers may queue ahead of the task (32)

ASSUME SizesAssumption == /\ {MaxInput, MaxChunk} \subseteq Nat
                          /\ QueueSize \in Nat \ {0}

VARIABLES
    task,        \* where run_secret_command is
    process,     \* the child itself
    outputOpen,  \* the readers have not seen the end of the output pipes, which
                 \* some process of the group may hold
    input,       \* history: everything read from the pipes so far
    channel,     \* of that, the chunks in the mpsc channel
    canceled,    \* the watch channel holds true
    verdict      \* the terminal event sent

vars == <<task, process, outputOpen, input, channel, canceled, verdict,
          pending, emitted>>
redactor == <<pending, emitted>>

Init ==
    /\ task = "spawning" /\ process = "none" /\ outputOpen = FALSE
    /\ input = <<>> /\ channel = <<>>
    /\ pending = <<>> /\ emitted = <<>>
    /\ canceled = FALSE /\ verdict = "none"

-----------------------------------------------------------------------------
(* The task.                                                               *)

Spawn ==
    /\ task = "spawning"
    /\ process' = "running" /\ outputOpen' = TRUE
    \* Environment delivery goes straight to stream_child.
    /\ task' \in {"delivering", "streaming"}
    /\ UNCHANGED <<input, channel, canceled, verdict, redactor>>

SpawnFails ==
    /\ task = "spawning"
    /\ task' = "done" /\ verdict' = "failed"
    /\ UNCHANGED <<process, outputOpen, input, channel, canceled, redactor>>

Delivered ==
    /\ task = "delivering"
    /\ task' = "streaming"
    /\ UNCHANGED <<process, outputOpen, input, channel, canceled, verdict, redactor>>

FaultyDeliveryFails ==    \* returns at once
    /\ task = "delivering"
    /\ task' = "done" /\ verdict' = "failed"
    /\ UNCHANGED <<process, outputOpen, input, channel, canceled, redactor>>

\* The write of the value fails: Child::kill, which spares descendants.
DeliveryFails ==
    /\ task = "delivering"
    /\ process' = IF process = "running" THEN "killed" ELSE process
    /\ outputOpen' \in {outputOpen, FALSE}
    /\ task' = "done" /\ verdict' = "failed"
    /\ UNCHANGED <<input, channel, canceled, redactor>>

\* What the push releases is one Output event, before the next chunk is read.
Forward ==
    /\ task = "streaming" /\ channel # <<>>
    /\ Push(Head(channel), FALSE)
    /\ channel' = Tail(channel)
    /\ UNCHANGED <<task, process, outputOpen, input, canceled, verdict>>

FaultyKillOnCancel ==    \* only looks for the child itself
    /\ task = "streaming" /\ canceled /\ process = "running"
    /\ process' = "killed" /\ outputOpen' = FALSE
    /\ task' = "done" /\ verdict' = "failed"
    /\ UNCHANGED <<input, channel, canceled, redactor>>

\* The other branch of the select.
KillOnCancel ==
    /\ task = "streaming" /\ canceled
    /\ process' = IF process = "running" THEN "killed" ELSE process
    /\ outputOpen' = FALSE
    /\ task' = "done" /\ verdict' = "failed"
    /\ UNCHANGED <<input, channel, canceled, redactor>>

FaultyOutputEnds ==    \* leaves what the readers queued last
    /\ task = "streaming" /\ ~outputOpen
    /\ Push(<<>>, TRUE)
    /\ task' = "waiting"
    /\ UNCHANGED <<process, outputOpen, input, channel, canceled, verdict>>

\* Both readers are gone and the channel is empty: only the status is left,
\* and child.wait() is not raced with the cancellation.
OutputEnds ==
    /\ task = "streaming" /\ ~outputOpen /\ channel = <<>>
    /\ Push(<<>>, TRUE)
    /\ task' = "waiting"
    /\ UNCHANGED <<process, outputOpen, input, channel, canceled, verdict>>

Reap ==
    /\ task = "waiting" /\ process # "running"
    /\ task' = "done" /\ verdict' = "completed"
    /\ UNCHANGED <<process, outputOpen, input, channel, canceled, redactor>>

-----------------------------------------------------------------------------
(* The command, and whoever cancels it: the requester's stream is dropped  *)
(* or the terminal is cleared.                                             *)

FaultyWrite ==    \* an unbounded channel
    /\ outputOpen /\ task = "streaming"
    /\ \E n \in 1..MaxChunk : \E bytes \in [1..n -> Symbols] :
         /\ Len(input) + n <= MaxInput
         /\ input' = input \o bytes /\ channel' = Append(channel, bytes)
    /\ UNCHANGED <<task, process, outputOpen, canceled, verdict, redactor>>

\* A read of read_stream, while the channel has room for it.
Write ==
    /\ outputOpen /\ task = "streaming" /\ Len(channel) < QueueSize
    /\ \E n \in 1..MaxChunk : \E bytes \in [1..n -> Symbols] :
         /\ Len(input) + n <= MaxInput
         /\ input' = input \o bytes /\ channel' = Append(channel, bytes)
    /\ UNCHANGED <<task, process, outputOpen, canceled, verdict, redactor>>

CloseOutput ==
    /\ outputOpen
    /\ outputOpen' = FALSE
    /\ UNCHANGED <<task, process, input, channel, canceled, verdict, redactor>>

Exit ==
    /\ process = "running"
    /\ process' = "exited"
    /\ outputOpen' \in {outputOpen, FALSE}
    /\ UNCHANGED <<task, input, channel, canceled, verdict, redactor>>

Cancel ==
    /\ ~canceled
    /\ canceled' = TRUE
    /\ UNCHANGED <<task, process, outputOpen, input, channel, verdict, redactor>>

Done == task = "done" /\ UNCHANGED vars

TaskStep == \/ Spawn \/ SpawnFails \/ Delivered \/ DeliveryFails
            \/ Forward \/ OutputEnds \/ Reap
CommandStep == Write \/ CloseOutput \/ Exit

Next == TaskStep \/ KillOnCancel \/ CommandStep \/ Cancel \/ Done

\* The task runs, and the select's two branches are polled fairly.  The
\* command owes nothing: it may run for ever.
Fairness == WF_vars(TaskStep) /\ WF_vars(KillOnCancel)

Spec == Init /\ [][Next]_vars /\ Fairness

-----------------------------------------------------------------------------
(* Properties.                                                             *)

TypeOK ==
    /\ task \in {"spawning", "delivering", "streaming", "waiting", "done"}
    /\ process \in {"none", "running", "exited", "killed"}
    /\ outputOpen \in BOOLEAN /\ canceled \in BOOLEAN
    /\ input \in Seq(Symbols) /\ Len(channel) <= QueueSize
    /\ verdict \in {"none", "completed", "failed"}

\* Completed is the last word of a command that is over: its exit status is
\* known, and however its output was cut into chunks, what was sent before is
\* what redacting all of it at once would show.
CompletedAfterAllOutput ==
    verdict = "completed" => /\ process = "exited" /\ ~outputOpen
                             /\ emitted = Redacted(input)

\* No form of the secret is ever sent, before the end or after a cancellation
\* either.
NothingLeaks == \A p \in Patterns : ~Shows(emitted, p)

\* Between two reads no more is held back than a pattern could still need:
\* interactive output is delayed by less than one pattern.
HeldBackBounded == Len(pending) < Longest

\* The redactor shows no secret and holds back no more than it must.
Redacts == NothingLeaks /\ HeldBackBounded

\* The task never ends while the child it started is still running.
NoChildOutlivesTask == task = "done" => process # "running"

\* The task ends last: after its child, and after all of its output.
TaskEndsLast == CompletedAfterAllOutput /\ NoChildOutlivesTask

\* A task ends after its output and its child, and shows no secret.
OutputSound == TaskEndsLast /\ Redacts

\* A cancellation ends the output loop, however much output is ready and
\* whoever still holds the pipes.
CancelEndsStreaming == canceled /\ task = "streaming" ~> task # "streaming"

\* "Canceling the requester or closing its terminal kills the broker-started
\* process group" (SECURITY.md).
CanceledCommandStops == canceled ~> process # "running"
=============================================================================
