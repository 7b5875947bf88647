----------------------------- MODULE DebugRecording -----------------------------
(***************************************************************************)
(* Recordings of terminal traffic (debug_recording.rs), made where the     *)
(* server passes messages between browsers and brokers                     *)
(* (proxy_terminal_socket in api.rs).                                      *)
(*                                                                         *)
(* A connection looks at the `active' flag without the lock, and takes the *)
(* lock to record; the user starts, stops, clears and exports in between.  *)
(* It keeps count of announced checkpoints whether or not there is a       *)
(* recording, because their frames look like typing.  The flag is looked at*)
(* more than once per message; only the last time it is set, or the first  *)
(* it is not, matters.                                                     *)
(***************************************************************************)
EXTENDS Naturals, Sequences, SequencesExt

CONSTANTS Sockets,
          MaxBytes,             \* max_bytes
          MaxUpload,            \* bound: of a checkpoint, in units of frames
          MaxMessages, MaxControls      \* bounds

VARIABLES
    captures,   \* active
    buffer,     \* RecordingBuffer
    exported,   \* the last export
    proxy,      \* socket -> proxy_terminal_socket
    owed,       \* socket -> what the browser has still to send of a checkpoint
    controls    \* calls of the user

recordingVars == <<captures, buffer, exported, proxy, owed, controls>>

NoBuffer == [id |-> 0, stopped |-> FALSE, events |-> <<>>, bytes |-> 0, truncated |-> FALSE]
Truncation == [kind |-> "truncated"]
Event(s, n, kind, means) == [socket |-> s, serial |-> n, kind |-> kind, means |-> means]
Size(kind) == IF kind \in {"output", "chunk"} THEN 2 ELSE 1

-----------------------------------------------------------------------------
(* DebugRecordingManager *)

Called == controls < MaxControls /\ controls' = controls + 1

StartRecording ==
    /\ Called
    /\ IF buffer.id # 0 /\ ~buffer.stopped THEN UNCHANGED <<captures, buffer>>
       ELSE captures' = TRUE /\ buffer' = [NoBuffer EXCEPT !.id = controls']
    /\ UNCHANGED <<exported, proxy, owed>>
StopRecording ==
    /\ Called
    /\ captures' = FALSE
    /\ buffer' = IF buffer.id = 0 THEN buffer ELSE [buffer EXCEPT !.stopped = TRUE]
    /\ UNCHANGED <<exported, proxy, owed>>
ClearRecording ==
    /\ Called
    /\ captures' = FALSE /\ buffer' = NoBuffer
    /\ UNCHANGED <<exported, proxy, owed>>
ExportRecording ==
    /\ buffer.id # 0 /\ exported' = buffer
    /\ UNCHANGED <<captures, buffer, proxy, owed, controls>>

\* Mutant: a recording that was stopped takes what waited for the lock.
LateAccepts(b) == b.id # 0 /\ ~b.truncated
Accepts(b) == b.id # 0 /\ ~b.truncated /\ ~b.stopped
Recorded(b, event) ==
    LET bytes == b.bytes + Size(event.kind) IN
    CASE ~Accepts(b) -> b
      [] Accepts(b) /\ bytes > MaxBytes ->
           [b EXCEPT !.bytes = MaxBytes, !.truncated = TRUE, !.events = Append(@, Truncation)]
      [] OTHER -> [b EXCEPT !.bytes = bytes, !.events = Append(@, event)]

-----------------------------------------------------------------------------
(* proxy_terminal_socket *)

\* at: "new", "waiting" (for the lock), "passing", "between", "closing", "closed"
NewProxy == [at |-> "new", serial |-> 0, event |-> Truncation, remaining |-> 0]
Becomes(s, p) == proxy' = [proxy EXCEPT ![s] = p]

\* The next event of a socket, recorded when there is a recording.
Happens(s, kind, means, left, then) ==
    LET n == proxy[s].serial + 1 IN
    Becomes(s, [at |-> IF captures THEN "waiting" ELSE then, serial |-> n,
                event |-> Event(s, n, kind, means), remaining |-> left])

Connect(s) ==
    /\ proxy[s].at = "new" /\ Happens(s, "connect", "connect", 0, "between")
    /\ UNCHANGED <<captures, buffer, exported, owed, controls>>
\* record_broker_frame, record_broker_control
FromBroker(s) ==
    /\ proxy[s].at = "between" /\ proxy[s].serial < MaxMessages
    /\ Happens(s, "output", "output", proxy[s].remaining, "passing")
    /\ UNCHANGED <<captures, buffer, exported, owed, controls>>
\* record_browser_message
Announcement(s) ==
    /\ proxy[s].at = "between" /\ proxy[s].serial < MaxMessages
    /\ owed[s] = 0
    /\ \E size \in 1..MaxUpload :
          /\ owed' = [owed EXCEPT ![s] = size]
          /\ Happens(s, "announce", "announce", size, "passing")
    /\ UNCHANGED <<captures, buffer, exported, controls>>
\* record_browser_binary
FromBrowser(s, units) ==
    LET left == proxy[s].remaining
        used == IF units < left THEN units ELSE left
    IN
    /\ proxy[s].at = "between" /\ proxy[s].serial < MaxMessages
    /\ IF units = 0 THEN owed[s] = 0 /\ UNCHANGED owed      \* typing has no header of a frame
       ELSE units <= owed[s] /\ owed' = [owed EXCEPT ![s] = @ - units]
    /\ Happens(s, IF units > 0 /\ left > 0 THEN "chunk" ELSE "input",
               IF units > 0 THEN "chunk" ELSE "input", left - used, "passing")
    /\ UNCHANGED <<captures, buffer, exported, controls>>

\* record, with the lock
Record(s) ==
    /\ proxy[s].at = "waiting"
    /\ buffer' = Recorded(buffer, proxy[s].event)
    /\ Becomes(s, [proxy[s] EXCEPT !.at = CASE @ = "waiting" /\ proxy[s].event.kind = "connect"    -> "between"
                                            [] @ = "waiting" /\ proxy[s].event.kind = "disconnect" -> "closed"
                                            [] OTHER -> "passing"])
    /\ UNCHANGED <<captures, exported, owed, controls>>
\* proxy_send
Pass(s) ==
    /\ proxy[s].at = "passing"
    /\ \E at \in {"between", "closing"} : Becomes(s, [proxy[s] EXCEPT !.at = at])
    /\ UNCHANGED <<captures, buffer, exported, owed, controls>>
\* One of the two sides ends, or a message could not be passed on.
Disconnect(s) ==
    /\ proxy[s].at \in {"between", "closing"}
    /\ Happens(s, "disconnect", "disconnect", 0, "closed")
    /\ UNCHANGED <<captures, buffer, exported, owed, controls>>

RecordingInit ==
    /\ captures = FALSE /\ buffer = NoBuffer /\ exported = NoBuffer
    /\ proxy = [s \in Sockets |-> NewProxy] /\ owed = [s \in Sockets |-> 0]
    /\ controls = 0
RecordingNext ==
    \/ StartRecording \/ StopRecording \/ ClearRecording \/ ExportRecording
    \/ \E s \in Sockets :
          \/ Connect(s) \/ FromBroker(s) \/ Announcement(s) \/ Record(s) \/ Pass(s) \/ Disconnect(s)
          \/ \E units \in 0..MaxUpload : FromBrowser(s, units)
RecordingSpec == RecordingInit /\ [][RecordingNext]_recordingVars

-----------------------------------------------------------------------------
Traffic(b) == SelectSeq(b.events, LAMBDA e : e # Truncation)
Of(b, s) == SelectSeq(Traffic(b), LAMBDA e : e.socket = s)

\* Whenever it is started and stopped, a recording has what a connection carried from
\* some message to another without a gap, each message as what it was; it ends where it
\* was stopped or grew too large, says which, and what is exported is its beginning, or
\* all of it once it was stopped.
RecordingSound ==
    /\ captures <=> buffer.id # 0 /\ ~buffer.stopped
    /\ \A s \in Sockets :
          LET e == Of(buffer, s)
          IN \A i \in DOMAIN e : /\ e[i].kind = e[i].means
                                 /\ i > 1 => e[i].serial = e[i - 1].serial + 1
    /\ FoldSeq(LAMBDA e, sum : sum + Size(e.kind), 0, Traffic(buffer)) <= buffer.bytes
    /\ buffer.bytes <= MaxBytes
    /\ \A i \in DOMAIN buffer.events :
          buffer.events[i] = Truncation => buffer.truncated /\ i = Len(buffer.events)
    /\ exported.id # 0 /\ exported.id = buffer.id =>
          /\ IsPrefix(exported.events, buffer.events)
          /\ exported.stopped => buffer = exported
=============================================================================
