------------------------------- MODULE VoiceNote -------------------------------
(***************************************************************************)
(* Voice notes of a pane (client/lib/voice-note.ts, VoiceNoteButton.tsx).  *)
(*                                                                         *)
(* The button asks for the microphone, records, and hands the file over.   *)
(* The user may discard the note at any time, also while the browser still *)
(* asks for permission, and close the pane; the microphone may be unplugged*)
(* or the recording fail.  The browser delivers its events in its own time:*)
(* audio in chunks, the last of them and a stop event after a stop.  Where *)
(* there is no MediaRecorder, samples are collected and a stop takes effect*)
(* at once.                                                                *)
(***************************************************************************)
EXTENDS Naturals

CONSTANTS Recorders,        \* VoiceNoteRecorders, in the order of their making
          MaxAudio          \* bound: chunks of audio

VARIABLES
    compressed, \* the browser has MediaRecorder
    recorder,   \* -> [at, mic, spoken, held, cancelled, file, given]
    current,    \* the button's reference, or NoRecorder
    phase,      \* of the button's state
    mounted

noteVars == <<compressed, recorder, current, phase, mounted>>

NoRecorder == 0
\* at: "new", "asking", "on" (captures), "stopping", "stopped"; mic: "off", "on", "gone"
\* file: of the promise `finished`: "none", "error", or [chunks]; given: files handed over
New == [at |-> "new", mic |-> "off", spoken |-> 0, held |-> 0, cancelled |-> FALSE,
        file |-> "none", awaited |-> FALSE, given |-> 0, started |-> FALSE]

Becomes(n, r) == recorder' = [recorder EXCEPT ![n] = r]
Released(r) == [r EXCEPT !.mic = IF @ = "on" THEN "off" ELSE @]
\* The file of what was held, or a rejection
Finished(r) ==
    [Released(r) EXCEPT !.at = "stopped",
                        !.file = CASE r.cancelled                             -> "aborted"
                                   [] ~r.cancelled /\ compressed /\ r.held = 0 -> "empty"
                                   [] OTHER                                   -> "kept"]
\* engine.stop
Stopped(r) == CASE r.at = "on" /\ compressed  -> [r EXCEPT !.at = "stopping"]
                [] r.at = "on" /\ ~compressed -> Finished(r)
                [] OTHER                      -> r
\* engine.discard
Discarded(r) == Stopped([r EXCEPT !.held = 0])
Heard(r) == IF compressed /\ r.cancelled THEN r ELSE [r EXCEPT !.held = r.spoken]

\* Mutant: a note cancelled while the browser asked is recorded all the same.
DeafCancelled(r) == FALSE
CancelledMeanwhile(r) == r.cancelled

Start(n) ==
    /\ mounted /\ phase = "idle" /\ recorder[n].at = "new"
    /\ \A m \in Recorders : m < n => recorder[m].at # "new"
    /\ Becomes(n, [recorder[n] EXCEPT !.at = "asking"])
    /\ current' = n /\ phase' = "starting"
    /\ UNCHANGED <<compressed, mounted>>

\* getUserMedia's answer and the engine made of it
Granted(n) ==
    LET r == recorder[n] IN
    /\ r.at = "asking" /\ ~CancelledMeanwhile(r)
    /\ Becomes(n, [r EXCEPT !.at = "on", !.mic = "on"])
    /\ UNCHANGED <<compressed, current, phase, mounted>>
\* It is refused, no recorder can be made, or the note was cancelled: start rejects
Refused(n) ==
    /\ recorder[n].at = "asking"
    /\ Becomes(n, [recorder[n] EXCEPT !.at = "stopped", !.started = TRUE])
    /\ IF current = n THEN current' = NoRecorder /\ phase' = "idle" ELSE UNCHANGED <<current, phase>>
    /\ UNCHANGED <<compressed, mounted>>
Started(n) ==
    LET r == recorder[n] IN
    /\ r.at # "asking" /\ r.at # "new" /\ ~r.started
    /\ Becomes(n, [r EXCEPT !.started = TRUE])
    /\ phase' = IF current = n THEN "recording" ELSE phase
    /\ UNCHANGED <<compressed, current, mounted>>

Speak(n) ==
    /\ recorder[n].at = "on" /\ recorder[n].mic = "on" /\ recorder[n].spoken < MaxAudio
    /\ Becomes(n, [recorder[n] EXCEPT !.spoken = @ + 1])
    /\ UNCHANGED <<compressed, current, phase, mounted>>
\* dataavailable, onaudioprocess
Data(n) ==
    LET r == recorder[n] IN
    /\ r.at = "on" /\ r.held < r.spoken
    /\ Becomes(n, IF r.cancelled THEN r ELSE [r EXCEPT !.held = r.spoken])
    /\ UNCHANGED <<compressed, current, phase, mounted>>
\* The last dataavailable, and the stop event
StopEvent(n) ==
    LET r == recorder[n] IN
    /\ r.at = "stopping"
    /\ Becomes(n, Finished(Heard(r)))
    /\ UNCHANGED <<compressed, current, phase, mounted>>
ErrorEvent(n) ==
    LET r == recorder[n] IN
    /\ compressed /\ r.at \in {"on", "stopping"}
    /\ Becomes(n, [Released(r) EXCEPT !.at = "stopped", !.file = "failed"])
    /\ UNCHANGED <<compressed, current, phase, mounted>>

\* VoiceNoteButton: finish; the file follows when it is there.
Finish(n, r) ==
    IF current # n THEN Becomes(n, r) /\ UNCHANGED <<current, phase>>
    ELSE Becomes(n, [Stopped(r) EXCEPT !.awaited = TRUE]) /\ current' = NoRecorder /\ phase' = "idle"
Stop ==
    /\ mounted /\ phase = "recording" /\ current # NoRecorder
    /\ Finish(current, recorder[current])
    /\ UNCHANGED <<compressed, mounted>>
\* The track ends, and a MediaRecorder with it
Interrupted(n) ==
    LET r == recorder[n]
        gone == [r EXCEPT !.mic = "gone", !.at = IF compressed /\ @ = "on" THEN "stopping" ELSE @]
    IN
    /\ r.mic = "on" /\ r.at \in {"on", "stopping"}
    /\ IF r.cancelled THEN Becomes(n, gone) /\ UNCHANGED <<current, phase>> ELSE Finish(n, gone)
    /\ UNCHANGED <<compressed, mounted>>
Handed(n) ==
    LET r == recorder[n] IN
    /\ r.awaited /\ r.file # "none"
    /\ Becomes(n, [r EXCEPT !.awaited = FALSE, !.given = IF r.file = "kept" THEN @ + 1 ELSE @])
    /\ UNCHANGED <<compressed, current, phase, mounted>>

Cancelled(r) == Discarded([r EXCEPT !.cancelled = TRUE])
CancelsCurrent == IF current = NoRecorder THEN UNCHANGED recorder
                  ELSE Becomes(current, Cancelled(recorder[current]))
Discard ==
    /\ mounted /\ phase # "idle"
    /\ CancelsCurrent
    /\ current' = NoRecorder /\ phase' = "idle"
    /\ UNCHANGED <<compressed, mounted>>
ClosePane ==
    /\ mounted /\ mounted' = FALSE
    /\ CancelsCurrent
    /\ UNCHANGED <<compressed, current, phase>>

NoteInit ==
    /\ compressed \in BOOLEAN
    /\ recorder = [n \in Recorders |-> New]
    /\ current = NoRecorder /\ phase = "idle" /\ mounted = TRUE
NoteNext ==
    \/ \E n \in Recorders : \/ Start(n) \/ Granted(n) \/ Refused(n) \/ Started(n) \/ Speak(n) \/ Data(n)
                            \/ StopEvent(n) \/ ErrorEvent(n) \/ Interrupted(n) \/ Handed(n)
    \/ Stop \/ Discard \/ ClosePane
NoteSpec == NoteInit /\ [][NoteNext]_noteVars

-----------------------------------------------------------------------------
\* The microphone is on only for the note the button shows, or while a recording that
\* was stopped is put together.
MicReleased ==
    \A n \in Recorders : recorder[n].mic = "on" =>
        (current = n /\ mounted /\ phase # "idle") \/ recorder[n].at = "stopping"

\* A note that was stopped or interrupted is handed over once, from a MediaRecorder with
\* all that was heard (samples lack what is not in a buffer yet when they stop); one that was discarded, or whose pane was closed first, never is.
HandedOnce ==
    \A n \in Recorders :
        LET r == recorder[n]
        IN /\ r.given <= 1 /\ (r.cancelled => r.given = 0)
           /\ (r.given = 1 /\ compressed => r.held = r.spoken)
           /\ (r.file = "kept" /\ ~r.awaited /\ r.given = 0 => current = n)

NotesSound == MicReleased /\ HandedOnce
=============================================================================
