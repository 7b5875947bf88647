----------------------------- MODULE OscScanner -----------------------------
(***************************************************************************)
(* How window titles and progress reports are found in a terminal's output *)
(* (src/terminal.rs: TerminalSignals::observe, osc_end).  Output arrives   *)
(* in chunks cut anywhere; what has been searched is not searched again.   *)
(*                                                                         *)
(* A byte is a member of Bytes; positions count from 0 as in the code.     *)
(***************************************************************************)
EXTENDS Naturals, Sequences, SequencesExt, FiniteSetsExt

CONSTANTS
    MaxPendingOsc,      \* MAX_PENDING_OSC_BYTES
    SignalTail,         \* SIGNAL_TAIL_BYTES
    MaxChunk, MaxStream \* bounds of the model: of a chunk, of all of them

VARIABLES
    pending,            \* bytes kept
    pendingOsc,         \* where an unfinished sequence starts in it, or NoOsc
    scanned,            \* how far its end was looked for
    observed,           \* the payloads handed on, in order
    stream,             \* history: all the bytes that came
    abandoned           \* history: a sequence was longer than the bound

oscVars == <<pending, pendingOsc, scanned, observed, stream, abandoned>>

Bytes == {"esc", "]", "bel", "\\", "x"}
NoOsc == 99

Init == /\ pending = <<>> /\ pendingOsc = NoOsc /\ scanned = 0
        /\ observed = <<>> /\ stream = <<>> /\ abandoned = FALSE

-----------------------------------------------------------------------------
At(b, i) == IF i < Len(b) THEN b[i + 1] ELSE "none"
From(b, i) == SubSeq(b, i + 1, Len(b))
Least(a, b) == IF a < b THEN a ELSE b
Greatest(a, b) == IF a < b THEN b ELSE a
Less(a, b) == IF a < b THEN 0 ELSE a - b

\* The first introducer at or after i.
OscStart(b, i) ==
    LET starts == {k \in i..Len(b) : At(b, k) = "esc" /\ At(b, k + 1) = "]"}
    IN  IF starts = {} THEN NoOsc ELSE Min(starts)

\* osc_end: where the payload ends and where the sequence does, searching
\* from i; a bell, or an escape and a backslash.
OscEnd(b, i) ==
    LET ends == {k \in i..Len(b) :
                    \/ At(b, k) = "bel"
                    \/ At(b, k) = "esc" /\ At(b, k + 1) = "\\"}
    IN  IF ends = {} THEN <<NoOsc, NoOsc>>
        ELSE LET k == Min(ends) IN
             <<k, IF At(b, k) = "bel" THEN k + 1 ELSE k + 2>>

FaultySearched(b) == Len(b)
\* What need not be searched again: not the last byte, which may be the first
\* half of a terminator.
Searched(b) == Less(Len(b), 1)

\* The loop of observe, from position `consumed' of the bytes b.
RECURSIVE Scan(_, _, _, _)
Scan(b, consumed, osc, far) ==
    LET start == IF osc = NoOsc THEN OscStart(b, consumed) ELSE osc
        end   == OscEnd(b, Greatest(far, start + 2))
    IN  IF start = NoOsc
        THEN [consumed |-> consumed, osc |-> NoOsc, far |-> far,
              found |-> <<>>, lost |-> FALSE]
        ELSE IF end[1] = NoOsc
        THEN IF Len(b) - start > MaxPendingOsc
             THEN [consumed |-> Len(b), osc |-> NoOsc, far |-> 0,
                   found |-> <<>>, lost |-> TRUE]
             ELSE [consumed |-> start, osc |-> start, far |-> Searched(b),
                   found |-> <<>>, lost |-> FALSE]
        ELSE LET rest == Scan(b, end[2], NoOsc, 0) IN
             [rest EXCEPT !.found =
                 <<SubSeq(b, start + 3, end[1])>> \o rest.found]

\* observe: search, drop what was used up, and of the rest keep a tail.
Observe(chunk) ==
    LET b     == pending \o chunk
        s     == Scan(b, 0, pendingOsc, scanned)
        left  == From(b, s.consumed)
        trims == s.osc = NoOsc /\ Len(left) > SignalTail
    IN  /\ observed' = observed \o s.found
        /\ abandoned' = (abandoned \/ s.lost)
        /\ pendingOsc' = IF s.osc = NoOsc THEN NoOsc ELSE s.osc - s.consumed
        /\ pending' = IF trims THEN From(left, Len(left) - SignalTail) ELSE left
        /\ scanned' = IF trims THEN 0 ELSE Less(s.far, s.consumed)
        /\ stream' = stream \o chunk

Next == \E n \in 1..Least(MaxChunk, MaxStream - Len(stream)) :
            \E chunk \in [1..n -> Bytes] : Observe(chunk)

Spec == Init /\ [][Next]_oscVars

-----------------------------------------------------------------------------
(* Properties.                                                             *)

\* All the payloads of a stream of bytes, looked for from the beginning.
RECURSIVE Payloads(_)
Payloads(b) ==
    LET start == OscStart(b, 0)
        end   == OscEnd(b, start + 2)
    IN  IF start = NoOsc \/ end[1] = NoOsc THEN <<>>
        ELSE <<SubSeq(b, start + 3, end[1])>> \o Payloads(From(b, end[2]))

\* Titles and progress are found wherever the output is cut: as if it had come
\* in one piece.  (A sequence over the bound is given up, by intent.)
ChunksDoNotMatter == ~abandoned => observed = Payloads(stream)

\* What is kept of the output is bounded.
KeepsLittle == Len(pending) <= Greatest(MaxPendingOsc, SignalTail) + MaxChunk

TitlesFound == ChunksDoNotMatter /\ KeepsLittle
=============================================================================
