--------------------------- MODULE CheckpointUpload ---------------------------
(***************************************************************************)
(* A browser's checkpoint on its way to the broker, on the connection its  *)
(* typing takes too (client/lib/terminal-checkpoint.ts; workspace.rs:      *)
(* handle_client_message and the assembly of checkpoints).                 *)
(*                                                                         *)
(* A checkpoint is sent as JSON chunks, or as an announcement and the raw  *)
(* frames it owes when this connection's broker has said it knows them: an *)
(* older broker takes any binary message for typing.  The connection breaks*)
(* at any moment, and the next may lead to another broker.  A browser of   *)
(* another build may send anything.                                        *)
(***************************************************************************)
EXTENDS Naturals, Sequences, SequencesExt, FiniteSets

CONSTANTS ChunkSize, Maximum,   \* of a message, and of a checkpoint
          MaxSends              \* bound

VARIABLES
    ours,       \* whether the browser is of this build
    knows,      \* whether the broker at the other end knows binary checkpoints
    linked,     \* the connection: "up", "ready"
    flag,       \* checkpointBinary
    stream,     \* messages on their way
    chunked, binary,    \* CheckpointAssembly
    stored,     \* checkpoints handed to the terminal
    read,       \* what the pty was given, of a browser of this build
    taken,      \* its typed messages that the broker has handled
    sends

uploadVars == <<ours, knows, linked, flag, stream, chunked, binary, stored, read, taken, sends>>

NoAssembly == [upload |-> 0, size |-> 0, bytes |-> <<>>]
\* The bytes from..upto-1 of a checkpoint.
Bytes(u, from, upto) == [i \in 1..(upto - from) |-> <<u, from + i - 1>>]
LeastOf(a, b) == IF a < b THEN a ELSE b
Chunks(n) == {k \in 0..(n - 1) : k % ChunkSize = 0}

Typed(id) == [kind |-> "typed", upload |-> id, offset |-> 0, size |-> 0, bytes |-> <<>>, final |-> FALSE]
Announce(u, size) == [Typed(u) EXCEPT !.kind = "announce", !.size = size]
Frame(u, from, upto) == [Typed(u) EXCEPT !.kind = "frame", !.bytes = Bytes(u, from, upto)]
Chunk(u, from, upto, final) ==
    [Typed(u) EXCEPT !.kind = "chunk", !.offset = from, !.bytes = Bytes(u, from, upto), !.final = final]

-----------------------------------------------------------------------------
(* The browser *)

\* sendTerminalCheckpoint: all messages of a checkpoint, at once
Parts(u, n, raw) ==
    LET offsets == SetToSortSeq(Chunks(n), <)
        Part(from) == LET upto == LeastOf(from + ChunkSize, n)
                      IN IF raw THEN Frame(u, from, upto) ELSE Chunk(u, from, upto, upto = n)
    IN (IF raw THEN <<Announce(u, n)>> ELSE <<>>) \o [i \in DOMAIN offsets |-> Part(offsets[i])]

Send(messages) ==
    /\ linked = "ready" /\ sends < MaxSends /\ sends' = sends + 1
    /\ stream' = stream \o messages
    /\ UNCHANGED <<ours, knows, linked, flag, chunked, binary, stored, read, taken>>
WriteCheckpoint == ours /\ \E n \in 1..Maximum : Send(Parts(sends + 1, n, flag))
Type == Send(<<Typed(sends + 1)>>)
\* Any message of this protocol, well formed or not.
SendAny ==
    /\ ~ours /\ stream = <<>>
    /\ \E u \in 1..2, from \in 0..ChunkSize, n \in 0..(ChunkSize + 1), final \in BOOLEAN :
          \E m \in {Announce(u, from + n), Frame(u, from, from + n), Chunk(u, from, from + n, final)} :
             Send(<<m>>)

Ready ==
    /\ linked = "up" /\ linked' = "ready" /\ flag' = knows
    /\ UNCHANGED <<ours, knows, stream, chunked, binary, stored, read, taken, sends>>

Connects(known) ==
    /\ linked' = "up" /\ flag' = FALSE /\ knows' = known
    /\ stream' = <<>> /\ chunked' = NoAssembly /\ binary' = NoAssembly
Reconnect ==
    /\ sends < MaxSends /\ sends' = sends + 1
    /\ \E known \in BOOLEAN : Connects(known)
    /\ UNCHANGED <<ours, stored, read, taken>>

-----------------------------------------------------------------------------
(* The broker.  Handling returns the assemblies, what was stored and read, and *)
(* whether the connection goes on. *)

Handled(c, b, s, r, on) == [chunked |-> c, binary |-> b, stored |-> s, read |-> r, on |-> on]
Stays == Handled(chunked, binary, <<>>, <<>>, TRUE)
Stored(a, raw) == <<[upload |-> a.upload, size |-> a.size, bytes |-> a.bytes, raw |-> raw]>>

\* start_binary_checkpoint: what it announces cannot be told from typing unless
\* it is taken in, so the connection ends when it is refused.
Announced(m) ==
    IF binary # NoAssembly \/ m.size = 0 \/ m.size > Maximum
    THEN Handled(NoAssembly, NoAssembly, <<>>, <<>>, FALSE)
    ELSE Handled(NoAssembly, [NoAssembly EXCEPT !.upload = m.upload, !.size = m.size], <<>>, <<>>, TRUE)

LaxFits(a, bytes) == TRUE
Fits(a, bytes) == Len(a.bytes) + Len(bytes) <= a.size

\* append_binary_checkpoint; typing is what has no header of its kind.
Framed(m) ==
    LET whole == [binary EXCEPT !.bytes = @ \o m.bytes]
    IN CASE \/ m.kind # "frame" \/ Len(m.bytes) \notin 1..ChunkSize
            \/ m.upload # binary.upload \/ ~Fits(binary, m.bytes) ->
              Handled(chunked, NoAssembly, <<>>, <<>>, FALSE)
         [] Len(whole.bytes) < binary.size -> Handled(chunked, whole, <<>>, <<>>, TRUE)
         [] OTHER -> Handled(chunked, NoAssembly, Stored(whole, TRUE), <<>>, TRUE)

\* start_checkpoint, append_checkpoint
Appended(m) ==
    LET begun == IF m.offset = 0 THEN [NoAssembly EXCEPT !.upload = m.upload] ELSE chunked
        whole == [begun EXCEPT !.bytes = @ \o m.bytes, !.size = Len(begun.bytes \o m.bytes)]
    IN CASE \/ m.offset = 0 /\ chunked # NoAssembly
            \/ begun = NoAssembly \/ begun.upload # m.upload \/ Len(begun.bytes) # m.offset
            \/ Len(m.bytes) > ChunkSize \/ whole.size > Maximum ->
              [Stays EXCEPT !.chunked = NoAssembly]
         [] m.final -> [Stays EXCEPT !.chunked = NoAssembly, !.stored = Stored(whole, FALSE)]
         [] OTHER -> [Stays EXCEPT !.chunked = whole]

Binary(m) == m.kind \in {"typed", "frame"}
Answer(m) ==
    CASE m.kind = "announce" /\ knows -> Announced(m)
      [] Binary(m) /\ knows /\ binary # NoAssembly -> Framed(m)
      [] Binary(m) /\ ~(knows /\ binary # NoAssembly) -> [Stays EXCEPT !.read = <<m>>]
      [] m.kind = "chunk" -> Appended(m)
      [] OTHER -> Stays         \* an invalid message

Handle ==
    /\ linked = "ready" /\ stream # <<>>
    /\ LET m == Head(stream)
           h == Answer(m)
       IN /\ stored' = stored \o h.stored
          /\ IF ours THEN /\ read' = read \o h.read
                          /\ taken' = IF m.kind = "typed" THEN Append(taken, m) ELSE taken
             ELSE UNCHANGED <<read, taken>>
          /\ IF h.on THEN /\ chunked' = h.chunked /\ binary' = h.binary
                          /\ stream' = Tail(stream)
                          /\ UNCHANGED <<linked, flag, knows>>
             ELSE Connects(knows)
    /\ UNCHANGED <<ours, sends>>

-----------------------------------------------------------------------------
UploadInit ==
    /\ ours \in BOOLEAN /\ knows \in BOOLEAN
    /\ linked = "up" /\ flag = FALSE /\ stream = <<>>
    /\ chunked = NoAssembly /\ binary = NoAssembly
    /\ stored = <<>> /\ read = <<>> /\ taken = <<>> /\ sends = 0
UploadNext == WriteCheckpoint \/ Type \/ SendAny \/ Ready \/ Reconnect \/ Handle
UploadSpec == UploadInit /\ [][UploadNext]_uploadVars

-----------------------------------------------------------------------------
\* A checkpoint that is stored has the size that was announced, at most the
\* maximum.  A browser of this build finds all its bytes in it, in their order; so
\* does any other that sends chunks, whichever it leaves out, repeats or mixes
\* (workspace.rs:1459).
StoredWhole ==
    \A i \in DOMAIN stored :
        LET s == stored[i]
        IN /\ Len(s.bytes) = s.size /\ s.size <= Maximum
           /\ ours \/ ~s.raw => s.bytes = Bytes(s.upload, 0, s.size)

\* What the pty of a browser of this build is given is what was typed, all of it and
\* nothing of a checkpoint (TerminalPane.tsx:1270), whichever broker it reaches.
TypedIsRead == ours => read = taken

UploadSound == StoredWhole /\ TypedIsRead
=============================================================================
