--------------------------- MODULE ScrollbackPages ---------------------------
(***************************************************************************)
(* The output a terminal retains, and how agents read it page by page      *)
(* (terminal_state.rs: DeltaBuffer, TerminalOutputState::scrollback_page). *)
(* The ring holds what was read from the pty, chunk by chunk; a page ends  *)
(* between two chunks, where possible after one that ended outside every   *)
(* escape sequence and character, because the cleaner of a page knows      *)
(* nothing of the page before.                                             *)
(*                                                                         *)
(* A position is a count of bytes; bytes have no value.  `grounds' is      *)
(* history: the ends of chunks outside every sequence; `resized' is where  *)
(* the grid last changed, which makes the code forget them.                *)
(***************************************************************************)
EXTENDS Naturals, Sequences, FiniteSetsExt

CONSTANTS
    RingLimit, ChunkOverhead,   \* maximum_bytes, DELTA_CHUNK_OVERHEAD_BYTES
    FrameBytes,                 \* TERMINAL_OUTPUT_FRAME_BYTES, also the longest read
    MaxSafeSkip,                \* MAX_SAFE_START_SKIP_BYTES
    Limits,                     \* what a reader asks for
    MaxOutput                   \* bound: bytes of output

VARIABLES ring, safe, grounded, grounds, resized, pager
pageVars == <<ring, safe, grounded, grounds, resized, pager>>

\* ring: the chunks and the position after the last; grounded: whether the
\* output ends outside every sequence; pager: the last page a reader got, whose
\* end is its cursor, with the end of the output at that time.
PagesInit ==
    /\ ring = [chunks |-> <<>>, sequence |-> 0]
    /\ safe = {0} /\ grounds = {0}
    /\ grounded = TRUE
    /\ resized = 0
    /\ pager = [started |-> FALSE, requested |-> 0, start |-> 0, end |-> 0,
                latest |-> 0, limit |-> 0, first |-> 0, truncated |-> FALSE,
                clean |-> TRUE]

EndOf(chunk) == chunk.sequence + chunk.len
BytesAfter(chunks, k) == FoldSet(LAMBDA i, sum : sum + chunks[i].len, 0,
                                 k + 1..Len(chunks))
\* charged_bytes, once the first k chunks are gone.
Charged(chunks, k) == BytesAfter(chunks, k) + (Len(chunks) - k) * ChunkOverhead

\* DeltaBuffer::push drops chunks from the front, and the front of a chunk, until
\* what is left and the cost of keeping it fit.
Retained(chunks) ==
    LET over(k) == IF Charged(chunks, k) > RingLimit
                   THEN Charged(chunks, k) - RingLimit ELSE 0
        k    == Min({k \in 0..Len(chunks) :
                        over(k) = 0 \/ chunks[k + 1].len > over(k)})
        rest == SubSeq(chunks, k + 1, Len(chunks))
    IN IF rest = <<>> THEN rest
       ELSE [rest EXCEPT ![1] = [sequence |-> @.sequence + over(k), len |-> @.len - over(k)]]

Earliest(r) == IF r.chunks = <<>> THEN r.sequence ELSE r.chunks[1].sequence

\* publish: one read of the pty, of at most a frame.
Publish(len, ends) ==
    LET cut   == IF len > RingLimit THEN len - RingLimit ELSE 0
        next  == ring.sequence + len
        added == IF len = cut THEN ring.chunks
                 ELSE Append(ring.chunks, [sequence |-> ring.sequence + cut, len |-> len - cut])
    IN /\ next <= MaxOutput
       /\ ring' = [chunks |-> Retained(added), sequence |-> next]
       /\ safe' = {s \in safe : s >= Earliest(ring')} \cup (IF ends THEN {next} ELSE {})
       /\ grounds' = IF ends THEN grounds \cup {next} ELSE grounds
       /\ grounded' = ends
       /\ UNCHANGED <<resized, pager>>

\* resize to another grid.
ChangeGrid ==
    /\ safe' = IF grounded THEN {ring.sequence} ELSE {}
    /\ resized' = ring.sequence
    /\ UNCHANGED <<ring, grounded, grounds, pager>>

\* safe_start_sequence
SafeStart(position) ==
    LET later == {s \in safe : s >= position}
    IN IF later # {} /\ Min(later) <= position + MaxSafeSkip THEN Min(later) ELSE position

\* page_from: the end of the page that starts at a position and has this budget.
\* It has one chunk at least.
BudgetEnd(start, budget) ==
    LET ends == {EndOf(ring.chunks[i]) : i \in DOMAIN ring.chunks}
        left == {e \in ends : e > start}
    IN IF left = {} THEN start
       ELSE Max({e \in left : e = Min(left) \/ e <= start + budget})

EagerSafeEnd(start, end) ==    \* may choose where the page starts
    LET before == {s \in safe : s <= end /\ s >= start}
    IN IF end < ring.sequence /\ before # {} THEN Max(before) ELSE end
\* safe_end_sequence: the last safe position in the page, or the next one after.
SafeEnd(start, end) ==
    LET before == {s \in safe : s <= end}
        after  == {s \in safe : s > end}
    IN IF end >= ring.sequence THEN end
       ELSE IF before # {} /\ Max(before) > start THEN Max(before)
       ELSE IF after # {} /\ Min(after) <= end + FrameBytes THEN Min(after)
       ELSE end

\* scrollback_page, for the cursor of the last page or from the beginning.
ReadPage(limit) ==
    LET earliest  == Earliest(ring)
        requested == IF pager.started THEN pager.end ELSE earliest
        clamped   == Min({Max({requested, earliest}), ring.sequence})
        start     == IF requested <= earliest THEN SafeStart(clamped) ELSE clamped
        end       == BudgetEnd(start, limit)
        safeEnd   == SafeEnd(start, end)
        last      == IF safeEnd = end THEN end ELSE BudgetEnd(start, safeEnd - start)
    IN /\ pager' = [started |-> TRUE, requested |-> requested, start |-> start,
                    end |-> last, latest |-> ring.sequence, limit |-> limit,
                    first |-> BudgetEnd(start, 1) - start,
                    truncated |-> requested < start,
                    clean |-> \/ last \in grounds \/ last = ring.sequence
                              \/ \A g \in grounds :
                                    g <= start \/ g < resized \/ g > end + FrameBytes]
       /\ UNCHANGED <<ring, safe, grounded, grounds, resized>>

PagesNext ==
    \/ \E len \in 1..FrameBytes, ends \in BOOLEAN : Publish(len, ends)
    \/ ChangeGrid
    \/ \E limit \in Limits : ReadPage(limit)

PagesSpec == PagesInit /\ [][PagesNext]_pageVars

-----------------------------------------------------------------------------
\* The ring never costs more than it may, has no gaps up to the last byte of
\* output, and every safe position is the end of a chunk it can replay from.
RingTrue ==
    /\ Charged(ring.chunks, 0) <= RingLimit
    /\ \A i \in DOMAIN ring.chunks :
          EndOf(ring.chunks[i]) = IF i = Len(ring.chunks) THEN ring.sequence
                                  ELSE ring.chunks[i + 1].sequence
    /\ \A s \in safe : /\ s \in grounds \cap Earliest(ring)..ring.sequence
                       /\ s \in {Earliest(ring)} \cup
                                {EndOf(ring.chunks[i]) : i \in DOMAIN ring.chunks}

\* A reader that pages through output while it is trimmed behind it: every page
\* goes on where the last one ended or says that output is gone; one with more
\* to come is not empty; it is longer than asked by no more than a frame; and it
\* ends within a sequence only at the end of the output or when no chunk within
\* a frame ended outside one.
PagesContinue ==
    pager.started =>
        /\ pager.truncated <=> pager.start # pager.requested
        /\ pager.end < pager.latest => pager.end > pager.start
        /\ pager.end <= pager.latest
        /\ pager.end - pager.start <= Max({pager.limit, pager.first}) + FrameBytes
        /\ pager.clean

ScrollbackSound == RingTrue /\ PagesContinue

-----------------------------------------------------------------------------
(***************************************************************************)
(* Two readings of one output, byte by byte: the tracker that decides where*)
(* a page of scrollback may be cut (terminal_state.rs: observe_byte,       *)
(* EscapeSequence::advance) and the cleaner that takes a page's escape     *)
(* sequences out, which starts every page as if outside all of them        *)
(* (history.rs: clean_terminal_text).  A byte is its class; the states are *)
(* finite, so outputs of every length are covered.                         *)
(*                                                                         *)
(* The two differ on a few bytes: CAN or SUB within a CSI, the C1 string   *)
(* terminator within a string, BEL within a string that is no OSC, and BEL *)
(* just after an ESC within an OSC.  `odd' notes that one has come.        *)
(***************************************************************************)

\* C1 bytes (the first four) are continuation bytes of characters too.
C1Bytes      == {"c1 csi", "c1 osc", "c1 string", "c1 st"}
Continuation == C1Bytes \cup {"continuation"}
Leads        == {"lead 2", "lead 3", "lead 4"}
Bytes == Continuation \cup Leads \cup
         {"esc", "bel", "can", "[", "]", "P", "\\", "space", "digit", "m", "newline"}
Finals       == {"[", "]", "P", "\\", "m"}     \* 0x40..0x7e

VARIABLES tracker, cleaner, odd, last
escapeVars == <<tracker, cleaner, odd, last>>

\* expected: bytes a character still lacks; escape: an ESC within a string;
\* last: whether each of the two took the last byte for text.
EscapesInit ==
    /\ tracker = [state |-> "ground", escape |-> FALSE, expected |-> 0]
    /\ cleaner = [state |-> "text", expected |-> 0]
    /\ odd = FALSE
    /\ last = [tracker |-> FALSE, cleaner |-> FALSE]

Lacks(b) == CASE b = "lead 2" -> 1 [] b = "lead 3" -> 2 [] b = "lead 4" -> 3 [] OTHER -> 0

\* After an ESC, for the tracker and for the cleaner.
AfterEscape(b, string, osc, ground) ==
    CASE b = "["               -> "csi"
      [] b = "]"               -> osc
      [] b = "P"               -> string
      [] b = "space"           -> "intermediate"
      [] b = "esc"             -> "escape"
      [] OTHER                 -> ground

AfterIntermediate(b, ground) ==
    CASE b = "space" -> "intermediate" [] b = "esc" -> "escape" [] OTHER -> ground

\* EscapeSequence::advance
Advance(t, b) ==
    LET to(state) == [t EXCEPT !.state = state, !.escape = FALSE]
    IN CASE t.state = "ground" ->
              to(CASE b = "esc" -> "escape" [] b = "c1 csi" -> "csi" [] b = "c1 osc" -> "osc"
                   [] b = "c1 string" -> "string" [] OTHER -> "ground")
         [] t.state = "escape"       -> to(AfterEscape(b, "string", "osc", "ground"))
         [] t.state = "intermediate" -> to(AfterIntermediate(b, "ground"))
         [] t.state = "csi" ->
              to(IF b = "can" \/ b \in Finals THEN "ground"
                 ELSE IF b = "esc" THEN "escape" ELSE "csi")
         [] OTHER ->
              IF \/ b = "c1 st"
                 \/ b = "\\" /\ t.escape
                 \/ b = "bel" /\ t.state = "osc"
              THEN to("ground")
              ELSE [t EXCEPT !.escape = (b = "esc")]

\* observe_byte: within a character only its continuation is not a control.
Observe(t, b) ==
    IF t.state = "ground" /\ t.expected > 0 /\ b \in Continuation
    THEN [t EXCEPT !.expected = @ - 1]
    ELSE IF t.state = "ground" /\ Lacks(b) > 0 THEN [t EXCEPT !.expected = Lacks(b)]
    ELSE Advance([t EXCEPT !.expected = 0], b)

\* can_store_browser_checkpoint: a page may end here.
Grounded(t) == t.state = "ground" /\ t.expected = 0

ControlsFirst(c, b) ==      \* looks for controls before it looks for characters
    IF c.state = "text" /\ b \in C1Bytes \ {"c1 st"}
    THEN [state |-> IF b = "c1 csi" THEN "csi" ELSE "string", expected |-> 0]
    ELSE [c EXCEPT !.expected = IF @ > 0 THEN @ - 1 ELSE Lacks(b)]
\* clean_terminal_text outside every sequence.
CleanText(c, b) ==
    IF c.expected > 0 /\ b \in Continuation THEN [c EXCEPT !.expected = @ - 1]
    ELSE CASE b = "esc"                    -> [state |-> "escape", expected |-> 0]
           [] b = "c1 csi"                 -> [state |-> "csi", expected |-> 0]
           [] b \in {"c1 osc", "c1 string"} -> [state |-> "string", expected |-> 0]
           [] OTHER                        -> [state |-> "text", expected |-> Lacks(b)]

\* clean_terminal_text: one byte.
Clean(c, b) ==
    LET to(state) == [c EXCEPT !.state = state]
    IN CASE c.state = "text"         -> CleanText(c, b)
         [] c.state = "escape"       -> to(AfterEscape(b, "string", "string", "text"))
         [] c.state = "intermediate" -> to(AfterIntermediate(b, "text"))
         [] c.state = "csi" ->
              to(IF b = "esc" THEN "escape" ELSE IF b \in Finals THEN "text" ELSE "csi")
         [] c.state = "string" ->
              to(CASE b = "bel" -> "text" [] b = "esc" -> "string escape" [] OTHER -> "string")
         [] c.state = "string escape" ->
              to(CASE b = "\\" -> "text" [] b = "esc" -> "string escape" [] OTHER -> "string")

\* The next byte of output.
Byte(b) ==
    /\ tracker' = Observe(tracker, b)
    /\ cleaner' = Clean(cleaner, b)
    /\ last' = [tracker |-> tracker.state = "ground" /\ tracker'.state = "ground",
                cleaner |-> cleaner.state = "text" /\ cleaner'.state = "text"]
    /\ odd' = \/ odd
              \/ b = "can" /\ tracker.state = "csi"
              \/ b = "c1 st" /\ tracker.state \in {"osc", "string"}
              \/ b = "bel" /\ (tracker.state = "string" \/ tracker.escape)

EscapesNext == \E b \in Bytes : Byte(b)
EscapesSpec == EscapesInit /\ [][EscapesNext]_escapeVars

-----------------------------------------------------------------------------
\* Where the tracker lets a page end, the cleaner of the next page is right to
\* start outside every sequence and character, and what is text to one is text
\* to the other, so that no control string swallows what follows it.
PagesCutBetween ==
    ~odd => /\ Grounded(tracker) <=> cleaner = [state |-> "text", expected |-> 0]
            /\ last.tracker = last.cleaner
=============================================================================
