----------------------------- MODULE PromptCapture -----------------------------
(***************************************************************************)
(* What a user is typing to an agent, gathered from the keys sent to the   *)
(* terminal (terminal.rs: PromptCapture).  Keys are editing commands, parts*)
(* of escape sequences and control strings, or text; a paste is bracketed  *)
(* by two sequences.  The number in a sequence is one token here.          *)
(***************************************************************************)
EXTENDS Naturals, Sequences, SequencesExt

CONSTANTS MaxCapturedPrompt,    \* MAX_CAPTURED_PROMPT_CHARS
          MaxEscape             \* tokens an escape sequence may have

VARIABLES line, cursor, escape, paste, sent
promptVars == <<line, cursor, escape, paste, sent>>

Numbers  == {"200", "201", "3", "2"}
Finals   == {"x", "[", "O", "]", "P", "\\", "~", "H", "D", "C"}    \* '@'..'~'
Text     == Finals \cup Numbers \cup {"blank"}
Keys     == Text \cup {"enter", "esc", "bel", "^A", "^E", "^U", "^Q", "^W", "^H", "^D"}

NoEscape == [kind |-> "none"]
\* What a character of the line is: blank or not; a line end is blank.
Character(k) == IF k \in {"blank", "enter"} THEN "blank" ELSE "x"

PromptInit == /\ line = <<>> /\ cursor = 0 /\ sent = <<>>
              /\ escape = NoEscape /\ paste = FALSE

Stays == UNCHANGED <<line, cursor, sent, paste>>

\* insert
Insert(k) ==
    /\ IF Len(line) >= MaxCapturedPrompt THEN UNCHANGED <<line, cursor>>
       ELSE /\ line' = InsertAt(line, cursor + 1, Character(k))
            /\ cursor' = cursor + 1
    /\ UNCHANGED <<sent, paste>>

DeleteBefore ==
    /\ IF cursor = 0 THEN UNCHANGED <<line, cursor>>
       ELSE line' = RemoveAt(line, cursor) /\ cursor' = cursor - 1
    /\ UNCHANGED <<sent, paste>>

DeleteAt ==
    /\ line' = IF cursor < Len(line) THEN RemoveAt(line, cursor + 1) ELSE line
    /\ UNCHANGED <<cursor, sent, paste>>

\* delete_previous_word: the blanks before the cursor, then all before them up
\* to the next blank.
DeleteWord ==
    LET words == {i \in 1..cursor : line[i] # "blank"}
        last  == IF words = {} THEN 0 ELSE CHOOSE i \in words : \A j \in words : j <= i
        left  == {i \in 0..last : /\ i = 0 \/ line[i] = "blank"
                                  /\ \A j \in i + 1..last : line[j] # "blank"}
        k     == CHOOSE i \in left : TRUE
    IN /\ line' = SubSeq(line, 1, k) \o SubSeq(line, cursor + 1, Len(line))
       /\ cursor' = k
       /\ UNCHANGED <<sent, paste>>

MoveTo(position) == cursor' = position /\ UNCHANGED <<line, sent, paste>>

Empty == line' = <<>> /\ cursor' = 0 /\ paste' = paste

\* What a sequence says so far, and how far it makes an arrow go (csi_count).
Extended(number, k) ==
    IF k \notin Numbers \/ number = "other" THEN "other"
    ELSE IF number = "" THEN k ELSE "many"
Count(number) == CASE number = "2" -> 2 [] number = "3" -> 3
                   [] number \in {"200", "201", "many"} -> 200 [] OTHER -> 1

\* apply_escape: intro is '[' or 'O', number what came between, if anything.
ApplyEscape(intro, number, final) ==
    CASE intro = "[" /\ number = "200" /\ final = "~" -> /\ paste' = TRUE
                                                         /\ UNCHANGED <<line, cursor, sent>>
      [] intro = "[" /\ number = "201" /\ final = "~" -> /\ paste' = FALSE
                                                         /\ UNCHANGED <<line, cursor, sent>>
      [] intro = "[" /\ number = "3" /\ final = "~"   -> DeleteAt
      [] number = "" /\ final = "H"                   -> MoveTo(0)
      [] final = "D" -> MoveTo(IF Count(number) > cursor THEN 0 ELSE cursor - Count(number))
      [] final = "C" -> MoveTo(IF cursor + Count(number) > Len(line) THEN Len(line)
                               ELSE cursor + Count(number))
      [] OTHER       -> Stays

EagerEnter(k) == Empty /\ sent' = line      \* forgets that it is in a paste
\* A line end submits the line, but within a paste it is text.
Enter(k) == IF paste THEN Insert(k) ELSE Empty /\ sent' = line

\* observe_character outside every sequence.
Plain(k) ==
    IF k = "esc" THEN escape' = [kind |-> "escape"] /\ Stays
    ELSE /\ escape' = NoEscape
         /\ CASE k = "enter" -> Enter(k)
              [] k = "^A"    -> MoveTo(0)
              [] k = "^E"    -> MoveTo(Len(line))
              [] k = "^U"    -> Empty /\ sent' = sent
              [] k = "^Q"    -> /\ line' = SubSeq(line, 1, cursor)
                                /\ UNCHANGED <<cursor, sent, paste>>
              [] k = "^W"    -> DeleteWord
              [] k = "^H"    -> DeleteBefore
              [] k = "^D"    -> DeleteAt
              [] k = "bel"   -> Stays
              [] OTHER       -> Insert(k)

\* After an ESC: a sequence or a string begins, a line end is text, and anything
\* else is read as if there had been no ESC.
Escaped(k) ==
    CASE k \in {"[", "O"} ->
            escape' = [kind |-> "sequence", intro |-> k, number |-> "", tokens |-> 2] /\ Stays
      [] k \in {"]", "P"} ->
            escape' = [kind |-> "string", bell |-> k = "]", escaped |-> FALSE] /\ Stays
      [] k = "enter" -> escape' = NoEscape /\ Insert(k)
      [] OTHER       -> Plain(k)

\* Within a sequence: it ends at a final, or after one character that follows
\* ESC O, and is given up when it is too long.
InSequence(k) ==
    IF escape.intro = "O" /\ k \in {"200", "201"}      \* all but its first digit is text
    THEN escape' = NoEscape /\ Insert(k)
    ELSE IF k \in Finals \/ escape.intro = "O"
    THEN escape' = NoEscape /\ ApplyEscape(escape.intro, escape.number, k)
    ELSE /\ escape' = IF escape.tokens + 1 > MaxEscape THEN NoEscape
                      ELSE [escape EXCEPT !.tokens = @ + 1, !.number = Extended(@, k)]
         /\ Stays

InString(k) ==
    /\ escape' = IF (escape.bell /\ k = "bel") \/ (escape.escaped /\ k = "\\")
                 THEN NoEscape
                 ELSE [escape EXCEPT !.escaped = (k = "esc")]
    /\ Stays

\* observe_character
Key(k) == CASE escape.kind = "none"     -> Plain(k)
            [] escape.kind = "escape"   -> Escaped(k)
            [] escape.kind = "sequence" -> InSequence(k)
            [] escape.kind = "string"   -> InString(k)

PromptNext == \E k \in Keys : Key(k)
PromptSpec == PromptInit /\ [][PromptNext]_promptVars

-----------------------------------------------------------------------------
\* The cursor stays within the line, outside which the code would panic, and the
\* line within its limit.
PromptTypeOK == cursor \in 0..Len(line) /\ Len(line) <= MaxCapturedPrompt

\* The captured prompt is the line the keys edit, whatever sequences come
\* between them, and what is submitted is what stood there.  See LineEditor.
Editor == INSTANCE LineEditor WITH Characters <- {"x", "blank"}, Blank <- "blank",
                                   MaxCharacters <- MaxCapturedPrompt,
                                   before <- SubSeq(line, 1, cursor),
                                   after <- SubSeq(line, cursor + 1, Len(line))
EditsLine == Editor!Spec

\* Within a bracketed paste a line end is text: nothing is submitted.
PasteSubmitsNothing == [][paste /\ paste' => sent' = sent]_promptVars

PromptSound == EditsLine /\ PasteSubmitsNothing
=============================================================================
