----------------------------- MODULE EmulatorState -----------------------------
(***************************************************************************)
(* What the broker's terminal emulator keeps besides the cells, and how it *)
(* is restored (CanonicalTerminal, KittyKeyboardState, ExecutionState and  *)
(* ReflowPlan in terminal_state.rs).                                       *)
(*                                                                         *)
(* A snapshot is a sequence of control sequences that another emulator is  *)
(* to replay; a resize replays one into a new emulator of the new size.    *)
(* Cells, cursor positions and the title are the vt100 library's.  A       *)
(* control sequence is a record that tells what it asks for, and an        *)
(* emulator handles whole ones: where the output is cut is left out.       *)
(***************************************************************************)
EXTENDS Naturals, Sequences, SequencesExt, FiniteSetsExt

CONSTANTS StackLimit,       \* KITTY_KEYBOARD_STACK_LIMIT
          MaxAttributes,    \* attributes within MAX_TRACKED_SGR_BYTES
          MaxReceived       \* bound

VARIABLES
    term,       \* [alt, input, exec, kitty, normal, entry]
    twin,       \* {}, or {the emulator that replayed a snapshot of term}
    received

emulatorVars == <<term, twin, received>>

Mode(mode, on) == [op |-> "mode", mode |-> mode, on |-> on]
Alternate(entry, on) == [op |-> "alternate", entry |-> entry, on |-> on]
Region(region) == [op |-> "region", region |-> region]
Graphics(name, clears) == [op |-> "sgr", name |-> name, clears |-> clears]
Plain == Graphics("plain", TRUE)
SetFlags(flags, how) == [op |-> "flags", flags |-> flags, how |-> how]
PushFlags(flags) == [op |-> "push", flags |-> flags]

Tracking == <<"press", "pressRelease", "buttons", "motion">>    \* 9, 1000, 1002, 1003
Encodings == {"sgr", "pixels"}                                  \* 1006, 1016
Switches == <<"insert", "wrap", "reverse", "focus", "scroll">>  \* 4, 7, 45, 1004, 1007
Synchronized == "synchronized"                                  \* 2026

Is(s, op) == s.op = op
Sets(s, modes) == s.op = "mode" /\ s.mode \in modes
Enters(s) == s.op = "alternate" /\ s.on
Exits(s) == s.op = "alternate" /\ ~s.on

-----------------------------------------------------------------------------
\* The library's input modes: a tracking mode is reset only by its own number.
NewInput == [tracking |-> "none", paste |-> FALSE]
ObserveInput(input, s) ==
    CASE Is(s, "reset") -> NewInput
      [] Sets(s, {"paste"}) -> [input EXCEPT !.paste = s.on]
      [] Sets(s, ToSet(Tracking)) /\ s.on -> [input EXCEPT !.tracking = s.mode]
      [] Sets(s, {input.tracking}) /\ ~s.on -> [input EXCEPT !.tracking = "none"]
      [] OTHER -> input

NewKitty == [flags |-> {}, kept |-> [main |-> {}, alt |-> {}],
             stack |-> [main |-> <<>>, alt |-> <<>>]]
Buffer(alternate) == IF alternate THEN "alt" ELSE "main"
ObserveKitty(k, s, alternate) ==
    LET b == Buffer(alternate)
        left(n) == SubSeq(k.stack[b], 1, Len(k.stack[b]) - n)
    IN CASE Is(s, "reset") -> NewKitty
         [] Enters(s) -> [k EXCEPT !.kept.main = k.flags, !.flags = k.kept.alt]
         [] Exits(s) -> [k EXCEPT !.kept.alt = k.flags, !.flags = k.kept.main]
         [] Is(s, "flags") -> [k EXCEPT !.flags = CASE s.how = "set" -> s.flags
                                                    [] s.how = "add" -> @ \cup s.flags
                                                    [] s.how = "drop" -> @ \ s.flags]
         [] Is(s, "push") ->
              [k EXCEPT !.stack[b] = Append(IF Len(@) >= StackLimit THEN Tail(@) ELSE @, k.flags),
                        !.flags = s.flags]
         [] Is(s, "pop") ->
              [k EXCEPT !.stack[b] = left(s.count),
                        !.flags = IF left(s.count) = <<>> THEN {}
                                  ELSE k.stack[b][Len(left(s.count)) + 1]]
         [] OTHER -> k

NewExecution == [modes |-> {"wrap"}, mouse |-> "default", region |-> "full", style |-> 0,
                 origin |-> FALSE, attrs |-> <<>>, saved |-> {}]
ObserveGraphics(attrs, s) ==
    LET kept == IF s.clears THEN <<>> ELSE attrs IN
    IF s = Plain THEN <<>> ELSE Append(IF Len(kept) >= MaxAttributes THEN <<>> ELSE kept, s)
ObserveExecution(e, s) ==
    CASE Is(s, "reset") \/ Is(s, "softReset") -> NewExecution
      [] Is(s, "save") -> [e EXCEPT !.saved = {[origin |-> e.origin, attrs |-> e.attrs]}]
      [] Is(s, "restore") /\ e.saved # {} ->
           LET saved == CHOOSE c \in e.saved : TRUE IN
           [e EXCEPT !.origin = saved.origin, !.attrs = saved.attrs]
      [] Is(s, "region") -> [e EXCEPT !.region = s.region]
      [] Is(s, "style") -> [e EXCEPT !.style = s.style]
      [] Is(s, "sgr") -> [e EXCEPT !.attrs = ObserveGraphics(@, s)]
      [] Sets(s, {"origin"}) -> [e EXCEPT !.origin = s.on]
      [] Sets(s, Encodings) -> [e EXCEPT !.mouse = IF s.on THEN s.mode ELSE "default"]
      [] Sets(s, ToSet(Switches) \cup {Synchronized}) ->
           [e EXCEPT !.modes = IF s.on THEN @ \cup {s.mode} ELSE @ \ {s.mode}]
      [] OTHER -> e

Fresh == [alt |-> FALSE, input |-> NewInput, exec |-> NewExecution, kitty |-> NewKitty,
          normal |-> {}, entry |-> {}]

(***************************************************************************)
(* process, for one control sequence.  What the normal screen had is kept  *)
(* when the alternate one is entered; leaving takes it back, even when the *)
(* terminal was reset meanwhile.                                           *)
(***************************************************************************)
Process(t, s) ==
    LET alternate == IF s.op \in {"alternate", "reset"} THEN Enters(s) ELSE t.alt
        entered == Enters(s) /\ ~t.alt
        exec == ObserveExecution(t.exec, s)
    IN [alt |-> alternate,
        input |-> ObserveInput(t.input, s),
        exec |-> IF Exits(s) /\ t.normal # {} THEN (CHOOSE n \in t.normal : TRUE).exec ELSE exec,
        kitty |-> ObserveKitty(t.kitty, s, alternate),
        normal |-> CASE entered -> {[input |-> t.input, exec |-> t.exec]}
                     [] Exits(s) -> {}
                     [] OTHER -> t.normal,
        entry |-> CASE entered -> {s.entry} [] Exits(s) -> {} [] OTHER -> t.entry]

Replayed(sequences) == FoldLeft(Process, Fresh, sequences)

-----------------------------------------------------------------------------
WriteFlags(flags, stack) ==
    IF stack = <<>> THEN IF flags = {} THEN <<>> ELSE <<SetFlags(flags, "set")>>
    ELSE <<SetFlags(Head(stack), "set")>>
         \o [i \in DOMAIN stack |-> PushFlags(Append(Tail(stack), flags)[i])]

\* Which flags are a buffer's depends on which buffer is active.
HastyFlags(k, alternate, active) == k.flags
FlagsOf(k, alternate, active) ==
    IF alternate = active THEN k.flags ELSE k.kept[Buffer(alternate)]
WriteBuffer(k, alternate, active) ==
    WriteFlags(FlagsOf(k, alternate, active), k.stack[Buffer(alternate)])
WriteHiddenAlternate(k) ==
    IF k.kept.alt = {} /\ k.stack.alt = <<>> THEN <<>>
    ELSE <<Alternate("47", TRUE)>> \o WriteBuffer(k, TRUE, FALSE) \o <<Alternate("47", FALSE)>>

WriteEncoding(mouse) ==
    CASE mouse = "default" -> <<Mode("sgr", FALSE), Mode("pixels", FALSE)>>
      [] mouse = "sgr" -> <<Mode("pixels", FALSE), Mode("sgr", TRUE)>>
      [] mouse = "pixels" -> <<Mode("sgr", FALSE), Mode("pixels", TRUE)>>
WriteSaved(e) ==
    IF e.saved = {} THEN <<>>
    ELSE LET saved == CHOOSE c \in e.saved : TRUE IN
         <<Region(e.region), Mode("origin", saved.origin), Plain>> \o saved.attrs
         \o <<[op |-> "save"]>>
\* Synchronized output is not restored.
WriteExecution(e) ==
    WriteSaved(e)
    \o [i \in DOMAIN Switches |-> Mode(Switches[i], Switches[i] \in e.modes)]
    \o WriteEncoding(e.mouse)
    \o <<Region(e.region), Mode("origin", e.origin), [op |-> "style", style |-> e.style], Plain>>
    \o e.attrs

\* The library writes no reset of mouse tracking.
FormattedInput(input) ==
    <<Mode("paste", input.paste)>>
    \o IF input.tracking = "none" THEN <<>> ELSE <<Mode(input.tracking, TRUE)>>
BareInputModes(input) == FormattedInput(input)
WriteInputModes(input) ==
    [i \in DOMAIN Tracking |-> Mode(Tracking[i], FALSE)] \o FormattedInput(input)

WriteScreen(s) == FormattedInput(s.input) \o WriteInputModes(s.input) \o WriteExecution(s.exec)

Snapshot(t) ==
    IF t.alt
    THEN WriteScreen(CHOOSE n \in t.normal : TRUE) \o WriteBuffer(t.kitty, FALSE, TRUE)
         \o <<Alternate(CHOOSE e \in t.entry : TRUE, TRUE)>>
         \o WriteScreen(t) \o WriteBuffer(t.kitty, TRUE, TRUE)
    ELSE WriteScreen(t) \o WriteBuffer(t.kitty, FALSE, FALSE) \o WriteHiddenAlternate(t.kitty)

\* A resize sets the scroll region to the whole viewport.
Remapped(e) == [e EXCEPT !.region = "full"]
ResizeSnapshot(t) ==
    IF t.alt
    THEN WriteExecution(Remapped((CHOOSE n \in t.normal : TRUE).exec))
         \o WriteBuffer(t.kitty, FALSE, TRUE)
         \o <<Alternate(CHOOSE e \in t.entry : TRUE, TRUE)>>
         \o WriteInputModes(t.input) \o WriteExecution(Remapped(t.exec))
         \o WriteBuffer(t.kitty, TRUE, TRUE)
    ELSE WriteInputModes(t.input) \o WriteExecution(Remapped(t.exec))
         \o WriteBuffer(t.kitty, FALSE, FALSE) \o WriteHiddenAlternate(t.kitty)
Resized(t) == Replayed(ResizeSnapshot(t))

\* The answer to a query of a mode: 1 or 2.
Queried == ToSet(Tracking) \cup Encodings \cup {"insert", "wrap", "reverse", "focus",
                                               "origin", "paste", "alternate"}
Status(t, mode) ==
    IF \/ mode \in t.exec.modes \cup {t.input.tracking, t.exec.mouse}
       \/ mode = "origin" /\ t.exec.origin
       \/ mode = "paste" /\ t.input.paste
       \/ mode = "alternate" /\ t.alt
    THEN 1 ELSE 2

-----------------------------------------------------------------------------
\* What a terminal leaves open: a screen that is entered twice or left twice, and a
\* cursor that is restored and was not saved.
Unusual(s) == \/ s.op = "alternate" /\ s.on = term.alt
              \/ Is(s, "restore") /\ term.exec.saved = {}

Receive(s) ==
    /\ received < MaxReceived /\ received' = received + 1
    /\ term' = Process(term, s)
    /\ twin' = IF Unusual(s) THEN {} ELSE {Process(t, s) : t \in twin}
Restore ==
    /\ twin = {} /\ twin' = {Replayed(Snapshot(term))}
    /\ UNCHANGED <<term, received>>
Resize ==
    /\ received < MaxReceived /\ received' = received + 1
    /\ term' = Resized(term) /\ twin' = {Resized(t) : t \in twin}

\* Programs that read keys, and programs that draw.
KeyboardSequences ==
    {Alternate("1049", TRUE), Alternate("47", TRUE), Alternate("1049", FALSE),
     SetFlags({1}, "add"), SetFlags({1}, "drop"), SetFlags({2}, "set"), PushFlags({1}),
     PushFlags({2}), [op |-> "pop", count |-> 1], [op |-> "pop", count |-> 2], [op |-> "reset"]}
ScreenSequences ==
    {Alternate("47", TRUE), Alternate("47", FALSE), Mode("motion", TRUE),
     Mode("motion", FALSE), Mode("pixels", TRUE), Mode("sgr", TRUE), Mode("sgr", FALSE),
     Mode("paste", TRUE), Mode("insert", TRUE), Mode(Synchronized, TRUE),
     Mode("origin", TRUE), Region("part"), [op |-> "save"], [op |-> "restore"],
     [op |-> "softReset"], [op |-> "reset"], Graphics("bold", FALSE), Graphics("red", TRUE), Plain}

EmulatorInit == term = Fresh /\ twin = {} /\ received = 0
KeyboardNext == (\E s \in KeyboardSequences : Receive(s)) \/ Restore \/ Resize
ScreenNext == (\E s \in ScreenSequences : Receive(s)) \/ Restore \/ Resize
EmulatorSpec == EmulatorInit /\ [][KeyboardNext \/ ScreenNext]_emulatorVars

\* What programs and users can tell an emulator by.
Looks(t) == [answers |-> [mode \in Queried |-> Status(t, mode)],
             scroll |-> "scroll" \in t.exec.modes, flags |-> t.kitty.flags,
             region |-> t.exec.region, style |-> t.exec.style, attrs |-> t.exec.attrs]

\* An emulator that replays a snapshot answers, draws and encodes keys as the one
\* that it was taken of, then and after whatever both receive next: what the hidden
\* screen keeps and the saved cursor are restored too (snapshot, write_restore).
TwinsAlike == \A t \in twin : Looks(t) = Looks(term)

\* A resize changes nothing but the scroll region (resize, resize_snapshot).
ResizeKeeps == Looks(Resized(term)) = [Looks(term) EXCEPT !.region = "full"]

EmulatorSound == TwinsAlike /\ ResizeKeeps

-----------------------------------------------------------------------------
(***************************************************************************)
(* Where a resize moves the cells.  The rows of the scrollback and of the  *)
(* screen, in one sequence, are known by how many cells they hold and by   *)
(* whether they wrap into the next one; cells are all of one column.       *)
(***************************************************************************)
CONSTANTS MaxWidth, MaxRows     \* bounds

VARIABLE grid       \* [rows, from: columns, to: new columns, height: new rows]

Wraps(i) == grid.rows[i].wrapped
Flow(i) == IF Wraps(i) THEN grid.from ELSE grid.rows[i].width

\* The groups of rows that wrap, by their first rows
Starts == {i \in DOMAIN grid.rows : i = 1 \/ ~Wraps(i - 1)}
GroupOf(i) == Max({s \in Starts : s <= i})
FlatHeight(width) == (width + grid.to - 1) \div grid.to
Height(width) == IF width = 0 THEN 1 ELSE (width + grid.to - 1) \div grid.to
TargetHeight(s) == Height(MapThenSumSet(Flow, {i \in DOMAIN grid.rows : GroupOf(i) = s}))
TargetStart(s) == MapThenSumSet(TargetHeight, {x \in Starts : x < s})
TotalRows == MapThenSumSet(TargetHeight, Starts)

\* A row's place in the new viewport; rows above it are at its top.
InViewport(row, total) ==
    LET base == IF total > grid.height THEN total - grid.height ELSE 0 IN
    IF row > base THEN Min({row - base, grid.height - 1}) ELSE 0

MapPosition(i, col) ==
    LET offset == (i - GroupOf(i)) * grid.from + col
        pendingWrap == col >= grid.from /\ offset % grid.to = 0
        row == TargetStart(GroupOf(i)) + offset \div grid.to - (IF pendingWrap THEN 1 ELSE 0)
    IN <<InViewport(row, TotalRows), IF pendingWrap THEN grid.to ELSE offset % grid.to>>

\* The bytes of the plan: cells, row by row, and a new line after each group.
NewLine == <<0, 0>>
Cells(i) == [j \in 1..Flow(i) |-> <<i, j - 1>>]
Output == FlattenSeq([i \in DOMAIN grid.rows |->
                         IF Wraps(i) \/ i = Len(grid.rows) THEN Cells(i)
                         ELSE Append(Cells(i), NewLine)])

\* Another row of the source
Row == [wrapped : {TRUE}, width : {grid.from}] \cup [wrapped : {FALSE}, width : 0..grid.from]
FillRow(row) ==
    /\ Len(grid.rows) < MaxRows
    /\ grid' = [grid EXCEPT !.rows = Append(@, row)]

GridInit == grid \in [rows : {<<>>}, from : 1..MaxWidth, to : 1..MaxWidth, height : {1, 2}]
GridNext == \E row \in Row : FillRow(row)
GridSpec == GridInit /\ [][GridNext]_grid

\* A terminal that prints the plan's bytes: where the cursor is, and where each cell
\* went.  A cell after the last column goes to the next row.
Put(p, cell) ==
    IF cell = NewLine THEN [p EXCEPT !.row = @ + 1, !.col = 0]
    ELSE LET place == IF p.col = grid.to THEN <<p.row + 1, 0>> ELSE <<p.row, p.col>> IN
         [row |-> place[1], col |-> place[2] + 1, at |-> p.at \cup {<<cell, place>>}]
Printed == FoldLeft(Put, [row |-> 0, col |-> 0, at |-> {}], Output)

\* The saved cursor and the cursor stay with the cell they were at, or behind the
\* last cell of a full row, wherever the cells go (map_position).
CursorFollows ==
    LET printed == Printed IN
    \A p \in printed.at :
        LET cell == p[1] place == p[2]
            there(col) == <<InViewport(place[1], printed.row + 1), col>>
        IN /\ MapPosition(cell[1], cell[2]) = there(place[2])
           /\ cell[2] = grid.from - 1 => MapPosition(cell[1], grid.from) = there(place[2] + 1)
=============================================================================
