---------------------------- MODULE AgentDetection ----------------------------
(***************************************************************************)
(* How the state of a coding agent is read off its terminal: by rules over *)
(* regions of the screen (agent_detection.rs), from the titles and the     *)
(* progress it reports (TerminalSignals::observe_osc), and from the hooks  *)
(* it calls (agent_events.rs).                                             *)
(*                                                                         *)
(* A line of the screen is a run of horizontal strokes, of a length, and   *)
(* what follows it.  A needle is a word in small letters, a regular        *)
(* expression the set of words it finds.  An agent has one manifest, with  *)
(* a local override or without; the agents' manifests are independent.     *)
(***************************************************************************)
EXTENDS Naturals, Sequences, SequencesExt, FiniteSets, FiniteSetsExt, Functions

CONSTANTS EngineVersion, MaxRules, MaxGateDepth, MaxTotalGates,
          MaxMatchersPerGate, MaxTotalMatchers,     \* the code's limits
          TailBytes,                                \* TITLE_SCAN_BYTES
          MaxLines, MaxShown, MaxTitles             \* bounds

VARIABLES
    screen,     \* the lines on the screen
    loaded,     \* the manifest in use
    found,      \* history: what was where its override would be
    signals,    \* TerminalSignals, but for its buffer
    said,       \* history: the last two titles and progress reports
    titles,     \* the file in which the agent keeps the names of its chats
    event       \* what the last hook delivered, in a set

screenVars == screen
manifestVars == <<loaded, found>>
signalVars == <<signals, said>>
hookVars == <<titles, event>>
detectionVars == <<screen, loaded, found, signals, said, titles, event>>

-----------------------------------------------------------------------------
\* The screen and its regions.
Line(strokes, rest) == [strokes |-> strokes, rest |-> rest]
Blank == Line(0, "")
Lines == {Blank, Line(1, ""), Line(3, "busy"), Line(2, "busy"), Line(0, "BUSY"),
          Line(0, "prompt")}
Lower(word) == IF word = "BUSY" THEN "busy" ELSE word

\* is_horizontal_rule
HorizontalRule(line) == line.strokes > 0 /\ (line.rest = "" \/ line.strokes >= 3)
\* codex_prompt_line
PromptLine(line) == line = Line(0, "prompt")

Places(s, Test(_)) == {i \in DOMAIN s : Test(s[i])}
NonEmpty(line) == line # Blank
\* slice_from_line, slice_to_line: the lines from i on, and those before i.
FromLine(s, i) == SubSeq(s, i, Len(s))
ToLine(s, i) == SubSeq(s, 1, i - 1)
After(s, places) == IF places = {} THEN s ELSE FromLine(s, Max(places) + 1)

BottomLines(s, n) == FromLine(s, Max({1, (Len(s) + 1) - n}))
\* From the n-th last line that is not empty, and up to the n-th first one.
BottomNonEmpty(s, n) ==
    LET places == Places(s, NonEmpty)
        within == {p \in places : Cardinality({q \in places : q >= p}) <= n}
    IN  IF places = {} THEN <<>> ELSE FromLine(s, Min(within))
TopNonEmpty(s, n) ==
    LET places == Places(s, NonEmpty)
        within == {p \in places : Cardinality({q \in places : q <= p}) <= n}
    IN  IF places = {} THEN <<>> ELSE ToLine(s, Max(within) + 1)

AfterPrompt(s) == After(s, Places(s, PromptLine))
AfterRule(s) == After(s, Places(s, HorizontalRule))

\* Mutant: the first of all rules is taken for the top border.
FirstBorder(s) == LET rules == Places(s, HorizontalRule) IN
    IF Cardinality(rules) < 2 THEN {} ELSE {Min(rules)}
\* The last rule but one, in a set: the top border of the prompt box.
TopBorder(s) == LET rules == Places(s, HorizontalRule) IN
    IF Cardinality(rules) < 2 THEN {} ELSE {Max(rules \ {Max(rules)})}
\* Down to the next rule; in a set.
BoxBody(s) == {LET below == {i \in Places(s, HorizontalRule) : i > top}
               IN  SubSeq(s, top + 1, Min(below) - 1) : top \in TopBorder(s)}
AboveBox(s) == IF TopBorder(s) = {} THEN s ELSE ToLine(s, Min(TopBorder(s)))
LastNonEmpty(s) == LET places == Places(s, NonEmpty) IN
    IF places = {} THEN <<>> ELSE <<s[Max(places)]>>

Region(name, count) == [name |-> name, count |-> count]
Plainly == {"title", "progress", "whole", "after prompt", "after rule", "box", "above",
            "last above"}
Counted == {"bottom lines", "bottom", "top"}
MaxCount == 65535
\* validate_region and region_count
KnownRegion(r) == \/ r.name \in Plainly /\ r.count = 0
                  \/ r.name \in Counted /\ r.count \in 1..MaxCount
\* region: what a rule is matched against.
RegionText(s, sig, r) ==
    CASE r.name = "title"        -> sig.title
      [] r.name = "progress"     -> sig.progress
      [] r.name = "whole"        -> s
      [] r.name = "after prompt" -> AfterPrompt(s)
      [] r.name = "after rule"   -> AfterRule(s)
      [] r.name = "box"          -> IF BoxBody(s) = {} THEN <<>>
                                    ELSE CHOOSE body \in BoxBody(s) : TRUE
      [] r.name = "above"        -> AboveBox(s)
      [] r.name = "last above"   -> LastNonEmpty(AboveBox(s))
      [] r.name = "bottom lines" -> BottomLines(s, r.count)
      [] r.name = "bottom"       -> BottomNonEmpty(s, r.count)
      [] r.name = "top"          -> TopNonEmpty(s, r.count)

Shows(line) == screen' = Append(IF Len(screen) = MaxLines THEN Tail(screen) ELSE screen,
                                line)
ScreenNext == (\E line \in Lines : Shows(line)) /\ UNCHANGED <<manifestVars, signalVars, hookVars>>

\* The screen is cut at the last two rules into what is above the box, the box and
\* what is below, borders aside; without two rules there is no box, and all of it
\* is above.  A region of n lines that are not empty has that many, if there are,
\* and ends at one (prompt_box_body, above_prompt_box, after_last_horizontal_rule,
\* bottom_non_empty_lines, top_non_empty_lines).
Count(s) == Cardinality(Places(s, NonEmpty))
RegionsPart ==
    LET rules == Places(screen, HorizontalRule) IN
    /\ Cardinality(rules) < 2 => BoxBody(screen) = {} /\ AboveBox(screen) = screen
    /\ Cardinality(rules) >= 2 =>
          \E top, bottom \in rules : \E body \in BoxBody(screen) :
             /\ AboveBox(screen) \o <<screen[top]>> \o body \o <<screen[bottom]>>
                  \o AfterRule(screen) = screen
             /\ Places(body, HorizontalRule) = {}
    /\ Places(AfterPrompt(screen), PromptLine) \in {{}, Places(screen, PromptLine)}
    /\ \A n \in 1..MaxLines :
          LET low == BottomNonEmpty(screen, n)
              high == TopNonEmpty(screen, n)
          IN  /\ IsSuffix(low, screen) /\ IsPrefix(high, screen)
              /\ {Count(low), Count(high)} = {Min({n, Count(screen)})}
              /\ low # <<>> => NonEmpty(Head(low))
              /\ high # <<>> => NonEmpty(Last(high))

-----------------------------------------------------------------------------
\* Manifests: a gate says what a text must hold, in itself and by other gates.
Gate(contains, regex, line) ==
    [contains |-> contains, regex |-> regex, line |-> line,
     all |-> {}, any |-> {}, none |-> {}]
Rule(state, priority, region, gate) ==
    [state |-> state, priority |-> priority, region |-> region, gate |-> gate,
     visible |-> {}, skip |-> FALSE]
Manifest(engine, rules) == [engine |-> engine, rules |-> rules]
Invalid == "("                      \* in a regular expression that is none

Nested(gate) == ({"all"} \X gate.all) \cup ({"any"} \X gate.any) \cup ({"none"} \X gate.none)
Matchers(gate) == Cardinality(gate.contains) + Cardinality(gate.regex) + Cardinality(gate.line)
RECURSIVE Depth(_), GateCount(_), MatcherCount(_), GateCompiles(_), GateMatches(_, _)
Depth(gate) == Max({0} \cup {Depth(g[2]) + 1 : g \in Nested(gate)})
GateCount(gate) == 1 + MapThenSumSet(LAMBDA g : GateCount(g[2]), Nested(gate))
MatcherCount(gate) == Matchers(gate) + MapThenSumSet(LAMBDA g : MatcherCount(g[2]), Nested(gate))
\* compile_patterns, and a gate's own limit.
GateCompiles(gate) ==
    /\ Matchers(gate) <= MaxMatchersPerGate
    /\ \A pattern \in gate.regex \cup gate.line : Invalid \notin pattern
    /\ \A g \in Nested(gate) : GateCompiles(g[2])
\* compile_gate: the gates and matchers of all rules count together.
WithinBudget(rules) ==
    /\ \A i \in DOMAIN rules : Depth(rules[i].gate) <= MaxGateDepth
    /\ MapThenSumSet(LAMBDA i : GateCount(rules[i].gate), DOMAIN rules) <= MaxTotalGates
    /\ MapThenSumSet(LAMBDA i : MatcherCount(rules[i].gate), DOMAIN rules) <= MaxTotalMatchers
\* compile_manifest
Compiles(manifest) ==
    /\ manifest.engine <= EngineVersion
    /\ Len(manifest.rules) <= MaxRules
    /\ \A i \in DOMAIN manifest.rules : /\ KnownRegion(manifest.rules[i].region)
                                        /\ GateCompiles(manifest.rules[i].gate)
    /\ WithinBudget(manifest.rules)

\* gate_matches: all of its own matchers and of `all', one of `any' if there are,
\* and none of `not'.
GateMatches(gate, text) ==
    LET words == {text[i].rest : i \in DOMAIN text} IN
    /\ {Lower(needle) : needle \in gate.contains} \subseteq {Lower(w) : w \in words}
    /\ \A pattern \in gate.regex : pattern \subseteq words
    /\ \A pattern \in gate.line : pattern \cap words # {}
    /\ \A g \in gate.all : GateMatches(g, text)
    /\ gate.any # {} => \E g \in gate.any : GateMatches(g, text)
    /\ \A g \in gate.none : ~GateMatches(g, text)

RuleMatches(rule) == GateMatches(rule.gate, RegionText(screen, signals, rule.region))
\* Mutant: of equals, the later rule.
LaterBetter(rules, held, i) == held = 0 \/ rules[held].priority <= rules[i].priority
Better(rules, held, i) == held = 0 \/ rules[held].priority < rules[i].priority
\* evaluate: the rule that decides, or 0.
Winner(rules) ==
    FoldLeftDomain(LAMBDA held, i :
                      IF RuleMatches(rules[i]) /\ Better(rules, held, i) THEN i ELSE held,
                   0, rules)
\* rule_state
RuleState(rule) == IF rule.state = "undeclared" THEN "unknown" ELSE rule.state
\* detect: no rule is the fallback to idle, which no line on the screen shows.
Fallback == [state |-> "idle", skip |-> FALSE, visible |-> FALSE, rule |-> 0]
Detect(rules) ==
    LET w == Winner(rules) IN
    IF w = 0 THEN Fallback
    ELSE [state |-> RuleState(rules[w]), skip |-> rules[w].skip,
          visible |-> RuleState(rules[w]) \in rules[w].visible, rule |-> w]
\* screen_detection_outcome
Outcome(d) ==
    CASE d.skip -> "keep"
      [] d.rule = 0 -> "undecided"
      [] d.state \in {"blocked", "working"} -> d.state
      [] d.state = "idle" /\ d.visible -> "idle"
      [] d.state = "idle" -> "undecided"
      [] d.state = "unknown" -> "keep"

\* The manifests of the model: rules about regions of the screen and a title.
Busy == [Rule("working", 1, Region("after rule", 0), Gate({"BUSY"}, {}, {}))
           EXCEPT !.visible = {"working", "idle"}]
Ready == [Rule("idle", 1, Region("box", 0), Gate({}, {}, {{"prompt"}})) EXCEPT !.visible = {"idle"}]
Weak == Rule("idle", 2, Region("after prompt", 0),
             [Gate({}, {}, {}) EXCEPT !.any = {Gate({}, {{"busy", "BUSY"}}, {}),
                                               Gate({}, {}, {{"prompt"}})}])
Asks == Rule("blocked", 2, Region("above", 0),
             [Gate({"busy"}, {}, {}) EXCEPT !.none = {Gate({}, {{"prompt"}}, {})}])
Viewer == [Rule("undeclared", 2, Region("bottom", 1), Gate({}, {{"BUSY"}}, {})) EXCEPT !.skip = TRUE]
Titled == Rule("working", 2, Region("title", 0),
               [Gate({}, {}, {}) EXCEPT !.all = {Gate({"busy"}, {}, {})}])
Rules == {Busy, Ready, Weak, Asks, Viewer, Titled}
Bundled == Manifest(1, <<Busy, Ready>>)
Manifests ==
    {Manifest(1, <<r1, r2>>) : r1 \in Rules, r2 \in Rules} \cup
    {Manifest(EngineVersion + 1, <<Busy>>), Manifest(1, [i \in 1..MaxRules + 1 |-> Busy])} \cup
    {Manifest(1, <<[Busy EXCEPT !.region = Region("top", 0)]>>),
     Manifest(1, <<[Busy EXCEPT !.gate = Gate({}, {{Invalid}}, {})]>>),
     Manifest(1, <<[Busy EXCEPT !.gate.all = {[Busy.gate EXCEPT !.any = {Weak.gate}]}]>>),
     Manifest(1, <<[Busy EXCEPT !.gate.contains = {"a", "b", "busy"}]>>)}

\* What may be where the override would be; its text may be no manifest.
File(kind, manifest) == [kind |-> kind, manifest |-> manifest]
Files == {File(kind, {}) : kind \in {"absent", "directory", "large", "unreadable", "text"}}
         \cup {File("text", {m}) : m \in Manifests}
Use(manifest, source, warning) ==
    [manifest |-> manifest, source |-> source, warning |-> warning]
\* Mutant: an override is taken as soon as it parses.
HastyOverrides(file) == file.kind = "text" /\ file.manifest # {}
\* read_override, parse_manifest
Overrides(file) == file.kind = "text" /\ \E m \in file.manifest : Compiles(m)
\* load_agent
Load(file) ==
    IF Overrides(file) THEN Use(CHOOSE m \in file.manifest : TRUE, "override", FALSE)
    ELSE Use(Bundled, "bundled", file.kind \notin {"absent", "directory"})

\* The server starts or reloads its manifests, and finds any file; then lines are
\* shown.  (Bound: nothing is reloaded later.)
Reload == /\ screen = <<>>
          /\ \E file \in Files : loaded' = Load(file) /\ found' = file
          /\ UNCHANGED screen
DetectNext == /\ Reload \/ /\ Len(screen) < MaxShown /\ UNCHANGED manifestVars
                           /\ \E line \in Lines : Shows(line)
              /\ UNCHANGED <<signalVars, hookVars>>

\* The rules in use compiled, an override that was there and is not in use was told
\* of; the rule that decides is the first of those of the highest priority that
\* match; an agent is shown idle by a rule that says so in sight alone (load_agent,
\* evaluate, screen_detection_outcome).
Detected ==
    LET rules == loaded.manifest.rules
        matching == {i \in DOMAIN rules : RuleMatches(rules[i])}
        d == Detect(rules)
    IN  /\ Compiles(loaded.manifest)
        /\ loaded.source = "override" => found.manifest = {loaded.manifest}
        /\ loaded.source = "bundled" => loaded.manifest = Bundled
        /\ loaded.warning <=> /\ loaded.source = "bundled"
                              /\ found.kind \notin {"absent", "directory"}
        /\ d.rule = 0 <=> matching = {}
        /\ \A i \in matching \ {d.rule} :
              \/ rules[i].priority < rules[d.rule].priority
              \/ rules[i].priority = rules[d.rule].priority /\ d.rule < i
        /\ Outcome(d) = "idle" => \E i \in matching : /\ rules[i].state = "idle"
                                                      /\ "idle" \in rules[i].visible

-----------------------------------------------------------------------------
\* Titles and progress reports, as observe_osc tells them apart: what a title begins
\* with, what it says, and whether one of its parts is the word ready alone.
Title(glyph, says) == [op |-> "title", glyph |-> glyph, says |-> says]
Glyphs == {"none", "spinner", "star", "omp prompt", "prompt"}
Sayings == {"nothing", "ready part", "ready", "working", "action required"}
Titles == {Title(g, w) : g \in Glyphs, w \in Sayings}
Reports == {[op |-> "progress", glyph |-> "none", says |-> w] : w \in {"busy", "done", "percent"}}
Spins(o) == o.op = "title" /\ o.glyph = "spinner"        \* is_busy_spinner
SaysReady(o) == \/ o.op = "title" /\ o.says = "ready part"
                \/ o.op = "progress" /\ o.says = "done"
Tells(o) == o.op = "title" \/ o.says \in {"busy", "done"}

NoSignals == [state |-> "none", idle |-> FALSE, active |-> FALSE, title |-> <<>>, progress |-> <<>>]
\* retain_detection_payload and sanitize_osc_payload: an empty title is a clear.
Retain(sig, o) ==
    IF o.op = "title"
    THEN [sig EXCEPT !.title = IF o.glyph = "none" /\ o.says = "nothing" THEN <<>>
                               ELSE <<Line(0, IF o.says = "working" THEN "BUSY" ELSE "name")>>]
    ELSE [sig EXCEPT !.progress = <<Line(0, o.says)>>]
\* Mutant: a title without a spinner leaves the state.
LastingState(sig, o) == IF Spins(o) THEN "working" ELSE
                        IF o.says = "action required" THEN "blocked" ELSE sig.state
\* What a title says of the agent: a spinner that stopped means it is done.
TitleState(sig, o) ==
    IF Spins(o) THEN "working"
    ELSE IF o.says = "action required" THEN "blocked"
    ELSE IF \/ o.glyph \in {"star", "omp prompt"} \/ o.says \in {"ready", "ready part"}
            \/ sig.active THEN "idle"
    ELSE IF o.says = "working" THEN "working" ELSE sig.state
\* observe_osc
Observed(sig, o) ==
    CASE o.op = "title" -> [Retain(sig, o) EXCEPT !.idle = SaysReady(o), !.active = Spins(o),
                                                  !.state = TitleState(sig, o)]
      [] o.op = "progress" /\ o.says = "percent" -> Retain(sig, o)
      [] o.op = "progress" /\ o.says # "percent" ->
           [Retain(sig, o) EXCEPT !.idle = SaysReady(o),
                                  !.state = IF SaysReady(o) THEN "idle" ELSE "working"]
Report(o) ==
    /\ signals' = Observed(signals, o)
    /\ said' = IF ~Tells(o) THEN said
               ELSE Append(IF Len(said) = 2 THEN Tail(said) ELSE said,
                           [title |-> o.op = "title", spins |-> Spins(o), ready |-> SaysReady(o)])
\* clear_detection_payloads: another agent is there.
NewAgent == /\ signals' = [signals EXCEPT !.title = <<>>, !.progress = <<>>, !.idle = FALSE]
            /\ said' = <<>>
SignalNext == /\ (\E o \in Titles \cup Reports : Report(o)) \/ NewAgent
              /\ UNCHANGED <<screenVars, manifestVars, hookVars>>

\* An agent is explicitly idle while what was last told is that it is ready; it is
\* not shown working once a title has lost its spinner for something else than the
\* next spinner; and it is idle once it says it is ready (observe_osc).
SignalsTrue ==
    LET n == Len(said) IN
    /\ signals.idle => n > 0 /\ said[n].ready
    /\ n = 2 /\ said[1].spins /\ said[2].title /\ ~said[2].spins =>
          signals.state \in {"idle", "blocked"}
    /\ n > 0 /\ said[n].ready /\ ~said[n].spins => signals.state = "idle"

-----------------------------------------------------------------------------
\* Hooks: the agent calls one with a payload, and the selector its command names.
Thinking == {"UserPromptSubmit", "SessionStart", "PreInvocation", "PostInvocation",
             "agent_start", "before_agent_start", "PostCompact", "session_compact",
             "tool_execution_end", "PostToolUse", "PostToolUseFailure",
             "transcript_snapshot", "message_end"}
ToolStarts == {"PreToolUse", "tool_execution_start"}
ToolEnds == {"PostToolUse", "PostToolUseFailure", "tool_execution_end"}
Prompts == {"UserPromptSubmit", "before_agent_start"}
Stops == {"Stop", "StopFailure"}
TranscriptOnly == {"transcript_snapshot", "message_end"}
\* tool_event_kind, for one tool of each kind.
ToolKinds == [shell |-> "running_command", edit |-> "editing_files", search |-> "searching",
              task |-> "delegating", ask_question |-> "waiting_for_approval",
              other |-> "using_tool"]
Kind(name, tool) ==
    CASE name \in Thinking -> "thinking"
      [] name \in ToolStarts -> ToolKinds[tool]
      [] name \in {"PermissionRequest", "Notification"} -> "waiting_for_approval"
      [] name \in {"PreCompact", "session_before_compact"} -> "compacting"
      [] name \in Stops \cup {"Interrupt", "agent_settled"} -> "completed"
      [] name \in {"SessionEnd", "session_shutdown"} -> "closed"
      [] OTHER -> "unknown"
Providers == [codex |-> "codex", claude |-> "claude", agy |-> "agy", antigravity |-> "agy"]

Entry(kind, source) == [kind |-> kind, source |-> source]
Unsourced == <<>>
SourceOf(hook, kind) == IF hook.tool_use # Unsourced THEN <<kind>> \o hook.tool_use
                        ELSE IF hook.sequence # 0 THEN <<kind, hook.sequence>> ELSE Unsourced
\* hook_transcript_entries
Entries(hook) ==
    CASE hook.name \in Prompts \cup Stops ->
           IF hook.text THEN <<Entry("message", SourceOf(hook, "message"))>> ELSE <<>>
      [] hook.name \in ToolStarts -> <<Entry("tool_start", SourceOf(hook, "tool-start"))>>
      [] hook.name \in ToolEnds -> <<Entry("tool_result", SourceOf(hook, "tool-result"))>>
      [] OTHER -> <<>>
\* agent_event_status, with the sequence number as its source.
Status(hook) == Entry(Kind(hook.name, hook.tool),
                      IF hook.sequence = 0 THEN Unsourced ELSE <<"status", hook.sequence>>)

\* The lines of a file from the first that starts in its last TailBytes (read_tail);
\* a line takes two bytes, the end of it one of them.
TailOf(file) ==
    LET start == Max({2 * Len(file), TailBytes}) - TailBytes IN
    IF start = 0 THEN file ELSE SubSeq(file, start \div 2 + 2, Len(file))
Record(kind, name) == [kind |-> kind, name |-> name]
Missing == "missing"
Records == {Record("custom", "a"), Record("custom", Missing), Record("generated", "b"),
            Record("thread", "a"), Record("thread", " "), Record("other thread", "b")}
\* The scan of native_title, from the last line up; a name that is missing is passed.
ScanTitles(lines) ==
    FoldRight(LAMBDA record, held :
                 IF held.custom # Missing \/ record.name = Missing THEN held
                 ELSE CASE record.kind = "custom" -> [held EXCEPT !.custom = record.name]
                        [] record.kind = "generated" /\ held.generated = Missing ->
                             [held EXCEPT !.generated = record.name]
                        [] OTHER -> held,
              lines, [custom |-> Missing, generated |-> Missing])
ThreadName(lines) ==
    LET named == {i \in DOMAIN lines : lines[i].kind = "thread" /\ lines[i].name # Missing}
    IN  IF named = {} THEN Missing ELSE lines[Max(named)].name
\* Mutant: the name the agent generated wins.
GeneratedTitle(provider, file) ==
    LET held == ScanTitles(TailOf(file)) IN
    IF provider = "claude" THEN IF held.generated = Missing THEN held.custom ELSE held.generated
    ELSE Missing
NativeTitle(provider, file) ==
    LET held == ScanTitles(TailOf(file))
        name == CASE provider = "claude" ->
                       IF held.custom = Missing THEN held.generated ELSE held.custom
                  [] provider = "codex" -> ThreadName(TailOf(file))
                  [] OTHER -> Missing
    IN  IF name = " " THEN Missing ELSE name

\* from_hook_input
Event(provider, hook, file) ==
    [provider |-> Providers[provider], kind |-> Kind(hook.name, hook.tool),
     sequence |-> hook.sequence, only |-> hook.name \in TranscriptOnly,
     title |-> IF hook.title = Missing THEN NativeTitle(Providers[provider], file) ELSE hook.title,
     transcript |-> hook.transcript \o IF hook.name \in TranscriptOnly THEN <<>>
                                       ELSE Append(Entries(hook), Status(hook))]
Stamped(hook, selector) ==
    IF selector.name = Missing THEN hook
    ELSE [hook EXCEPT !.name = selector.name,
                      !.sequence = IF selector.sequence = 0 THEN @ ELSE selector.sequence]
\* read_hook_event: a payload that is too long or is no object delivers nothing.
Delivered(provider, selector, payload, file) ==
    LET hooks == {Stamped(hook, selector) : hook \in payload} IN
    {Event(provider, hook, file) : hook \in {h \in hooks : /\ provider \in DOMAIN Providers
                                                           /\ Kind(h.name, h.tool) # "unknown"}}

Payloads ==
    LET hook == [name |-> Missing, tool |-> "other", tool_use |-> Unsourced, sequence |-> 0,
                 text |-> TRUE, title |-> Missing, transcript |-> <<>>]
    IN  {{}, {[hook EXCEPT !.name = "UserPromptSubmit", !.text = FALSE, !.sequence = 1]},
         {[hook EXCEPT !.name = "PostToolUse", !.tool_use = <<"t1">>]},
         {[hook EXCEPT !.name = "message_end", !.transcript = <<Entry("message", Unsourced)>>]},
         {[hook EXCEPT !.name = "Notification"]}, {[hook EXCEPT !.name = "PreCompact"]},
         {[hook EXCEPT !.name = "Stop", !.sequence = 1]}, {hook},
         {[hook EXCEPT !.name = "SessionEnd", !.title = "c"]}}
        \cup {{[hook EXCEPT !.name = "PreToolUse", !.tool = tool]} : tool \in DOMAIN ToolKinds}
Selectors == {[name |-> Missing, sequence |-> 0], [name |-> "Stop", sequence |-> 2],
              [name |-> "PreToolUse", sequence |-> 0]}

\* The agent names its chat, or calls a hook, each in a process of its own.
NameChat == /\ Len(titles) < MaxTitles /\ event = {}
            /\ \E record \in Records : titles' = Append(titles, record)
            /\ UNCHANGED event
Hook == /\ event = {}
        /\ \E provider \in DOMAIN Providers \cup {"other"}, selector \in Selectors, payload \in Payloads :
              event' = Delivered(provider, selector, payload, titles)
        /\ UNCHANGED titles
HookNext == (NameChat \/ Hook) /\ UNCHANGED <<screenVars, manifestVars, signalVars>>

\* A chat has the name last given to it by hand among those looked at, or else the
\* last the agent gave it; an event ends with its status, unless it only carries a
\* transcript, and an approval is asked for or a turn ended by no tool's result
\* (from_hook_input, hook_transcript_entries, native_title).
EventsTrue ==
    LET last(kind) == {i \in DOMAIN titles :
                          /\ titles[i].kind = kind /\ titles[i].name # Missing
                          /\ 2 * (Len(titles) - i + 1) < TailBytes \/ 2 * Len(titles) <= TailBytes}
    IN \A e \in event :
       /\ e.provider = "claude" /\ e.title \notin {Missing, "c"} =>
             \E i \in last("custom") \cup last("generated") :
                /\ titles[i].name = e.title
                /\ titles[i].kind = "generated" => last("custom") = {}
                /\ \A j \in last(titles[i].kind) : j <= i
       /\ e.provider = "claude" /\ e.title = Missing =>
             last("custom") \cup last("generated") = {}
       /\ e.only \/ Last(e.transcript).kind = e.kind
       /\ \A i \in DOMAIN e.transcript : e.transcript[i].kind = "tool_result" =>
             e.kind = "thinking"

-----------------------------------------------------------------------------
DetectionInit ==
    /\ screen = <<>> /\ loaded = Use(Bundled, "bundled", FALSE) /\ found = File("absent", {})
    /\ signals \in {NoSignals, [NoSignals EXCEPT !.title = <<Line(0, "BUSY")>>]}
    /\ said = <<>> /\ titles = <<>> /\ event = {}
=============================================================================
