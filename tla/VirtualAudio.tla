----------------------------- MODULE VirtualAudio -----------------------------
(***************************************************************************)
(* The virtual microphone and speaker: the broker's hub with the sockets   *)
(* it serves (audio.rs) and one page that selects devices and reconnects   *)
(* (client/lib/virtual-audio.ts).  Messages between them keep their order; *)
(* a connection may break at any time, and the broker notices later.       *)
(*                                                                         *)
(* What a page selects is a device or off; which device does not matter.   *)
(* Setting up and taking down the devices are one step each; names of two  *)
(* set-ups of one broker would clash, so a second one fails while the      *)
(* first is there.  Messages that only report an error are left out.       *)
(***************************************************************************)
EXTENDS Naturals, Sequences, FiniteSets

CONSTANTS
    MaxConnections,     \* bound: connections the page opens
    MaxAudioSteps,      \* bound: connections and selections together
    WireCapacity        \* messages under way to the page

VARIABLES
    hub,        \* the status, the input sender, the runtime, the shutdown
    routes,     \* AudioRoutes: connection -> direction -> enabled
    counts,     \* the watch channel of counts: direction -> peers
    conn,       \* connection -> the broker's loop for it
    page        \* VirtualAudioClient

audioVars == <<hub, routes, counts, conn, page>>

Directions == {"input", "output"}
Connections == 1..MaxConnections
Off == [d \in Directions |-> FALSE]
Rest == [dir |-> "none", stage |-> "none", on |-> FALSE]
NoCall == [new |-> "none", old |-> "none", was |-> FALSE]
Ready(ok) == [type |-> "ready", on |-> [d \in Directions |-> ok]]
State(flags) == [type |-> "state", on |-> flags]

AudioInit ==
    /\ \E ok \in BOOLEAN :     \* whether sweep_stale succeeded
          hub = [available |-> ok, input |-> FALSE, runtime |-> "none",
                 monitor |-> "none", phase |-> "serving", devices |-> FALSE]
    /\ routes = [c \in {} |-> Off]
    /\ counts = [d \in Directions |-> 0]
    /\ conn = [c \in Connections |->
                  [at |-> "none", left |-> FALSE, flags |-> Off, doing |-> Rest,
                   news |-> FALSE, counted |-> FALSE, inbox |-> <<>>,
                   outbox |-> <<>>]]
    /\ page = [socket |-> 0, next |-> 1, available |-> FALSE, selections |-> 0,
               selected |-> Off, enabled |-> Off, node |-> Off,
               context |-> FALSE, calls |-> [d \in Directions |-> NoCall]]

-----------------------------------------------------------------------------
(* The broker.                                                             *)

PeersOn(r, d) == {c \in DOMAIN r : r[c][d]}
CountsOf(r) == [d \in Directions |-> Cardinality(PeersOn(r, d))]
Open == {c \in Connections : conn[c].at = "open"}
Room(c) == Len(conn[c].outbox) < WireCapacity
\* What is sent to a page that has left is lost.
Sent(c, m) == IF conn[c].left THEN <<>> ELSE Append(conn[c].outbox, m)

\* Marks a change of a watched value unseen by every loop.
Notify(f, field) ==
    [c \in Connections |->
        IF f[c].at # "open" THEN f[c]
        ELSE IF field = "news" THEN [f[c] EXCEPT !.news = TRUE]
        ELSE [f[c] EXCEPT !.counted = TRUE]]

\* The routes change under their lock, and the counts are sent before it goes.
SetRoutes(r, f) ==
    /\ routes' = r
    /\ counts' = CountsOf(r)
    /\ conn' = Notify(f, "counted")

\* serve_audio_socket up to its loop.
Attach(c) ==
    /\ conn[c].at = "connecting" /\ hub.phase = "serving"
    /\ routes' = [x \in DOMAIN routes \cup {c} |->
                     IF x = c THEN Off ELSE routes[x]]
    /\ conn' = [conn EXCEPT ![c].at = "open",
                            ![c].outbox = <<Ready(hub.available)>>]
    /\ UNCHANGED <<hub, counts, page>>

\* AudioPeer's drop, when the loop ends.
Detach(c) ==
    /\ conn[c].at = "open" /\ conn[c].left /\ conn[c].doing = Rest
    /\ SetRoutes([x \in DOMAIN routes \ {c} |-> routes[x]],
                 [conn EXCEPT ![c] = [@ EXCEPT !.at = "closed", !.inbox = <<>>,
                     !.flags = Off, !.news = FALSE, !.counted = FALSE]])
    /\ UNCHANGED <<hub, page>>

\* ensure_started, up to the lock of the runtime; turning off needs no devices.
Control(c) ==
    /\ conn[c].at = "open" /\ conn[c].doing = Rest /\ conn[c].inbox # <<>>
    /\ LET m == Head(conn[c].inbox)
           stage == IF ~m.on THEN "started" ELSE "checked"
           rest == [conn EXCEPT ![c].inbox = Tail(@)]
       IN conn' = IF m.on /\ (~hub.available \/ hub.phase # "serving") THEN rest
                  ELSE [rest EXCEPT ![c].doing =
                           [dir |-> m.dir, stage |-> stage, on |-> m.on]]
    /\ UNCHANGED <<hub, routes, counts, page>>

\* ... with the lock, held until the devices are there.
LockRuntime(c) ==
    /\ conn[c].doing.stage = "checked" /\ hub.runtime # "starting"
    /\ conn' = [conn EXCEPT ![c].doing =
                   IF hub.runtime = "none" THEN [@ EXCEPT !.stage = "starting"]
                   ELSE IF hub.available THEN [@ EXCEPT !.stage = "started"]
                   ELSE Rest]
    /\ hub' = IF hub.runtime = "none" THEN [hub EXCEPT !.runtime = "starting"]
              ELSE hub
    /\ UNCHANGED <<routes, counts, page>>

StartDevices(c) ==
    /\ conn[c].doing.stage = "starting" /\ ~hub.devices
    /\ hub' = [hub EXCEPT !.runtime = "up", !.monitor = "running",
                          !.devices = TRUE, !.input = TRUE]
    /\ conn' = [conn EXCEPT ![c].doing.stage = "started"]
    /\ UNCHANGED <<routes, counts, page>>

StartFails(c) ==
    /\ conn[c].doing.stage = "starting"
    /\ hub' = [hub EXCEPT !.runtime = "none", !.available = FALSE]
    /\ conn' = Notify([conn EXCEPT ![c].doing = Rest], "news")
    /\ UNCHANGED <<routes, counts, page>>

\* Mutant: the status is not looked at again under the lock of the routes.
FaultyRefused(on) == FALSE
Refused(on) == on /\ ~hub.available

\* set_route, under the lock of the routes, and what the loop does with it.
Route(c) ==
    LET do == conn[c].doing
        flags == [conn[c].flags EXCEPT ![do.dir] = do.on]
    IN /\ do.stage = "started" /\ Room(c)
       /\ IF Refused(do.on)
          THEN /\ conn' = [conn EXCEPT ![c].doing = Rest]
               /\ UNCHANGED <<routes, counts>>
          ELSE SetRoutes([routes EXCEPT ![c][do.dir] = do.on],
                         [conn EXCEPT ![c] = [@ EXCEPT !.doing = Rest,
                             !.flags = flags,
                             !.outbox = Sent(c, State(flags))]])
       /\ UNCHANGED <<hub, page>>

\* The loop sees a change of the status, or of the counts.
TellStatus(c) ==
    /\ conn[c].at = "open" /\ ~conn[c].left /\ conn[c].doing = Rest
    /\ conn[c].news /\ Room(c)
    /\ conn' = [conn EXCEPT ![c] = [@ EXCEPT !.news = FALSE,
                   !.flags = IF hub.available THEN @ ELSE Off,
                   !.outbox = Append(@, Ready(hub.available))]]
    /\ UNCHANGED <<hub, routes, counts, page>>

TellCounts(c) ==
    /\ conn[c].at = "open" /\ ~conn[c].left /\ conn[c].doing = Rest
    /\ conn[c].counted /\ Room(c)
    /\ conn' = [conn EXCEPT ![c].counted = FALSE,
                            ![c].outbox = Append(@, State(conn[c].flags))]
    /\ UNCHANGED <<hub, routes, counts, page>>

\* monitor_audio_runtime: the keepalive or a pipe stops; the status and the
\* routes change together; then the devices are taken down.
DevicesFail ==
    /\ hub.monitor = "running"
    /\ hub' = [hub EXCEPT !.monitor = "failed", !.input = FALSE]
    /\ UNCHANGED <<routes, counts, conn, page>>

MarkUnavailable ==
    /\ hub.monitor = "failed"
    /\ hub' = [hub EXCEPT !.monitor = "stopping", !.available = FALSE]
    /\ SetRoutes([c \in DOMAIN routes |-> Off], Notify(conn, "news"))
    /\ UNCHANGED page

Cleanup ==
    /\ hub.monitor = "stopping"
    /\ hub' = [hub EXCEPT !.monitor = "gone", !.devices = FALSE,
                          !.phase = IF @ = "waiting" THEN "joined" ELSE @]
    /\ UNCHANGED <<routes, counts, conn, page>>

\* shutdown: the flag, the lock of the runtime, and the wait for the monitor.
Shutdown ==
    /\ hub.phase = "serving"
    /\ hub' = [hub EXCEPT !.phase = "flagged"]
    /\ UNCHANGED <<routes, counts, conn, page>>

ShutdownTakes ==
    /\ hub.phase = "flagged" /\ hub.runtime # "starting"
    /\ hub' = IF hub.runtime = "none" THEN [hub EXCEPT !.phase = "stopped"]
              ELSE [hub EXCEPT !.runtime = "none",
                       !.phase = IF hub.monitor = "gone" THEN "joined" ELSE "waiting",
                       !.monitor = IF @ = "running" THEN "stopping" ELSE @]
    /\ UNCHANGED <<routes, counts, conn, page>>

ShutdownEnds ==
    /\ hub.phase = "joined"
    /\ hub' = [hub EXCEPT !.phase = "stopped", !.input = FALSE]
    /\ UNCHANGED <<routes, counts, conn, page>>

-----------------------------------------------------------------------------
(* The page.                                                               *)

\* sendControl, for one direction or for both.
Sends(p, messages) ==
    IF p.available /\ p.socket # 0 /\ conn[p.socket].at = "open"
    THEN conn' = [conn EXCEPT ![p.socket].inbox = @ \o messages]
    ELSE UNCHANGED conn
Message(d, on) == <<[dir |-> d, on |-> on]>>

StepsLeft == page.next - 1 + page.selections < MaxAudioSteps

\* A later selection, or bad news, supersedes what is under way.
Superseded(call) ==
    IF call.new = "none" THEN call
    ELSE [new |-> "none", old |-> call.new, was |-> FALSE]
MaySupersede(d) == page.calls[d].old = "none" \/ page.calls[d].new = "none"

\* closeContextIfIdle: calls that have the context go on without it.
Orphan(stage) == IF stage = "device" THEN "orphan" ELSE stage
CloseIfIdle(p) ==
    IF p.node = Off /\ p.context
    THEN [p EXCEPT !.context = FALSE,
             !.calls = [d \in Directions |->
                           [@[d] EXCEPT !.new = Orphan(@), !.old = Orphan(@)]]]
    ELSE p

Connect ==
    /\ page.socket = 0 /\ page.next <= MaxConnections /\ StepsLeft
    /\ page' = [page EXCEPT !.socket = page.next, !.next = @ + 1]
    /\ conn' = [conn EXCEPT ![page.next].at = "connecting"]
    /\ UNCHANGED <<hub, routes, counts>>

Break ==
    /\ page.socket # 0
    /\ page' = [page EXCEPT !.socket = 0, !.enabled = Off]
    /\ conn' = [conn EXCEPT ![page.socket] = [@ EXCEPT !.left = TRUE,
                   !.at = IF @ = "open" THEN "open" ELSE "closed",
                   !.outbox = <<>>]]
    /\ UNCHANGED <<hub, routes, counts>>

\* selectInput and selectOutput: off, or up to their first await.
SelectOff(d) ==
    /\ StepsLeft /\ MaySupersede(d)
    /\ page' = CloseIfIdle([page EXCEPT !.selections = @ + 1,
                   !.calls[d] = Superseded(@), !.node[d] = FALSE,
                   !.selected[d] = FALSE, !.enabled[d] = FALSE])
    /\ Sends(page, Message(d, FALSE))
    /\ UNCHANGED <<hub, routes, counts>>

SelectDevice(d) ==
    /\ StepsLeft /\ MaySupersede(d)
    /\ page' = [page EXCEPT !.selections = @ + 1,
                   !.calls[d] = IF page.available
                       THEN [Superseded(@) EXCEPT !.new = "context",
                                                  !.was = page.selected[d]]
                       ELSE Superseded(@)]
    /\ UNCHANGED <<hub, routes, counts, conn>>

\* The context runs; the speaker's node is made at once, the microphone's when
\* the browser grants it.
ContextReady(d, age) ==
    /\ page.calls[d][age] = "context"
    /\ page' = [page EXCEPT !.context = TRUE, !.calls[d][age] = "device",
                            !.node[d] = @ \/ d = "output"]
    /\ UNCHANGED <<hub, routes, counts, conn>>

\* Mutant: a call that was superseded goes on as if it were the last.
FaultyIsLatest(age) == TRUE
IsLatest(age) == age = "new"

DeviceReady(d, age) ==
    /\ page.calls[d][age] \in {"device", "orphan"}
    /\ LET p == [page EXCEPT !.calls[d][age] = "none"]
       IN IF IsLatest(age)
          THEN /\ page' = [p EXCEPT !.node[d] = TRUE, !.selected[d] = TRUE,
                                    !.enabled[d] = TRUE]
               /\ Sends(p, Message(d, TRUE))
          ELSE page' = p /\ UNCHANGED conn
    /\ UNCHANGED <<hub, routes, counts>>

DeviceFails(d, age) ==
    /\ page.calls[d][age] # "none"
    /\ LET p == [page EXCEPT !.calls[d][age] = "none"]
       IN page' = IF ~IsLatest(age) THEN p
                  ELSE CloseIfIdle(IF d = "output" /\ ~page.calls[d].was
                                   THEN [p EXCEPT !.node[d] = FALSE] ELSE p)
    /\ UNCHANGED <<hub, routes, counts, conn>>

\* handleSocketMessage.
Receive ==
    /\ page.socket # 0 /\ conn[page.socket].outbox # <<>>
    /\ LET c == page.socket
           m == Head(conn[c].outbox)
           rest == [conn EXCEPT ![c].outbox = Tail(@)]
           both == Message("input", page.selected["input"])
                   \o Message("output", page.selected["output"])
       IN CASE m.type = "state" ->
                  /\ page' = [page EXCEPT !.enabled = m.on]
                  /\ conn' = rest
            [] m = Ready(TRUE) ->
                  /\ page' = [page EXCEPT !.available = TRUE]
                  /\ conn' = [rest EXCEPT ![c].inbox = @ \o both]
            [] OTHER ->
                  /\ \A d \in Directions : MaySupersede(d)
                  /\ page' = CloseIfIdle([page EXCEPT !.available = FALSE,
                        !.node = Off, !.selected = Off, !.enabled = Off,
                        !.calls = [d \in Directions |-> Superseded(@[d])]])
                  /\ conn' = rest
    /\ UNCHANGED <<hub, routes, counts>>

-----------------------------------------------------------------------------
AudioNext ==
    \/ \E c \in Connections :
          \/ Attach(c) \/ Detach(c) \/ Control(c) \/ LockRuntime(c)
          \/ StartDevices(c) \/ StartFails(c) \/ Route(c)
          \/ TellStatus(c) \/ TellCounts(c)
    \/ DevicesFail \/ MarkUnavailable \/ Cleanup
    \/ Shutdown \/ ShutdownTakes \/ ShutdownEnds
    \/ Connect \/ Break \/ Receive
    \/ \E d \in Directions :
          \/ SelectOff(d) \/ SelectDevice(d)
          \/ \E age \in {"new", "old"} :
                ContextReady(d, age) \/ DeviceReady(d, age) \/ DeviceFails(d, age)

AudioSpec == AudioInit /\ [][AudioNext]_audioVars

-----------------------------------------------------------------------------
AudioTypeOK ==
    /\ hub.runtime \in {"none", "starting", "up"}
    /\ hub.monitor \in {"none", "running", "failed", "stopping", "gone"}
    /\ hub.phase \in {"serving", "flagged", "waiting", "joined", "stopped"}
    /\ DOMAIN routes = Open
    /\ page.socket \in 0..MaxConnections
    /\ \A d \in Directions :
          /\ counts[d] \in 0..MaxConnections
          /\ \A age \in {"new", "old"} :
                page.calls[d][age] \in {"none", "context", "device", "orphan"}

\* Once the audio is unavailable no route is on; the counts that are shown are
\* those of the routes; and a socket that takes its route for on has the news
\* still before it (mark_audio_unavailable, set_route, status.changed).
RoutesFollow ==
    /\ counts = CountsOf(routes)
    /\ hub.phase = "serving" =>
          /\ ~hub.available => \A c \in Open : routes[c] = Off
          /\ \A c \in Open : conn[c].flags # routes[c] => conn[c].news

\* A microphone is captured exactly while one is selected, and a selected
\* speaker plays, however selections overtake each other and the connection.
CaptureIsSelected ==
    /\ page.node["input"] = page.selected["input"]
    /\ page.selected["output"] => page.node["output"]

\* When nothing is under way, page and broker agree on what is on.
Quiet(c) == /\ hub.phase = "serving" /\ c # 0
            /\ conn[c].at = "open" /\ conn[c].doing = Rest
            /\ conn[c].inbox = <<>> /\ conn[c].outbox = <<>>
            /\ ~conn[c].news /\ ~conn[c].counted
SidesAgree ==
    LET c == page.socket
    IN Quiet(c) => /\ page.selected = routes[c]
                   /\ page.enabled = routes[c]

\* After the shutdown devices are left only where a caller that had passed the
\* check before it has started them anew.
DevicesReturned ==
    hub.runtime = "none" /\ hub.phase \in {"serving", "stopped"} => ~hub.devices

AudioSound == RoutesFollow /\ CaptureIsSelected /\ SidesAgree /\ DevicesReturned
===============================================================================
