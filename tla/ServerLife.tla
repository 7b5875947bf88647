------------------------------ MODULE ServerLife ------------------------------
(***************************************************************************)
(* How servers and session brokers start, find each other and stop         *)
(* (main.rs; terminal_control.rs: ControlSocket; broker.rs:                *)
(* connect_or_start, start_and_wait, run_session_broker, shutdown; api.rs: *)
(* ServerControl).                                                         *)
(*                                                                         *)
(* A server claims the control socket, reads or creates the control token, *)
(* looks for brokers, starts one of its own build when there is none, and  *)
(* configures it.  It dies at any moment, is told to stop or to restart,   *)
(* and the brokers live on unless it stops them.  A socket file outlives   *)
(* the process that bound it: it is then stale, and whoever binds next     *)
(* removes it.                                                             *)
(***************************************************************************)
EXTENDS Naturals, FiniteSets

CONSTANTS Servers, Brokers, OldBroker, Nobody,
          MaxStarts, MaxEvents      \* bounds

VARIABLES
    control,    \* the control socket: "none", "stale", or the server that listens
    token,      \* the token file: "none", "empty", or the server that made the token
    sock,       \* of each build, its broker's socket: "none", "stale" or a broker
    server,
    broker,
    open,       \* the brokers that hold terminals
    speaks,     \* whether the old build's broker speaks this build's protocol
    overlap,    \* two processes took over one socket file at a time
    lost,       \* terminals were closed by a server
    cause,      \* what was asked of a server that closes terminals
    starts,
    events      \* crashes, late answers, and the times a server is told to stop

lifeVars == <<control, token, sock, server, broker, open, speaks, overlap, lost,
              cause, starts, events>>

Paths == {"old", "new"}
PathOf(b) == IF b = OldBroker THEN "old" ELSE "new"
Off == [at |-> "off", todo |-> {}, token |-> Nobody, draining |-> {}, broker |-> Nobody,
        later |-> "none", restart |-> FALSE, brokers |-> FALSE]
None == [at |-> "none", token |-> Nobody, parent |-> Nobody, config |-> Nobody]

Listening(b) == b \in Brokers /\ broker[b].at \in {"up", "closing"}
Answers(p) == Listening(sock[p])
Become(s, r) == server' = [server EXCEPT ![s] = r]
Goes(s, at) == Become(s, [server[s] EXCEPT !.at = at])
BecomeB(b, at) == broker' = [broker EXCEPT ![b].at = at]
Event == events < MaxEvents /\ events' = events + 1
Lets(b, S) == [p \in Paths |-> IF sock[p] = b THEN S ELSE sock[p]]
Others == <<open, speaks, lost, cause, starts>>

-----------------------------------------------------------------------------
(* ControlSocket::bind: the one server of a data directory *)

Ends(s) == /\ Become(s, Off)
           /\ control' = IF control = s THEN "stale" ELSE control

Start(s) ==
    /\ server[s].at = "off" /\ starts < MaxStarts /\ starts' = starts + 1
    /\ Goes(s, "claim")
    /\ UNCHANGED <<control, token, sock, broker, open, speaks, overlap, lost, cause, events>>

Connects(s) == control = "stale"

Claim(s) ==
    /\ server[s].at = "claim"
    /\ CASE control = "none" -> control' = s /\ Goes(s, "token") /\ UNCHANGED overlap
         [] control # "none" /\ Connects(s) ->
              /\ Goes(s, "stale") /\ UNCHANGED control
              /\ overlap' = (overlap \/ \E o \in Servers \ {s} : server[o].at = "stale")
         [] OTHER -> Ends(s) /\ UNCHANGED overlap
    /\ UNCHANGED <<token, sock, broker, events, Others>>

RemoveStale(s) ==
    /\ server[s].at = "stale"
    /\ IF control = "none" THEN Ends(s) ELSE control' = "none" /\ Goes(s, "removed")
    /\ UNCHANGED <<token, sock, broker, overlap, events, Others>>

Bind(s) ==
    /\ server[s].at = "removed"
    /\ IF control = "none" THEN control' = s /\ Goes(s, "token") ELSE Ends(s)
    /\ UNCHANGED <<token, sock, broker, overlap, events, Others>>

-----------------------------------------------------------------------------
(* BrokerPool::connect_or_start *)

\* read_dir
Scan(s, t) == Become(s, [server[s] EXCEPT !.at = "probe", !.token = t,
                                          !.todo = {p \in Paths : sock[p] # "none"}])
LoadToken(s) ==
    /\ server[s].at = "token"
    /\ CASE token = "none"  -> token' = "empty" /\ Goes(s, "write") /\ UNCHANGED control
         [] token = "empty" -> Ends(s) /\ UNCHANGED token
         [] OTHER           -> Scan(s, token) /\ UNCHANGED <<control, token>>
    /\ UNCHANGED <<sock, broker, overlap, events, Others>>
WriteToken(s) ==
    /\ server[s].at = "write"
    /\ token' = s /\ Scan(s, s)
    /\ UNCHANGED <<control, sock, broker, overlap, events, Others>>

\* broker.rs: shutdown_broker closes its terminals and, soon after, its listener.
Told(b, s, why) ==
    /\ BecomeB(b, "closing") /\ open' = open \ {b}
    /\ lost' = (lost \/ b \in open)
    /\ cause' = IF b \in open THEN cause \cup why ELSE cause

Speaks(b) == b # OldBroker \/ speaks

Probe(s) ==
    /\ server[s].at = "probe"
    /\ \E p \in server[s].todo :
          LET b == sock[p]
              r == [server[s] EXCEPT !.todo = @ \ {p}]
          IN \/ /\ Answers(p) /\ Speaks(b)
                /\ Become(s, [r EXCEPT !.draining = @ \cup {b}])
                /\ UNCHANGED <<broker, open, lost, cause, events>>
             \/ /\ Answers(p) /\ ~Speaks(b)
                /\ Become(s, [r EXCEPT !.at = "await", !.broker = b])
                /\ Told(b, s, {"protocol"}) /\ UNCHANGED events
             \/ /\ ~Answers(p) /\ Become(s, r) /\ UNCHANGED <<broker, open, lost, cause, events>>
             \/ /\ Answers(p) /\ Event /\ Become(s, r) /\ UNCHANGED <<broker, open, lost, cause>>
    /\ UNCHANGED <<control, token, sock, speaks, overlap, starts>>

\* BrokerClient::shutdown, reap_broker_process: only a child is waited for.
Reaped(s, b) == broker[b].at \in {"none", "down"} \/ broker[b].parent # s
Stopped(s, b) == ~Listening(b) /\ Reaped(s, b)
AwaitStop(s) ==
    LET b == server[s].broker IN
    /\ server[s].at = "await"
    /\ \/ /\ Stopped(s, b) /\ Become(s, [server[s] EXCEPT !.at = "probe", !.broker = Nobody])
          /\ UNCHANGED <<control, events>>
       \/ /\ ~Listening(b) /\ ~Stopped(s, b) /\ Event    \* it is not waited for longer
          /\ Become(s, [server[s] EXCEPT !.at = "probe", !.broker = Nobody])
          /\ UNCHANGED control
       \/ Listening(b) /\ Event /\ Ends(s)
    /\ UNCHANGED <<token, sock, broker, overlap, Others>>

Spawns(s) ==
    LET unused == {b \in Brokers \ {OldBroker} : broker[b].at = "none"}
        b == CHOOSE x \in unused : TRUE
    IN /\ unused # {}
       /\ broker' = [broker EXCEPT ![b] = [at |-> "bind", token |-> server[s].token,
                                           parent |-> s, config |-> Nobody]]
       /\ Become(s, [server[s] EXCEPT !.at = "wait", !.broker = b])
Choose(s) ==
    /\ server[s].at = "probe" /\ server[s].todo = {}
    /\ LET mine == server[s].draining \ {OldBroker}
       IN IF mine = {} THEN Spawns(s)
          ELSE /\ Become(s, [server[s] EXCEPT !.at = "configure", !.draining = @ \ mine])
               /\ UNCHANGED broker
    /\ UNCHANGED <<control, token, sock, overlap, events, Others>>

\* start_and_wait: whichever broker answers at the path is the one.
WaitHealth(s) ==
    /\ server[s].at = "wait"
    /\ \/ /\ Answers("new") /\ Become(s, [server[s] EXCEPT !.at = "configure", !.broker = Nobody])
          /\ UNCHANGED <<control, events>>
       \/ Event /\ Ends(s)
       \/ /\ broker[server[s].broker].at = "down" /\ ~Answers("new")
          /\ Ends(s) /\ UNCHANGED events
    /\ UNCHANGED <<token, sock, broker, overlap, Others>>

\* The web address is bound last: a server that cannot bind it stops its brokers.
Configure(s) ==
    /\ server[s].at = "configure"
    /\ IF Answers("new")
       THEN /\ broker' = [broker EXCEPT ![sock["new"]].config = s]
            /\ Become(s, [server[s] EXCEPT !.at = "up", !.broker = sock["new"]])
            /\ UNCHANGED control
       ELSE Ends(s) /\ UNCHANGED broker
    /\ UNCHANGED <<token, sock, overlap, events, Others>>

-----------------------------------------------------------------------------
(* A running server, told to stop or to restart *)

Up == {s \in Servers : server[s].at \in {"up", "closing"}}

OpenTerminal(s) ==
    /\ server[s].at = "up" /\ Answers("new") /\ broker[sock["new"]].at = "up"
    /\ open' = open \cup {sock["new"]} /\ open' # open
    /\ UNCHANGED <<control, token, sock, server, broker, speaks, overlap, lost, cause, starts, events>>
CloseTerminals(b) ==
    /\ b \in open /\ open' = open \ {b}
    /\ UNCHANGED <<control, token, sock, server, broker, speaks, overlap, lost, cause, starts, events>>

\* retire_empty_brokers
Retire(s) ==
    /\ server[s].at = "up"
    /\ \E b \in server[s].draining :
          /\ Listening(b) /\ b \notin open
          /\ BecomeB(b, "closing")
          /\ Become(s, [server[s] EXCEPT !.draining = @ \ {b}])
    /\ UNCHANGED <<control, token, sock, overlap, events, Others>>
\* One that has died is forgotten, and its socket file removed.
RetireDead(s) ==
    /\ server[s].at = "up"
    /\ \E b \in server[s].draining :
          /\ ~Answers(PathOf(b))
          /\ sock' = [sock EXCEPT ![PathOf(b)] = "none"]
          /\ Become(s, [server[s] EXCEPT !.draining = @ \ {b}])
    /\ UNCHANGED <<control, token, broker, overlap, events, Others>>

\* install_update, restart_broker: the restart follows a moment after the answer.
AskRestart(s) ==
    /\ server[s].at = "up" /\ server[s].later = "none" /\ Event
    /\ \E what \in {"server", "brokers"} :
          /\ what = "brokers" => \E b \in server[s].draining : Listening(b) /\ b \in open
          /\ Become(s, [server[s] EXCEPT !.later = what])
    /\ UNCHANGED <<control, token, sock, broker, open, speaks, overlap, lost, cause, starts>>
RestartNow(s) ==
    /\ s \in Up /\ server[s].later # "none"
    /\ Become(s, [server[s] EXCEPT !.at = "closing", !.later = "none", !.restart = TRUE,
                                   !.brokers = @ \/ server[s].later = "brokers"])
    /\ UNCHANGED <<control, token, sock, broker, overlap, events, Others>>

\* SIGTERM, or the web address is taken: the flags stay as they are.
Stop(s) ==
    /\ server[s].at = "up" /\ Event
    /\ Goes(s, "closing")
    /\ UNCHANGED <<control, token, sock, broker, open, speaks, overlap, lost, cause, starts>>

KeepsBrokers(s) == server[s].restart /\ ~server[s].brokers

\* exec: the same process, whose listeners are closed.
Leaves(s) ==
    /\ Become(s, IF server[s].restart THEN [Off EXCEPT !.at = "claim"] ELSE Off)
    /\ control' = IF control = s THEN "stale" ELSE control

EndServe(s) ==
    /\ server[s].at = "closing"
    /\ IF KeepsBrokers(s) THEN Leaves(s)
       ELSE /\ Become(s, [server[s] EXCEPT !.at = "stopping", !.todo = {"new"} \cup
                             {PathOf(b) : b \in server[s].draining}, !.broker = Nobody])
            /\ UNCHANGED control
    /\ UNCHANGED <<token, sock, broker, overlap, events, Others>>

\* BrokerPool::shutdown, one generation after another
StopBroker(s) ==
    /\ server[s].at = "stopping" /\ server[s].broker = Nobody
    /\ \E p \in server[s].todo :
          LET r == [server[s] EXCEPT !.todo = @ \ {p}]
          IN IF Answers(p)
             THEN /\ Become(s, [r EXCEPT !.broker = sock[p]])
                  /\ Told(sock[p], s, {IF server[s].brokers THEN "confirmed"
                                       ELSE IF server[s].restart THEN "update" ELSE "stop"})
             ELSE Become(s, r) /\ UNCHANGED <<broker, open, lost, cause>>
    /\ UNCHANGED <<control, token, sock, speaks, overlap, starts, events>>
BrokerStopped(s) ==
    LET b == server[s].broker IN
    /\ server[s].at = "stopping" /\ b # Nobody
    /\ \/ Stopped(s, b) /\ UNCHANGED events
       \/ ~Stopped(s, b) /\ Event
    /\ Become(s, [server[s] EXCEPT !.broker = Nobody])
    /\ UNCHANGED <<control, token, sock, broker, overlap, Others>>
AllStopped(s) ==
    /\ server[s].at = "stopping" /\ server[s].todo = {} /\ server[s].broker = Nobody
    /\ Leaves(s)
    /\ UNCHANGED <<token, sock, broker, overlap, events, Others>>

-----------------------------------------------------------------------------
(* run_session_broker *)

\* A broker that binds where another has yet to remove its own file, or the one it
\* found there.
Late(b) == \E o \in Brokers \ {b} : PathOf(o) = PathOf(b) /\ broker[o].at \in {"closed", "stale"}
Listens(b) ==
    /\ BecomeB(b, "up") /\ sock' = [sock EXCEPT ![PathOf(b)] = b]
    /\ overlap' = (overlap \/ Late(b))

BlindClaim(b) == TRUE           \* takes the file over without asking who listens
SocketDead(b) == sock[PathOf(b)] = "stale"      \* connect

BindBroker(b) ==
    /\ broker[b].at = "bind"
    /\ CASE sock[PathOf(b)] = "none" -> Listens(b)
         [] sock[PathOf(b)] # "none" /\ SocketDead(b) ->
              /\ BecomeB(b, "stale") /\ UNCHANGED sock
              /\ overlap' = (overlap \/ \E o \in Brokers \ {b} : broker[o].at = "stale")
         [] OTHER -> BecomeB(b, "down") /\ UNCHANGED <<sock, overlap>>
    /\ UNCHANGED <<control, token, server, events, Others>>
RemoveDead(b) ==
    /\ broker[b].at = "stale"
    /\ IF sock[PathOf(b)] = "none" THEN BecomeB(b, "down") /\ UNCHANGED sock
       ELSE BecomeB(b, "removed") /\ sock' = [sock EXCEPT ![PathOf(b)] = "none"]
    /\ UNCHANGED <<control, token, server, overlap, events, Others>>
Rebind(b) ==
    /\ broker[b].at = "removed"
    /\ IF sock[PathOf(b)] = "none" THEN Listens(b)
       ELSE BecomeB(b, "down") /\ UNCHANGED <<sock, overlap>>
    /\ UNCHANGED <<control, token, server, events, Others>>

CloseListener(b) ==
    /\ broker[b].at = "closing"
    /\ BecomeB(b, "closed") /\ sock' = Lets(b, "stale")
    /\ UNCHANGED <<control, token, server, overlap, events, Others>>
\* After the audio has stopped, the file at its path is removed, whosever it is.
ExitBroker(b) ==
    /\ broker[b].at = "closed"
    /\ BecomeB(b, "down") /\ sock' = [sock EXCEPT ![PathOf(b)] = "none"]
    /\ UNCHANGED <<control, token, server, overlap, events, Others>>

-----------------------------------------------------------------------------
(* Crashes *)

DieServer(s) ==
    /\ server[s].at # "off" /\ Event
    /\ Ends(s)
    /\ UNCHANGED <<token, sock, broker, open, speaks, overlap, lost, cause, starts>>
DieBroker(b) ==
    /\ broker[b].at \notin {"none", "down"} /\ Event
    /\ BecomeB(b, "down") /\ sock' = Lets(b, "stale") /\ open' = open \ {b}
    /\ UNCHANGED <<control, token, server, speaks, overlap, lost, cause, starts>>

-----------------------------------------------------------------------------
\* A broker of an older build may be running, with a token of its own time.
LifeInit ==
    /\ control = "stale" /\ token = "none"
    /\ server = [s \in Servers |-> Off]
    /\ broker = [b \in Brokers |-> IF b = OldBroker THEN [None EXCEPT !.at = "up"] ELSE None]
    /\ sock = [p \in Paths |-> IF p = "old" THEN OldBroker ELSE "none"]
    /\ open = {OldBroker} /\ speaks \in BOOLEAN
    /\ overlap = FALSE /\ lost = FALSE /\ cause = {}
    /\ starts = 0 /\ events = 0

ServerStep(s) ==
    \/ Start(s) \/ Claim(s) \/ RemoveStale(s) \/ Bind(s) \/ LoadToken(s) \/ WriteToken(s)
    \/ Probe(s) \/ AwaitStop(s) \/ Choose(s) \/ WaitHealth(s) \/ Configure(s)
    \/ OpenTerminal(s) \/ Retire(s) \/ RetireDead(s) \/ AskRestart(s) \/ RestartNow(s) \/ Stop(s)
    \/ EndServe(s) \/ StopBroker(s) \/ BrokerStopped(s) \/ AllStopped(s) \/ DieServer(s)
BrokerStep(b) ==
    \/ BindBroker(b) \/ RemoveDead(b) \/ Rebind(b) \/ CloseListener(b) \/ ExitBroker(b)
    \/ CloseTerminals(b) \/ DieBroker(b)
LifeNext == (\E s \in Servers : ServerStep(s)) \/ (\E b \in Brokers : BrokerStep(b))
LifeSpec == LifeInit /\ [][LifeNext]_lifeVars

-----------------------------------------------------------------------------
\* One server at a time goes past the control socket (main.rs:101-104), as long as
\* no two of them were taking over a stale socket at a time.
Inside == {s \in Servers : server[s].at \notin {"off", "claim", "stale", "removed"}}
OneServer == ~overlap => Cardinality(Inside) <= 1

\* The broker a running server configured is the one its clients reach, was
\* configured by no other server since, and knows the server's token, as long as
\* no socket file was taken over by two brokers at a time.
BrokerReached ==
    ~overlap => \A s \in Servers : \A b \in Brokers \ {OldBroker} :
        server[s].at = "up" /\ server[s].broker = b /\ broker[b].at = "up"
        => sock["new"] = b /\ broker[b].config = s /\ broker[b].token = server[s].token

\* A server closes terminals only when it is stopped, when a restart of the brokers
\* was confirmed, or when it cannot speak with the broker: an update keeps them.
UpdateKeepsTerminals == lost => "update" \notin cause /\ (speaks => "protocol" \notin cause)

\* No broker that listens loses its socket file, and its terminals with it.
NoneOrphaned == ~overlap => \A b \in Brokers : Listening(b) => sock[PathOf(b)] = b

LifeSound == OneServer /\ BrokerReached /\ NoneOrphaned /\ UpdateKeepsTerminals
=============================================================================
