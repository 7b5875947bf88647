--------------------------- MODULE ServerLifeProofs ---------------------------
(***************************************************************************)
(* Proofs about ServerLife, for every set of servers and brokers: until    *)
(* two processes have taken over one socket file at a time, one server     *)
(* owns the data directory, no broker loses its socket, and a running      *)
(* server reaches the broker it configured; and no update loses a          *)
(* terminal.                                                               *)
(*                                                                         *)
(* First what a step of a server and one of a broker may do (Moves,        *)
(* BMoves), then, from that alone, that each part of the invariant stays.  *)
(***************************************************************************)
EXTENDS ServerLife, FiniteSetTheorems, TLAPS

\* The names of servers, brokers and what a file may say instead differ.
Distinct == /\ Nobody \notin Servers \cup Brokers /\ OldBroker \in Brokers
            /\ {"none", "stale", "empty"} \cap (Servers \cup Brokers) = {}

-----------------------------------------------------------------------------
(* Types.  A server is Ready once it has read the token.                   *)

Outside == {"off", "claim", "stale", "removed"}
Ready   == {"probe", "await", "wait", "configure", "up", "closing", "stopping"}
Servings == [at : Outside \cup {"token", "write"} \cup Ready, todo : SUBSET Paths,
             token : Servers \cup {Nobody}, draining : SUBSET Brokers,
             broker : Brokers \cup {Nobody}, later : {"none", "server", "brokers"},
             restart : BOOLEAN, brokers : BOOLEAN]
BrokerAts == {"none", "bind", "stale", "removed", "up", "closing", "closed", "down"}
Brokings == [at : BrokerAts, token : Servers \cup {Nobody},
             parent : Servers \cup {Nobody}, config : Servers \cup {Nobody}]

ServerTypes == server \in [Servers -> Servings]
BrokerTypes == broker \in [Brokers -> Brokings]
FileTypes ==
    /\ control \in Servers \cup {"none", "stale"}
    /\ token \in Servers \cup {"none", "empty"}
    /\ sock \in [Paths -> Brokers \cup {"none", "stale"}]
    /\ \A p \in Paths : sock[p] \in Brokers => PathOf(sock[p]) = p
Types == ServerTypes /\ BrokerTypes /\ FileTypes

-----------------------------------------------------------------------------
(* Steps.                                                                  *)

\* A step of s leaves the other servers alone.
SMove(s) == ServerTypes' /\ \A o \in Servers \ {s} : server'[o] = server[o]

\* What a step of s does to the control socket, to the token, to the brokers, and to
\* what it relies on when it runs and when it stops.
ControlStep(s) ==
    \/ /\ control' = control /\ overlap' = overlap /\ server'[s].at # "stale"
       /\ server'[s].at \notin Outside => server[s].at \notin Outside
    \/ /\ server'[s].at \in {"off", "claim"} /\ overlap' = overlap
       /\ control' = IF control = s THEN "stale" ELSE control
    \/ control = "none" /\ control' = s /\ server'[s].at = "token" /\ overlap' = overlap
    \/ /\ control = "stale" /\ control' = control /\ server'[s].at = "stale"
       /\ overlap' = (overlap \/ \E o \in Servers \ {s} : server[o].at = "stale")
    \/ /\ server[s].at = "stale" /\ control' = "none" /\ server'[s].at = "removed"
       /\ overlap' = overlap
TokenStep(s) ==
    \/ /\ token' = token /\ server'[s].at # "write"
       /\ server'[s].at \in Ready => server[s].at \in Ready /\ server'[s].token = server[s].token
    \/ token \in Servers /\ token' = token /\ server'[s].at = "probe" /\ server'[s].token = token
    \/ token = "none" /\ token' = "empty" /\ server'[s].at = "write"
    \/ server[s].at = "write" /\ token' = s /\ server'[s].at = "probe" /\ server'[s].token = s
ConfigStep(s) ==
    \/ server'[s].at = "up" => server[s].at = "up" /\ server'[s].broker = server[s].broker
    \/ /\ server[s].at = "configure" /\ Answers("new") /\ server'[s].broker = sock["new"]
       /\ broker' = [broker EXCEPT ![sock["new"]].config = s]
StopStep(s) ==
    server'[s].at = "stopping" =>
        \/ ~(server'[s].restart /\ ~server'[s].brokers)
        \/ /\ server[s].at = "stopping"
           /\ server'[s].restart = server[s].restart /\ server'[s].brokers = server[s].brokers
BrokersStep(s) ==
    \/ UNCHANGED <<broker, sock>>
    \/ \E b \in Brokers : Listening(b) /\ BecomeB(b, "closing") /\ UNCHANGED sock
    \/ \E b \in Brokers \ {OldBroker} :
          /\ server[s].at = "probe" /\ broker[b].at = "none" /\ UNCHANGED sock
          /\ broker' = [broker EXCEPT ![b] = [at |-> "bind", token |-> server[s].token,
                                              parent |-> s, config |-> Nobody]]
    \/ /\ server[s].at = "configure" /\ Answers("new") /\ UNCHANGED sock
       /\ broker' = [broker EXCEPT ![sock["new"]].config = s]
    \/ /\ UNCHANGED broker
       /\ \E p \in Paths : ~Answers(p) /\ sock' = [sock EXCEPT ![p] = "none"]
Moves(s) == /\ SMove(s) /\ ControlStep(s) /\ TokenStep(s) /\ ConfigStep(s) /\ StopStep(s)
            /\ BrokersStep(s) /\ UNCHANGED speaks

\* What a step of the broker b does.
BMoves(b) ==
    /\ UNCHANGED <<control, token, server, speaks, cause>>
    /\ \/ /\ broker[b].at \in {"bind", "removed"} /\ sock[PathOf(b)] = "none"
          /\ BecomeB(b, "up") /\ sock' = [sock EXCEPT ![PathOf(b)] = b]
          /\ overlap' = (overlap \/ Late(b))
       \/ /\ broker[b].at = "bind" /\ sock[PathOf(b)] = "stale" /\ BecomeB(b, "stale")
          /\ UNCHANGED sock
       \/ broker[b].at \in {"bind", "stale", "removed"} /\ BecomeB(b, "down") /\ UNCHANGED sock
       \/ /\ broker[b].at = "stale" /\ BecomeB(b, "removed")
          /\ sock' = [sock EXCEPT ![PathOf(b)] = "none"]
       \/ broker[b].at = "closing" /\ BecomeB(b, "closed") /\ sock' = Lets(b, "stale")
       \/ /\ broker[b].at = "closed" /\ BecomeB(b, "down")
          /\ sock' = [sock EXCEPT ![PathOf(b)] = "none"]
       \/ broker[b].at \notin {"none", "down"} /\ BecomeB(b, "down") /\ sock' = Lets(b, "stale")
       \/ UNCHANGED <<broker, sock>>
    /\ overlap => overlap'

-----------------------------------------------------------------------------
(* The invariant.                                                          *)

\* One server writes the token, and the ready ones and all brokers of this build
\* have read it.
Tokens ==
    /\ \A s \in Servers :
          /\ server[s].at = "write" =>
                token = "empty" /\ \A o \in Servers \ {s} : server[o].at # "write"
          /\ server[s].at \in Ready => token \in Servers /\ server[s].token = token
    /\ \A b \in Brokers \ {OldBroker} :
          broker[b].at # "none" => token \in Servers /\ broker[b].token = token
\* Terminals are closed for a reason, and one that stops its brokers was not told
\* to update.
Causes ==
    /\ "update" \notin cause /\ (speaks => "protocol" \notin cause)
    /\ \A s \in Servers : server[s].at = "stopping" => ~KeepsBrokers(s)
\* Who is past the control socket holds it, and one at a time removes a stale one.
Owner ==
    ~overlap => \A s \in Servers :
        /\ server[s].at \notin Outside => control = s
        /\ server[s].at = "stale" =>
              control = "stale" /\ \A o \in Servers \ {s} : server[o].at # "stale"
\* Who listens has the file at its path, and nobody listens where another is about
\* to remove it.
Sockets ==
    ~overlap => \A b \in Brokers :
        /\ Listening(b) => sock[PathOf(b)] = b
        /\ broker[b].at \in {"stale", "closed"} =>
              \A o \in Brokers \ {b} : PathOf(o) = PathOf(b) => ~Listening(o)
\* A running server's broker is one of this build, configured by nobody else since.
Configured ==
    ~overlap => \A s \in Servers : server[s].at = "up" =>
        \E b \in Brokers \ {OldBroker} :
            /\ server[s].broker = b /\ broker[b].config = s
            /\ broker[b].at \in {"up", "closing", "closed", "down"}

LifeInv == Types /\ Tokens /\ Causes /\ Owner /\ Sockets /\ Configured

-----------------------------------------------------------------------------
(* What the steps do.                                                      *)

\* A path is one of the two.
LEMMA PathsAre ==
    ASSUME NEW b PROVE PathOf(b) \in Paths
  BY DEF PathOf, Paths

\* A server that becomes a proper record; and a broker that goes on.
LEMMA Becoming ==
    ASSUME ServerTypes, NEW s \in Servers, NEW r \in Servings, Become(s, r)
    PROVE  SMove(s) /\ server'[s] = r
  BY DEF ServerTypes, SMove, Become

LEMMA BecomingB ==
    ASSUME BrokerTypes, NEW b \in Brokers, NEW at \in BrokerAts, BecomeB(b, at)
    PROVE  /\ BrokerTypes' /\ \A o \in Brokers \ {b} : broker'[o] = broker[o]
           /\ broker'[b] = [broker[b] EXCEPT !.at = at]
  BY DEF BrokerTypes, Brokings, BecomeB

\* So do those that only go to another place, and those that end.
LEMMA GoingKeeps ==
    ASSUME ServerTypes, NEW s \in Servers, NEW at \in Outside \cup {"token", "write"} \cup Ready,
           Goes(s, at)
    PROVE  SMove(s) /\ server'[s] = [server[s] EXCEPT !.at = at]
<1>1. [server[s] EXCEPT !.at = at] \in Servings  BY DEF ServerTypes, Servings
<1> QED  BY <1>1, Becoming DEF Goes

LEMMA EndsKeeps ==
    ASSUME ServerTypes, NEW s \in Servers, Ends(s) PROVE SMove(s) /\ server'[s] = Off
<1>1. Off \in Servings  BY DEF Off, Servings, Outside
<1> QED  BY <1>1, Becoming DEF Ends

\* No step of a server gives it a value of another type.
LEMMA ServersKept ==
    ASSUME Distinct, Types, NEW s \in Servers, ServerStep(s) PROVE SMove(s)
<1> USE DEF Types
<1> DEFINE r0 == server[s]
<1>0. server[s] \in Servings  BY DEF ServerTypes
<1>1. ASSUME UNCHANGED server PROVE SMove(s)  BY <1>1 DEF SMove, ServerTypes
<1>2. CASE Start(s)
  BY <1>2, GoingKeeps DEF Start, Outside
<1>3. CASE Claim(s)
  BY <1>3, GoingKeeps, EndsKeeps DEF Claim, Outside
<1>4. CASE RemoveStale(s)
  BY <1>4, GoingKeeps, EndsKeeps DEF RemoveStale, Outside
<1>5. CASE Bind(s)
  BY <1>5, GoingKeeps, EndsKeeps DEF Bind
<1>6. ASSUME NEW t \in Servers, Scan(s, t) PROVE SMove(s)
  <2> DEFINE r == [server[s] EXCEPT !.at = "probe", !.token = t,
                                    !.todo = {p \in Paths : sock[p] # "none"}]
  <2>1. r \in Servings  BY <1>0 DEF Servings, Ready
  <2> QED  BY <1>6, <2>1, Becoming DEF Scan
<1>7. CASE LoadToken(s)
  BY <1>6, <1>7, GoingKeeps, EndsKeeps DEF LoadToken, FileTypes
<1>8. CASE WriteToken(s)
  BY <1>6, <1>8 DEF WriteToken
<1>9. CASE Probe(s)
  <2> DEFINE rest(p) == [server[s] EXCEPT !.todo = @ \ {p}]
  <2>1. PICK p \in server[s].todo :
          \/ Become(s, [rest(p) EXCEPT !.draining = @ \cup {sock[p]}]) /\ Answers(p)
          \/ Become(s, [rest(p) EXCEPT !.at = "await", !.broker = sock[p]]) /\ Answers(p)
          \/ Become(s, rest(p))
    BY <1>9 DEF Probe
  <2>2. /\ Answers(p) => [rest(p) EXCEPT !.draining = @ \cup {sock[p]}] \in Servings
        /\ Answers(p) => [rest(p) EXCEPT !.at = "await", !.broker = sock[p]] \in Servings
        /\ rest(p) \in Servings
    BY <1>0 DEF Servings, Answers, Listening, Ready
  <2> QED  BY <2>1, <2>2, Becoming
<1>10. CASE AwaitStop(s)
  <2>1. [server[s] EXCEPT !.at = "probe", !.broker = Nobody] \in Servings
    BY <1>0 DEF Servings, Ready
  <2> QED  BY <1>10, <2>1, Becoming, EndsKeeps DEF AwaitStop
<1>11. CASE Choose(s)
  <2>1. ASSUME NEW b \in Brokers
        PROVE  [server[s] EXCEPT !.at = "wait", !.broker = b] \in Servings
    BY <1>0 DEF Servings, Ready
  <2>2. [server[s] EXCEPT !.at = "configure",
                          !.draining = @ \ (server[s].draining \ {OldBroker})] \in Servings
    BY <1>0 DEF Servings, Ready
  <2>3. Spawns(s) => \E b \in Brokers : Become(s, [server[s] EXCEPT !.at = "wait", !.broker = b])
    BY DEF Spawns
  <2> QED  BY <1>11, <2>1, <2>2, <2>3, Becoming DEF Choose
<1>12. CASE WaitHealth(s)
  <2>1. [server[s] EXCEPT !.at = "configure", !.broker = Nobody] \in Servings
    BY <1>0 DEF Servings, Ready
  <2> QED  BY <1>12, <2>1, Becoming, EndsKeeps DEF WaitHealth
<1>13. CASE Configure(s)
  <2>1. Answers("new") => [server[s] EXCEPT !.at = "up", !.broker = sock["new"]] \in Servings
    BY <1>0 DEF Servings, Ready, Answers, Listening
  <2> QED  BY <1>13, <2>1, Becoming, EndsKeeps DEF Configure
<1>14. CASE OpenTerminal(s)
  BY <1>1, <1>14 DEF OpenTerminal
<1>15. CASE Retire(s)
  <2>1. ASSUME NEW b PROVE [server[s] EXCEPT !.draining = @ \ {b}] \in Servings
    BY <1>0 DEF Servings
  <2> QED  BY <1>15, <2>1, Becoming DEF Retire
<1>16. CASE RetireDead(s)
  <2>1. ASSUME NEW b PROVE [server[s] EXCEPT !.draining = @ \ {b}] \in Servings
    BY <1>0 DEF Servings
  <2> QED  BY <1>16, <2>1, Becoming DEF RetireDead
<1>17. CASE AskRestart(s)
  <2>1. ASSUME NEW w \in {"server", "brokers"}
        PROVE  [server[s] EXCEPT !.later = w] \in Servings
    BY <1>0 DEF Servings
  <2> QED  BY <1>17, <2>1, Becoming DEF AskRestart
<1>18. CASE RestartNow(s)
  <2>1. [server[s] EXCEPT !.at = "closing", !.later = "none", !.restart = TRUE,
                          !.brokers = @ \/ server[s].later = "brokers"] \in Servings
    BY <1>0 DEF Servings, Ready
  <2> QED  BY <1>18, <2>1, Becoming DEF RestartNow
<1>19. CASE Stop(s)
  BY <1>19, GoingKeeps DEF Stop, Ready
<1>20. ASSUME Leaves(s) PROVE SMove(s)
  <2>1. Off \in Servings /\ [Off EXCEPT !.at = "claim"] \in Servings
    BY DEF Off, Servings, Outside
  <2> QED  BY <1>20, <2>1, Becoming DEF Leaves
<1>21. CASE EndServe(s)
  <2> DEFINE r == [server[s] EXCEPT !.at = "stopping", !.todo = {"new"} \cup
                             {PathOf(b) : b \in server[s].draining}, !.broker = Nobody]
  <2>1. r \in Servings  BY <1>0, PathsAre DEF Servings, Ready, Paths
  <2> QED  BY <1>20, <1>21, <2>1, Becoming DEF EndServe
<1>22. CASE StopBroker(s)
  <2> DEFINE rest(p) == [server[s] EXCEPT !.todo = @ \ {p}]
  <2>1. PICK p \in server[s].todo :
          \/ Become(s, [rest(p) EXCEPT !.broker = sock[p]]) /\ Answers(p)
          \/ Become(s, rest(p))
    BY <1>22 DEF StopBroker
  <2>2. /\ Answers(p) => [rest(p) EXCEPT !.broker = sock[p]] \in Servings
        /\ rest(p) \in Servings
    BY <1>0 DEF Servings, Answers, Listening
  <2> QED  BY <2>1, <2>2, Becoming
<1>23. CASE BrokerStopped(s)
  <2>1. [server[s] EXCEPT !.broker = Nobody] \in Servings  BY <1>0 DEF Servings
  <2> QED  BY <1>23, <2>1, Becoming DEF BrokerStopped
<1>24. CASE AllStopped(s)
  BY <1>20, <1>24 DEF AllStopped
<1>25. CASE DieServer(s)
  BY <1>25, EndsKeeps DEF DieServer
<1> QED
  BY <1>2, <1>3, <1>4, <1>5, <1>7, <1>8, <1>9, <1>10, <1>11, <1>12, <1>13, <1>14, <1>15,
     <1>16, <1>17,
     <1>18, <1>19, <1>21, <1>22, <1>23, <1>24, <1>25 DEF ServerStep

\* What each step of a server does, told by the few kinds that matter.
LEMMA ServerMoves ==
    ASSUME Distinct, Types, NEW s \in Servers, ServerStep(s) PROVE Moves(s)
<1> SMove(s)  BY ServersKept
<1>0. server[s] \in Servings /\ DOMAIN server = Servers /\ DOMAIN broker = Brokers
  BY DEF Types, ServerTypes, BrokerTypes
<1>a. ASSUME NEW r, Become(s, r) PROVE server'[s] = r
  BY <1>0, <1>a DEF Become
<1>b. ASSUME NEW at, Goes(s, at)
      PROVE  /\ server'[s].at = at /\ server'[s].token = server[s].token
             /\ server'[s].broker = server[s].broker
  BY <1>0, <1>a, <1>b DEF Goes, Servings
<1>c. ASSUME NEW t, Scan(s, t) PROVE server'[s].at = "probe" /\ server'[s].token = t
  BY <1>0, <1>a, <1>c DEF Scan, Servings
<1>d. Ends(s) => server'[s].at = "off" /\ control' = IF control = s THEN "stale" ELSE control
  BY <1>a DEF Ends, Off
<1>e. Leaves(s) => /\ server'[s].at \in {"off", "claim"}
                   /\ control' = IF control = s THEN "stale" ELSE control
  BY <1>a DEF Leaves, Off
<1>f. ASSUME NEW p, Answers(p), NEW why, Told(sock[p], s, why), UNCHANGED sock
      PROVE  BrokersStep(s)
  BY <1>f DEF Answers, Listening, Told, BrokersStep
<1>g. ASSUME NEW b, Listening(b), BecomeB(b, "closing"), UNCHANGED sock PROVE BrokersStep(s)
  BY <1>g DEF Listening, BrokersStep
<1>1. CASE Start(s)
  <2>0. server'[s].at = "claim" /\ server[s].at = "off"
    BY <1>0, <1>a, <1>b, <1>c, <1>1 DEF Start, Servings
  <2>1. ControlStep(s)  BY <1>d, <1>e, <1>1, <2>0 DEF Start, Others, ControlStep, Outside
  <2>2. TokenStep(s)  BY <1>d, <1>e, <1>1, <2>0 DEF Start, TokenStep, Ready
  <2>3. ConfigStep(s) /\ StopStep(s)
    BY <1>d, <1>e, <1>1, <2>0 DEF Start, ConfigStep, StopStep
  <2>4. BrokersStep(s) /\ UNCHANGED speaks  BY <1>1, <2>0 DEF Start, BrokersStep, Others
  <2> QED  BY <2>1, <2>2, <2>3, <2>4 DEF Moves
<1>2. CASE Claim(s)
  <2>0. \/ server'[s].at = "token" /\ control = "none" /\ control' = s /\ UNCHANGED overlap
        \/ /\ server'[s].at = "stale" /\ control = "stale" /\ UNCHANGED control
           /\ overlap' = (overlap \/ \E o \in Servers \ {s} : server[o].at = "stale")
        \/ Ends(s) /\ UNCHANGED overlap
    BY <1>0, <1>a, <1>b, <1>c, <1>2 DEF Claim, Connects, Servings
  <2>1. ControlStep(s)  BY <1>d, <1>e, <1>2, <2>0 DEF Claim, Others, ControlStep, Outside
  <2>2. TokenStep(s)  BY <1>d, <1>e, <1>2, <2>0 DEF Claim, TokenStep, Ready
  <2>3. ConfigStep(s) /\ StopStep(s)
    BY <1>d, <1>e, <1>2, <2>0 DEF Claim, ConfigStep, StopStep
  <2>4. BrokersStep(s) /\ UNCHANGED speaks  BY <1>2, <2>0 DEF Claim, BrokersStep, Others
  <2> QED  BY <2>1, <2>2, <2>3, <2>4 DEF Moves
<1>3. CASE RemoveStale(s)
  <2>0. \/ Ends(s)
        \/ server'[s].at = "removed" /\ control' = "none"
    BY <1>0, <1>a, <1>b, <1>c, <1>3 DEF RemoveStale, Servings
  <2>1. ControlStep(s)
    BY <1>d, <1>e, <1>3, <2>0 DEF RemoveStale, Others, ControlStep, Outside
  <2>2. TokenStep(s)  BY <1>d, <1>e, <1>3, <2>0 DEF RemoveStale, TokenStep, Ready
  <2>3. ConfigStep(s) /\ StopStep(s)
    BY <1>d, <1>e, <1>3, <2>0 DEF RemoveStale, ConfigStep, StopStep
  <2>4. BrokersStep(s) /\ UNCHANGED speaks
    BY <1>3, <2>0 DEF RemoveStale, BrokersStep, Others
  <2> QED  BY <2>1, <2>2, <2>3, <2>4 DEF Moves
<1>4. CASE Bind(s)
  <2>0. \/ Ends(s)
        \/ server'[s].at = "token" /\ control = "none" /\ control' = s
    BY <1>0, <1>a, <1>b, <1>c, <1>4 DEF Bind, Servings
  <2>1. ControlStep(s)  BY <1>d, <1>e, <1>4, <2>0 DEF Bind, Others, ControlStep, Outside
  <2>2. TokenStep(s)  BY <1>d, <1>e, <1>4, <2>0 DEF Bind, TokenStep, Ready
  <2>3. ConfigStep(s) /\ StopStep(s)
    BY <1>d, <1>e, <1>4, <2>0 DEF Bind, ConfigStep, StopStep
  <2>4. BrokersStep(s) /\ UNCHANGED speaks  BY <1>4, <2>0 DEF Bind, BrokersStep, Others
  <2> QED  BY <2>1, <2>2, <2>3, <2>4 DEF Moves
<1>5. CASE LoadToken(s)
  <2>0. \/ server'[s].at = "write" /\ token = "none" /\ token' = "empty" /\ UNCHANGED control
        \/ Ends(s) /\ UNCHANGED token
        \/ /\ server'[s].at = "probe" /\ server'[s].token = token /\ token \in Servers
           /\ UNCHANGED <<control, token>>
    BY <1>0, <1>a, <1>b, <1>c, <1>5 DEF LoadToken, FileTypes, Types, Servings
  <2>1. ControlStep(s)
    BY <1>d, <1>e, <1>5, <2>0 DEF LoadToken, Others, ControlStep, Outside
  <2>2. TokenStep(s)  BY <1>d, <1>e, <1>5, <2>0 DEF LoadToken, TokenStep, Ready
  <2>3. ConfigStep(s) /\ StopStep(s)
    BY <1>d, <1>e, <1>5, <2>0 DEF LoadToken, ConfigStep, StopStep
  <2>4. BrokersStep(s) /\ UNCHANGED speaks  BY <1>5, <2>0 DEF LoadToken, BrokersStep, Others
  <2> QED  BY <2>1, <2>2, <2>3, <2>4 DEF Moves
<1>6. CASE WriteToken(s)
  <2>0. server'[s].at = "probe" /\ server'[s].token = s
    BY <1>0, <1>a, <1>b, <1>c, <1>6 DEF WriteToken, Servings
  <2>1. ControlStep(s)
    BY <1>d, <1>e, <1>6, <2>0 DEF WriteToken, Others, ControlStep, Outside
  <2>2. TokenStep(s)  BY <1>d, <1>e, <1>6, <2>0 DEF WriteToken, TokenStep, Ready
  <2>3. ConfigStep(s) /\ StopStep(s)
    BY <1>d, <1>e, <1>6, <2>0 DEF WriteToken, ConfigStep, StopStep
  <2>4. BrokersStep(s) /\ UNCHANGED speaks
    BY <1>6, <2>0 DEF WriteToken, BrokersStep, Others
  <2> QED  BY <2>1, <2>2, <2>3, <2>4 DEF Moves
<1>7. CASE Probe(s)
  <2>0. server'[s].at \in {"probe", "await"} /\ server'[s].token = server[s].token
    <3> DEFINE rest(p) == [server[s] EXCEPT !.todo = @ \ {p}]
    <3>1. PICK p : \/ Become(s, [rest(p) EXCEPT !.draining = @ \cup {sock[p]}])
                   \/ Become(s, [rest(p) EXCEPT !.at = "await", !.broker = sock[p]])
                   \/ Become(s, rest(p))
      BY <1>7 DEF Probe
    <3>2. server[s].at = "probe"  BY <1>7 DEF Probe
    <3> QED  BY <1>0, <1>a, <3>1, <3>2 DEF Servings
  <2>1. ControlStep(s)  BY <1>d, <1>e, <1>7, <2>0 DEF Probe, Others, ControlStep, Outside
  <2>2. TokenStep(s)  BY <1>d, <1>e, <1>7, <2>0 DEF Probe, TokenStep, Ready
  <2>3. ConfigStep(s) /\ StopStep(s)
    BY <1>d, <1>e, <1>7, <2>0 DEF Probe, ConfigStep, StopStep
  <2>4. BrokersStep(s) /\ UNCHANGED speaks
    BY <1>f, <1>7, <2>0 DEF Probe, BrokersStep, Others
  <2> QED  BY <2>1, <2>2, <2>3, <2>4 DEF Moves
<1>8. CASE AwaitStop(s)
  <2>0. \/ Ends(s)
        \/ server'[s].at = "probe" /\ server'[s].token = server[s].token /\ UNCHANGED control
    BY <1>0, <1>a, <1>b, <1>c, <1>8 DEF AwaitStop, Servings
  <2>1. ControlStep(s)
    BY <1>d, <1>e, <1>8, <2>0 DEF AwaitStop, Others, ControlStep, Outside
  <2>2. TokenStep(s)  BY <1>d, <1>e, <1>8, <2>0 DEF AwaitStop, TokenStep, Ready
  <2>3. ConfigStep(s) /\ StopStep(s)
    BY <1>d, <1>e, <1>8, <2>0 DEF AwaitStop, ConfigStep, StopStep
  <2>4. BrokersStep(s) /\ UNCHANGED speaks  BY <1>8, <2>0 DEF AwaitStop, BrokersStep, Others
  <2> QED  BY <2>1, <2>2, <2>3, <2>4 DEF Moves
<1>9. CASE Choose(s)
  <2>0. server'[s].at \in {"wait", "configure"} /\ server'[s].token = server[s].token
    <3> DEFINE mine == server[s].draining \ {OldBroker}
    <3>1. Spawns(s) => \E b : Become(s, [server[s] EXCEPT !.at = "wait", !.broker = b])
      BY DEF Spawns
    <3>2. ASSUME NEW b, Become(s, [server[s] EXCEPT !.at = "wait", !.broker = b])
          PROVE  server'[s].at = "wait" /\ server'[s].token = server[s].token
      BY <1>0, <1>a, <3>2 DEF Servings
    <3>3. ASSUME Become(s, [server[s] EXCEPT !.at = "configure", !.draining = @ \ mine])
          PROVE  server'[s].at = "configure" /\ server'[s].token = server[s].token
      BY <1>0, <1>a, <3>3 DEF Servings
    <3> QED  BY <1>9, <3>1, <3>2, <3>3 DEF Choose
  <2>1. ControlStep(s)  BY <1>d, <1>e, <1>9, <2>0 DEF Choose, Others, ControlStep, Outside
  <2>2. TokenStep(s)  BY <1>d, <1>e, <1>9, <2>0 DEF Choose, TokenStep, Ready
  <2>3. ConfigStep(s) /\ StopStep(s)
    BY <1>d, <1>e, <1>9, <2>0 DEF Choose, ConfigStep, StopStep
  <2>4. BrokersStep(s) /\ UNCHANGED speaks
    BY <1>9, <2>0 DEF Choose, BrokersStep, Others, Spawns
  <2> QED  BY <2>1, <2>2, <2>3, <2>4 DEF Moves
<1>10. CASE WaitHealth(s)
  <2>0. \/ Ends(s)
        \/ server'[s].at = "configure" /\ server'[s].token = server[s].token /\ UNCHANGED control
    BY <1>0, <1>a, <1>b, <1>c, <1>10 DEF WaitHealth, Servings
  <2>1. ControlStep(s)
    BY <1>d, <1>e, <1>10, <2>0 DEF WaitHealth, Others, ControlStep, Outside
  <2>2. TokenStep(s)  BY <1>d, <1>e, <1>10, <2>0 DEF WaitHealth, TokenStep, Ready
  <2>3. ConfigStep(s) /\ StopStep(s)
    BY <1>d, <1>e, <1>10, <2>0 DEF WaitHealth, ConfigStep, StopStep
  <2>4. BrokersStep(s) /\ UNCHANGED speaks
    BY <1>10, <2>0 DEF WaitHealth, BrokersStep, Others
  <2> QED  BY <2>1, <2>2, <2>3, <2>4 DEF Moves
<1>11. CASE Configure(s)
  <2>0. \/ Ends(s) /\ UNCHANGED broker
        \/ /\ server'[s].at = "up" /\ server'[s].token = server[s].token /\ UNCHANGED control
           /\ Answers("new") /\ server'[s].broker = sock["new"]
           /\ broker' = [broker EXCEPT ![sock["new"]].config = s]
    BY <1>0, <1>a, <1>b, <1>c, <1>11 DEF Configure, Servings
  <2>1. ControlStep(s)
    BY <1>d, <1>e, <1>11, <2>0 DEF Configure, Others, ControlStep, Outside
  <2>2. TokenStep(s)  BY <1>d, <1>e, <1>11, <2>0 DEF Configure, TokenStep, Ready
  <2>3. ConfigStep(s) /\ StopStep(s)
    BY <1>d, <1>e, <1>11, <2>0 DEF Configure, ConfigStep, StopStep
  <2>4. BrokersStep(s) /\ UNCHANGED speaks
    BY <1>11, <2>0 DEF Configure, BrokersStep, Others
  <2> QED  BY <2>1, <2>2, <2>3, <2>4 DEF Moves
<1>12. CASE OpenTerminal(s)
  <2>0. server'[s] = server[s]
    BY <1>0, <1>a, <1>b, <1>c, <1>12 DEF OpenTerminal, Servings
  <2>1. ControlStep(s)
    BY <1>d, <1>e, <1>12, <2>0 DEF OpenTerminal, Others, ControlStep, Outside
  <2>2. TokenStep(s)  BY <1>d, <1>e, <1>12, <2>0 DEF OpenTerminal, TokenStep, Ready
  <2>3. ConfigStep(s) /\ StopStep(s)
    BY <1>d, <1>e, <1>12, <2>0 DEF OpenTerminal, ConfigStep, StopStep
  <2>4. BrokersStep(s) /\ UNCHANGED speaks
    BY <1>12, <2>0 DEF OpenTerminal, BrokersStep, Others
  <2> QED  BY <2>1, <2>2, <2>3, <2>4 DEF Moves
<1>13. CASE Retire(s)
  <2>0. /\ server'[s].token = server[s].token /\ server'[s].at = "up"
        /\ server'[s].broker = server[s].broker
    BY <1>0, <1>a, <1>b, <1>c, <1>13 DEF Retire, Servings
  <2>1. ControlStep(s)  BY <1>d, <1>e, <1>13, <2>0 DEF Retire, Others, ControlStep, Outside
  <2>2. TokenStep(s)  BY <1>d, <1>e, <1>13, <2>0 DEF Retire, TokenStep, Ready
  <2>3. ConfigStep(s) /\ StopStep(s)
    BY <1>d, <1>e, <1>13, <2>0 DEF Retire, ConfigStep, StopStep
  <2>4. BrokersStep(s) /\ UNCHANGED speaks
    BY <1>g, <1>13, <2>0 DEF Retire, BrokersStep, Others
  <2> QED  BY <2>1, <2>2, <2>3, <2>4 DEF Moves
<1>14. CASE RetireDead(s)
  <2>0. /\ server'[s].token = server[s].token /\ server'[s].at = "up"
        /\ server'[s].broker = server[s].broker
    BY <1>0, <1>a, <1>b, <1>c, <1>14 DEF RetireDead, Servings
  <2>1. ControlStep(s)
    BY <1>d, <1>e, <1>14, <2>0 DEF RetireDead, Others, ControlStep, Outside
  <2>2. TokenStep(s)  BY <1>d, <1>e, <1>14, <2>0 DEF RetireDead, TokenStep, Ready
  <2>3. ConfigStep(s) /\ StopStep(s)
    BY <1>d, <1>e, <1>14, <2>0 DEF RetireDead, ConfigStep, StopStep
  <2>4. BrokersStep(s) /\ UNCHANGED speaks
    BY PathsAre, <1>14, <2>0 DEF RetireDead, BrokersStep, Others
  <2> QED  BY <2>1, <2>2, <2>3, <2>4 DEF Moves
<1>15. CASE AskRestart(s)
  <2>0. /\ server'[s].token = server[s].token /\ server'[s].at = "up"
        /\ server'[s].broker = server[s].broker
    BY <1>0, <1>a, <1>b, <1>c, <1>15 DEF AskRestart, Servings
  <2>1. ControlStep(s)
    BY <1>d, <1>e, <1>15, <2>0 DEF AskRestart, Others, ControlStep, Outside
  <2>2. TokenStep(s)  BY <1>d, <1>e, <1>15, <2>0 DEF AskRestart, TokenStep, Ready
  <2>3. ConfigStep(s) /\ StopStep(s)
    BY <1>d, <1>e, <1>15, <2>0 DEF AskRestart, ConfigStep, StopStep
  <2>4. BrokersStep(s) /\ UNCHANGED speaks
    BY <1>15, <2>0 DEF AskRestart, BrokersStep, Others
  <2> QED  BY <2>1, <2>2, <2>3, <2>4 DEF Moves
<1>16. CASE RestartNow(s)
  <2>0. /\ server'[s].at = "closing" /\ server'[s].token = server[s].token
        /\ server[s].at \in {"up", "closing"}
    <3>1. server[s].at \in {"up", "closing"}  BY <1>16 DEF RestartNow, Up
    <3>2. server'[s] = [server[s] EXCEPT !.at = "closing", !.later = "none", !.restart = TRUE,
                                         !.brokers = @ \/ server[s].later = "brokers"]
      BY <1>a, <1>16 DEF RestartNow
    <3> QED  BY <1>0, <3>1, <3>2 DEF Servings
  <2>1. ControlStep(s)
    BY <1>d, <1>e, <1>16, <2>0 DEF RestartNow, Others, ControlStep, Outside
  <2>2. TokenStep(s)  BY <1>d, <1>e, <1>16, <2>0 DEF RestartNow, TokenStep, Ready
  <2>3. ConfigStep(s) /\ StopStep(s)
    BY <1>d, <1>e, <1>16, <2>0 DEF RestartNow, ConfigStep, StopStep
  <2>4. BrokersStep(s) /\ UNCHANGED speaks
    BY <1>16, <2>0 DEF RestartNow, BrokersStep, Others
  <2> QED  BY <2>1, <2>2, <2>3, <2>4 DEF Moves
<1>17. CASE Stop(s)
  <2>0. server'[s].at = "closing" /\ server'[s].token = server[s].token
    BY <1>0, <1>a, <1>b, <1>c, <1>17 DEF Stop, Servings
  <2>1. ControlStep(s)  BY <1>d, <1>e, <1>17, <2>0 DEF Stop, Others, ControlStep, Outside
  <2>2. TokenStep(s)  BY <1>d, <1>e, <1>17, <2>0 DEF Stop, TokenStep, Ready
  <2>3. ConfigStep(s) /\ StopStep(s)
    BY <1>d, <1>e, <1>17, <2>0 DEF Stop, ConfigStep, StopStep
  <2>4. BrokersStep(s) /\ UNCHANGED speaks  BY <1>17, <2>0 DEF Stop, BrokersStep, Others
  <2> QED  BY <2>1, <2>2, <2>3, <2>4 DEF Moves
<1>18. CASE EndServe(s)
  <2>0. \/ Leaves(s)
        \/ /\ server'[s].at = "stopping" /\ server'[s].token = server[s].token /\ UNCHANGED control
           /\ ~(server'[s].restart /\ ~server'[s].brokers)
    BY <1>0, <1>a, <1>b, <1>c, <1>18 DEF EndServe, KeepsBrokers, Servings
  <2>1. ControlStep(s)
    BY <1>d, <1>e, <1>18, <2>0 DEF EndServe, Others, ControlStep, Outside
  <2>2. TokenStep(s)  BY <1>d, <1>e, <1>18, <2>0 DEF EndServe, TokenStep, Ready
  <2>3. ConfigStep(s) /\ StopStep(s)
    BY <1>d, <1>e, <1>18, <2>0 DEF EndServe, ConfigStep, StopStep
  <2>4. BrokersStep(s) /\ UNCHANGED speaks  BY <1>18, <2>0 DEF EndServe, BrokersStep, Others
  <2> QED  BY <2>1, <2>2, <2>3, <2>4 DEF Moves
<1>19. CASE StopBroker(s)
  <2>0. /\ server'[s].at = "stopping" /\ server'[s].token = server[s].token
        /\ server'[s].restart = server[s].restart /\ server'[s].brokers = server[s].brokers
    BY <1>0, <1>a, <1>b, <1>c, <1>19 DEF StopBroker, Servings
  <2>1. ControlStep(s)
    BY <1>d, <1>e, <1>19, <2>0 DEF StopBroker, Others, ControlStep, Outside
  <2>2. TokenStep(s)  BY <1>d, <1>e, <1>19, <2>0 DEF StopBroker, TokenStep, Ready
  <2>3. ConfigStep(s) /\ StopStep(s)
    BY <1>d, <1>e, <1>19, <2>0 DEF StopBroker, ConfigStep, StopStep
  <2>4. BrokersStep(s) /\ UNCHANGED speaks
    BY <1>f, <1>19, <2>0 DEF StopBroker, BrokersStep, Others
  <2> QED  BY <2>1, <2>2, <2>3, <2>4 DEF Moves
<1>20. CASE BrokerStopped(s)
  <2>0. /\ server'[s].at = "stopping" /\ server'[s].token = server[s].token
        /\ server'[s].restart = server[s].restart /\ server'[s].brokers = server[s].brokers
    BY <1>0, <1>a, <1>b, <1>c, <1>20 DEF BrokerStopped, Servings
  <2>1. ControlStep(s)
    BY <1>d, <1>e, <1>20, <2>0 DEF BrokerStopped, Others, ControlStep, Outside
  <2>2. TokenStep(s)  BY <1>d, <1>e, <1>20, <2>0 DEF BrokerStopped, TokenStep, Ready
  <2>3. ConfigStep(s) /\ StopStep(s)
    BY <1>d, <1>e, <1>20, <2>0 DEF BrokerStopped, ConfigStep, StopStep
  <2>4. BrokersStep(s) /\ UNCHANGED speaks
    BY <1>20, <2>0 DEF BrokerStopped, BrokersStep, Others
  <2> QED  BY <2>1, <2>2, <2>3, <2>4 DEF Moves
<1>21. CASE AllStopped(s)
  <2>0. Leaves(s)
    BY <1>0, <1>a, <1>b, <1>c, <1>21 DEF AllStopped, Servings
  <2>1. ControlStep(s)
    BY <1>d, <1>e, <1>21, <2>0 DEF AllStopped, Others, ControlStep, Outside
  <2>2. TokenStep(s)  BY <1>d, <1>e, <1>21, <2>0 DEF AllStopped, TokenStep, Ready
  <2>3. ConfigStep(s) /\ StopStep(s)
    BY <1>d, <1>e, <1>21, <2>0 DEF AllStopped, ConfigStep, StopStep
  <2>4. BrokersStep(s) /\ UNCHANGED speaks
    BY <1>21, <2>0 DEF AllStopped, BrokersStep, Others
  <2> QED  BY <2>1, <2>2, <2>3, <2>4 DEF Moves
<1>22. CASE DieServer(s)
  <2>0. Ends(s)
    BY <1>0, <1>a, <1>b, <1>c, <1>22 DEF DieServer, Servings
  <2>1. ControlStep(s)
    BY <1>d, <1>e, <1>22, <2>0 DEF DieServer, Others, ControlStep, Outside
  <2>2. TokenStep(s)  BY <1>d, <1>e, <1>22, <2>0 DEF DieServer, TokenStep, Ready
  <2>3. ConfigStep(s) /\ StopStep(s)
    BY <1>d, <1>e, <1>22, <2>0 DEF DieServer, ConfigStep, StopStep
  <2>4. BrokersStep(s) /\ UNCHANGED speaks
    BY <1>22, <2>0 DEF DieServer, BrokersStep, Others
  <2> QED  BY <2>1, <2>2, <2>3, <2>4 DEF Moves
<1> QED
  BY <1>1, <1>2, <1>3, <1>4, <1>5, <1>6, <1>7, <1>8, <1>9, <1>10, <1>11, <1>12, <1>13,
     <1>14, <1>15, <1>16, <1>17, <1>18, <1>19, <1>20, <1>21, <1>22
     DEF ServerStep

\* The same of a broker.
LEMMA BrokerMoves ==
    ASSUME NEW b \in Brokers, BrokerStep(b) PROVE BMoves(b)
<1>1. CASE BindBroker(b)
  BY <1>1 DEF BindBroker, BMoves, Listens, SocketDead, Others
<1>2. CASE RemoveDead(b)
  BY <1>2 DEF RemoveDead, BMoves, Others
<1>3. CASE Rebind(b)
  BY <1>3 DEF Rebind, BMoves, Listens, Others
<1>4. CASE CloseListener(b)
  BY <1>4 DEF CloseListener, BMoves, Others
<1>5. CASE ExitBroker(b)
  BY <1>5 DEF ExitBroker, BMoves, Others
<1>6. CASE CloseTerminals(b)
  BY <1>6 DEF CloseTerminals, BMoves
<1>7. CASE DieBroker(b)
  BY <1>7 DEF DieBroker, BMoves
<1> QED  BY <1>1, <1>2, <1>3, <1>4, <1>5, <1>6, <1>7 DEF BrokerStep

-----------------------------------------------------------------------------
(* Every step keeps every part of the invariant.                           *)

\* The types stay, and a path's socket is that of a broker of its build.
LEMMA TypesKept ==
    ASSUME Distinct, Types, LifeNext PROVE Types'
<1> USE DEF Types
<1>1. ASSUME NEW s \in Servers, ServerStep(s) PROVE Types'
  <2> Moves(s)  BY <1>1, ServerMoves
  <2>1. ServerTypes'  BY DEF Moves, SMove
  <2>2. BrokerTypes'
    <3>1. ASSUME NEW b \in Brokers, BecomeB(b, "closing") PROVE BrokerTypes'
      BY <3>1, BecomingB DEF BrokerAts
    <3>2. ASSUME Answers("new")
          PROVE  [broker EXCEPT ![sock["new"]].config = s] \in [Brokers -> Brokings]
      BY <3>2 DEF Answers, Listening, BrokerTypes, Brokings
    <3>3. [at |-> "bind", token |-> server[s].token, parent |-> s, config |-> Nobody] \in Brokings
      BY DEF Brokings, BrokerAts, ServerTypes, Servings
    <3> QED  BY <3>1, <3>2, <3>3 DEF Moves, BrokersStep, BrokerTypes
  <2>3. control' \in Servers \cup {"none", "stale"}
    BY DEF Moves, ControlStep, FileTypes
  <2>4. token' \in Servers \cup {"none", "empty"}
    BY DEF Moves, TokenStep, FileTypes
  <2>5. /\ sock' \in [Paths -> Brokers \cup {"none", "stale"}]
        /\ \A p \in Paths : sock'[p] \in Brokers => PathOf(sock'[p]) = p
    BY DEF Moves, BrokersStep, FileTypes, Distinct
  <2> QED  BY <2>1, <2>2, <2>3, <2>4, <2>5 DEF FileTypes
<1>2. ASSUME NEW b \in Brokers, BrokerStep(b) PROVE Types'
  <2> BMoves(b)  BY <1>2, BrokerMoves
  <2>1. ServerTypes' /\ control' \in Servers \cup {"none", "stale"}
        /\ token' \in Servers \cup {"none", "empty"}
    BY DEF BMoves, ServerTypes, FileTypes
  <2>2. BrokerTypes'
    <3>1. ASSUME NEW at \in BrokerAts, BecomeB(b, at) PROVE BrokerTypes'
      BY <3>1, BecomingB
    <3> QED  BY <3>1 DEF BMoves, BrokerTypes, BrokerAts
  <2>3. /\ sock' \in [Paths -> Brokers \cup {"none", "stale"}]
        /\ \A p \in Paths : sock'[p] \in Brokers => PathOf(sock'[p]) = p
    BY PathsAre DEF BMoves, Lets, FileTypes, Distinct
  <2> QED  BY <2>1, <2>2, <2>3 DEF FileTypes
<1> QED  BY <1>1, <1>2 DEF LifeNext

\* The token is written once, and read by everybody after that.
LEMMA TokensKept ==
    ASSUME Distinct, Types, Tokens, LifeNext PROVE Tokens'
<1>1. ASSUME NEW s \in Servers, ServerStep(s) PROVE Tokens'
  <2> Moves(s)  BY <1>1, ServerMoves
  <2>0. \A o \in Servers \ {s} : server'[o] = server[o]  BY DEF Moves, SMove
  <2>1. TokenStep(s)  BY DEF Moves
  <2>2. ASSUME NEW o \in Servers PROVE
            /\ server'[o].at = "write" =>
                 token' = "empty" /\ \A q \in Servers \ {o} : server'[q].at # "write"
            /\ server'[o].at \in Ready => token' \in Servers /\ server'[o].token = token'
    BY <2>0, <2>1 DEF Tokens, TokenStep, Distinct, Ready
  <2>3. ASSUME NEW b \in Brokers \ {OldBroker}, broker'[b].at # "none"
        PROVE  token' \in Servers /\ broker'[b].token = token'
    <3>1. \/ broker[b].at # "none" /\ broker'[b].token = broker[b].token
          \/ server[s].at = "probe" /\ broker'[b].token = server[s].token
      BY <2>3
         DEF Moves, BrokersStep, BecomeB, Listening, Answers, Types, BrokerTypes, Brokings
    <3>2. token \in Servers /\ broker'[b].token = token
      BY <3>1 DEF Tokens, Ready
    <3>3. token' = token
      BY <2>1, <3>2 DEF TokenStep, Tokens, Distinct
    <3> QED  BY <3>2, <3>3
  <2> QED  BY <2>2, <2>3 DEF Tokens
<1>2. ASSUME NEW b \in Brokers, BrokerStep(b) PROVE Tokens'
  <2> BMoves(b)  BY <1>2, BrokerMoves
  <2>1. UNCHANGED <<token, server>>  BY DEF BMoves
  <2>2. ASSUME NEW o \in Brokers, broker'[o].at # "none"
        PROVE  broker[o].at # "none" /\ broker'[o].token = broker[o].token
    BY <2>2 DEF BMoves, BecomeB, Types, BrokerTypes, Brokings
  <2> QED  BY <2>1, <2>2 DEF Tokens
<1> QED  BY <1>1, <1>2 DEF LifeNext

\* Only a server that cannot speak with a broker, or stops, closes terminals.
LEMMA CausesKept ==
    ASSUME Distinct, Types, Causes, LifeNext PROVE Causes'
<1>1. ASSUME NEW s \in Servers, ServerStep(s) PROVE Causes'
  <2> Moves(s)  BY <1>1, ServerMoves
  <2>0. \A o \in Servers \ {s} : server'[o] = server[o]  BY DEF Moves, SMove
  <2>1. ASSUME NEW o \in Servers, server'[o].at = "stopping" PROVE ~KeepsBrokers(o)'
    BY <2>0, <2>1 DEF Moves, StopStep, Causes, KeepsBrokers
  <2>2. speaks' = speaks  BY DEF Moves
  <2>3. ASSUME NEW why, NEW b, Told(b, s, why), "update" \notin why, speaks => "protocol" \notin why
        PROVE  "update" \notin cause' /\ (speaks => "protocol" \notin cause')
    BY <2>3 DEF Told, Causes
  <2>4. "update" \notin cause' /\ (speaks => "protocol" \notin cause')
    <3>1. CASE Probe(s)
      <4>1. UNCHANGED cause \/ \E b : ~Speaks(b) /\ Told(b, s, {"protocol"})
        BY <3>1 DEF Probe
      <4> QED  BY <2>3, <4>1 DEF Speaks, Causes
    <3>2. CASE StopBroker(s)
      <4>1. UNCHANGED cause \/ \E b : Told(b, s, {IF server[s].brokers THEN "confirmed"
                                       ELSE IF server[s].restart THEN "update" ELSE "stop"})
        BY <3>2 DEF StopBroker
      <4>2. server[s].restart => server[s].brokers
        BY <3>2 DEF StopBroker, Causes, KeepsBrokers
      <4> QED  BY <2>3, <4>1, <4>2 DEF Causes
    <3>3. CASE ~Probe(s) /\ ~StopBroker(s)
      <4>1. UNCHANGED cause
        BY <1>1, <3>3
           DEF ServerStep, Others, Start, Claim, RemoveStale, Bind, LoadToken, WriteToken,
           AwaitStop, Choose, WaitHealth, Configure, OpenTerminal, Retire, RetireDead, AskRestart,
           RestartNow, Stop, EndServe, BrokerStopped, AllStopped, DieServer
      <4> QED  BY <4>1 DEF Causes
    <3> QED  BY <3>1, <3>2, <3>3
  <2> QED  BY <2>1, <2>2, <2>4 DEF Causes
<1>2. ASSUME NEW b \in Brokers, BrokerStep(b) PROVE Causes'
  BY <1>2, BrokerMoves DEF BMoves, Causes, KeepsBrokers
<1> QED  BY <1>1, <1>2 DEF LifeNext

\* That two processes have taken over one file at a time is never forgotten.
LEMMA OverlapStays ==
    ASSUME Distinct, Types, LifeNext, overlap PROVE overlap'
<1>1. ASSUME NEW s \in Servers, ServerStep(s) PROVE overlap'
  BY <1>1, ServerMoves DEF Moves, ControlStep
<1>2. ASSUME NEW b \in Brokers, BrokerStep(b) PROVE overlap'
  BY <1>2, BrokerMoves DEF BMoves
<1> QED  BY <1>1, <1>2 DEF LifeNext

\* The control socket changes hands only when nobody is past it.
LEMMA OwnerKept ==
    ASSUME Distinct, Types, Owner, LifeNext PROVE Owner'
<1> SUFFICES ASSUME ~overlap' PROVE Owner'  BY DEF Owner
<1>0. ~overlap  BY OverlapStays
<1>1. ASSUME NEW s \in Servers, ServerStep(s) PROVE Owner'
  <2> Moves(s)  BY <1>1, ServerMoves
  <2>0. \A o \in Servers \ {s} : server'[o] = server[o]  BY DEF Moves, SMove
  <2>1. ControlStep(s)  BY DEF Moves
  <2>2. ASSUME ~overlap', NEW o \in Servers
        PROVE  /\ server'[o].at \notin Outside => control' = o
               /\ server'[o].at = "stale" =>
                     control' = "stale" /\ \A q \in Servers \ {o} : server'[q].at # "stale"
    BY <1>0, <2>0, <2>1, <2>2 DEF ControlStep, Owner, Outside, Distinct
  <2> QED  BY <2>2 DEF Owner
<1>2. ASSUME NEW b \in Brokers, BrokerStep(b) PROVE Owner'
  BY <1>0, <1>2, BrokerMoves DEF BMoves, Owner
<1> QED  BY <1>1, <1>2 DEF LifeNext

\* Servers close and forget brokers without touching the files of those that listen;
\* brokers remove their own files, or stale ones.
LEMMA SocketsKept ==
    ASSUME Distinct, Types, Sockets, LifeNext PROVE Sockets'
<1> SUFFICES ASSUME ~overlap' PROVE Sockets'  BY DEF Sockets
<1>0. ~overlap  BY OverlapStays
<1>1. ASSUME NEW s \in Servers, ServerStep(s) PROVE Sockets'
  <2> Moves(s)  BY <1>1, ServerMoves
  <2>1. ASSUME NEW b \in Brokers
        PROVE  /\ Listening(b)' <=> Listening(b)
               /\ broker'[b].at \in {"stale", "closed"} <=> broker[b].at \in {"stale", "closed"}
    BY DEF Moves, BrokersStep, BecomeB, Listening, Answers, Types, BrokerTypes, Brokings
  <2>2. ASSUME NEW b \in Brokers, Listening(b) PROVE sock'[PathOf(b)] = b
    BY <1>0, <2>2, PathsAre DEF Moves, BrokersStep, Sockets, Answers, Types, FileTypes
  <2> QED  BY <1>0, <2>1, <2>2 DEF Sockets
<1>2. ASSUME NEW b \in Brokers, BrokerStep(b) PROVE Sockets'
  <2> BMoves(b)  BY <1>2, BrokerMoves
  <2>0. \A o \in Brokers \ {b} : broker'[o] = broker[o]
    BY DEF BMoves, BecomeB, Types, BrokerTypes
  <2>1. ASSUME ~overlap', NEW o \in Brokers, Listening(o)' PROVE sock'[PathOf(o)] = o
    BY <1>0, <2>0, <2>1, PathsAre
       DEF BMoves, BecomeB, Lets, Late, Sockets, Listening, Types, BrokerTypes, FileTypes, Brokings, Distinct
  <2>2. ASSUME ~overlap', NEW o \in Brokers, broker'[o].at \in {"stale", "closed"},
               NEW q \in Brokers \ {o}, PathOf(q) = PathOf(o), Listening(q)'
        PROVE  FALSE
    <3>1. CASE o = b
      <4>1. Listening(q) /\ sock[PathOf(q)] = q
        BY <1>0, <2>0, <2>2, <3>1 DEF Sockets, Listening
      <4>2. \/ broker[b].at \in {"stale", "closed"}
            \/ broker[b].at = "closing"
            \/ sock[PathOf(b)] = "stale"
        BY <2>2, <3>1 DEF BMoves, BecomeB, Types, BrokerTypes, Brokings
      <4>3. CASE broker[b].at \in {"stale", "closed"}
        BY <1>0, <2>2, <3>1, <4>1, <4>3 DEF Sockets
      <4>4. CASE broker[b].at = "closing"
        <5>1. sock[PathOf(b)] = b  BY <1>0, <4>4 DEF Sockets, Listening
        <5> QED  BY <2>2, <3>1, <4>1, <5>1
      <4>5. CASE sock[PathOf(b)] = "stale"
        BY <2>2, <3>1, <4>1, <4>5 DEF Distinct
      <4> QED  BY <4>2, <4>3, <4>4, <4>5
    <3>2. CASE q = b
      <4>1. broker[o].at \in {"stale", "closed"}  BY <2>0, <2>2, <3>2
      <4>2. ~Late(b) \/ broker[b].at \in {"up", "closing"}
        <5>1. broker'[b].at \in {"up", "closing"}  BY <2>2, <3>2 DEF Listening
        <5>2. ASSUME NEW at, BecomeB(b, at) PROVE broker'[b].at = at
          BY <5>2 DEF BecomeB, Types, BrokerTypes, Brokings
        <5> QED  BY <2>2, <5>1, <5>2 DEF BMoves
      <4>3. CASE ~Late(b)  BY <2>2, <3>2, <4>1, <4>3 DEF Late
      <4>4. CASE broker[b].at \in {"up", "closing"}
        <5>1. Listening(b)  BY <3>2, <4>4 DEF Listening
        <5> QED  BY <1>0, <2>2, <3>2, <4>1, <5>1 DEF Sockets
      <4> QED  BY <4>2, <4>3, <4>4
    <3>3. CASE o # b /\ q # b
      BY <1>0, <2>0, <2>2, <3>3 DEF Sockets, Listening
    <3> QED  BY <3>1, <3>2, <3>3
  <2> QED  BY <2>1, <2>2 DEF Sockets
<1> QED  BY <1>1, <1>2 DEF LifeNext

\* Only the one server that owns the directory configures brokers.
LEMMA ConfiguredKept ==
    ASSUME Distinct, Types, Owner, Configured, LifeNext PROVE Configured'
<1> SUFFICES ASSUME ~overlap' PROVE Configured'  BY DEF Configured
<1>0. ~overlap  BY OverlapStays
<1>1. ASSUME NEW s \in Servers, ServerStep(s) PROVE Configured'
  <2> Moves(s)  BY <1>1, ServerMoves
  <2>0. \A o \in Servers \ {s} : server'[o] = server[o]  BY DEF Moves, SMove
  <2>1. ASSUME NEW o \in Servers, server'[o].at = "up"
        PROVE  \E b \in Brokers \ {OldBroker} :
                   /\ server'[o].broker = b /\ broker'[b].config = o
                   /\ broker'[b].at \in {"up", "closing", "closed", "down"}
    <3>1. CASE server[o].at = "up" /\ server'[o].broker = server[o].broker
      <4>1. PICK b \in Brokers \ {OldBroker} :
               /\ server[o].broker = b /\ broker[b].config = o
               /\ broker[b].at \in {"up", "closing", "closed", "down"}
        BY <1>0, <3>1 DEF Configured
      <4>2. server[s].at = "configure" => FALSE
        <5>1. ASSUME server[s].at = "configure" PROVE o = s
          BY <1>0, <3>1, <5>1 DEF Owner, Outside
        <5> QED  BY <3>1, <5>1
      <4>3. broker'[b].config = o /\ broker'[b].at \in {"up", "closing", "closed", "down"}
        BY <4>1, <4>2 DEF Moves, BrokersStep, BecomeB, Types, BrokerTypes, Brokings
      <4> QED  BY <3>1, <4>1, <4>3
    <3>2. CASE /\ o = s /\ server[s].at = "configure" /\ Answers("new")
               /\ server'[s].broker = sock["new"]
               /\ broker' = [broker EXCEPT ![sock["new"]].config = s]
      <4>1. sock["new"] \in Brokers \ {OldBroker}
        BY <3>2 DEF Answers, Listening, Types, FileTypes, PathOf, Paths
      <4> QED  BY <3>2, <4>1 DEF Answers, Listening, Types, BrokerTypes, Brokings
    <3> QED  BY <2>0, <2>1, <3>1, <3>2 DEF Moves, ConfigStep
  <2> QED  BY <2>1 DEF Configured
<1>2. ASSUME NEW b \in Brokers, BrokerStep(b) PROVE Configured'
  <2> BMoves(b)  BY <1>2, BrokerMoves
  <2>1. ASSUME NEW o \in Brokers, broker[o].at \in {"up", "closing", "closed", "down"}
        PROVE  /\ broker'[o].at \in {"up", "closing", "closed", "down"}
               /\ broker'[o].config = broker[o].config
    BY <2>1 DEF BMoves, BecomeB, Types, BrokerTypes, Brokings
  <2> QED  BY <1>0, <2>1 DEF BMoves, Configured
<1> QED  BY <1>1, <1>2 DEF LifeNext

-----------------------------------------------------------------------------
\* The invariant holds of every behaviour of servers and brokers that start, claim,
\* probe, configure, stop, restart and die (ServerLife).
THEOREM LifeInvariance ==
    ASSUME Distinct PROVE LifeSpec => []LifeInv
<1>1. LifeInit => LifeInv
  <2> SUFFICES ASSUME LifeInit PROVE LifeInv  OBVIOUS
  <2> USE DEF LifeInit
  <2>1. ServerTypes  BY DEF ServerTypes, Off, Servings, Outside
  <2>2. BrokerTypes  BY DEF BrokerTypes, None, Brokings, BrokerAts
  <2>3. FileTypes  BY DEF FileTypes, Paths, PathOf, Distinct
  <2>4. Tokens  BY DEF Tokens, Off, None, Ready
  <2>5. Causes  BY DEF Causes, Off
  <2>6. Owner  BY DEF Owner, Off, Outside
  <2>7. Sockets  BY DEF Sockets, Listening, None, PathOf, Paths, Distinct
  <2>8. Configured  BY DEF Configured, Off
  <2> QED  BY <2>1, <2>2, <2>3, <2>4, <2>5, <2>6, <2>7, <2>8 DEF LifeInv, Types
<1>2. LifeInv /\ [LifeNext]_lifeVars => LifeInv'
  <2>1. ASSUME LifeInv, LifeNext PROVE LifeInv'
    BY <2>1, TypesKept, TokensKept, CausesKept, OwnerKept, SocketsKept, ConfiguredKept
       DEF LifeInv
  <2>2. ASSUME LifeInv, UNCHANGED lifeVars PROVE LifeInv'
    BY <2>2
       DEF lifeVars, LifeInv, Types, ServerTypes, BrokerTypes, FileTypes, Tokens, Causes,
       Owner,
       Sockets, Configured, Listening, KeepsBrokers
  <2> QED  BY <2>1, <2>2
<1> QED  BY <1>1, <1>2, PTL DEF LifeSpec

\* Until two processes have taken over one file at a time: one server goes past the
\* control socket (main.rs 101-104), the broker that a running server configured is
\* the one its clients reach and knows its token, and no broker that listens loses its
\* socket file; and terminals are closed only by a stop, a confirmed restart of the
\* brokers, or for a protocol that is not spoken, never by an update (broker.rs,
\* shutdown; api.rs, install_update).
THEOREM LifeStaysSound ==
    ASSUME Distinct PROVE LifeSpec => []LifeSound
<1>1. LifeInv => LifeSound
  <2> SUFFICES ASSUME LifeInv PROVE LifeSound  OBVIOUS
  <2>1. OneServer
    <3> SUFFICES ASSUME ~overlap PROVE Cardinality(Inside) <= 1  BY DEF OneServer
    <3>1. Inside \subseteq {control}  BY DEF LifeInv, Owner, Inside, Outside
    <3>2. IsFiniteSet({control}) /\ Cardinality({control}) = 1  BY FS_Singleton
    <3>3. Cardinality(Inside) <= Cardinality({control})  BY <3>1, <3>2, FS_Subset
    <3> QED  BY <3>2, <3>3
  <2>2. BrokerReached
    <3> SUFFICES ASSUME ~overlap, NEW s \in Servers, NEW b \in Brokers \ {OldBroker},
                        server[s].at = "up", server[s].broker = b, broker[b].at = "up"
                 PROVE  sock["new"] = b /\ broker[b].config = s /\ broker[b].token = server[s].token
      BY DEF BrokerReached
    <3>1. sock["new"] = b  BY DEF LifeInv, Sockets, Listening, PathOf
    <3>2. broker[b].config = s  BY DEF LifeInv, Configured
    <3>3. broker[b].token = server[s].token  BY DEF LifeInv, Tokens, Ready
    <3> QED  BY <3>1, <3>2, <3>3
  <2>3. UpdateKeepsTerminals  BY DEF LifeInv, Causes, UpdateKeepsTerminals
  <2>4. NoneOrphaned  BY DEF LifeInv, Sockets, NoneOrphaned
  <2> QED  BY <2>1, <2>2, <2>3, <2>4 DEF LifeSound
<1> QED  BY <1>1, LifeInvariance, PTL
=============================================================================
