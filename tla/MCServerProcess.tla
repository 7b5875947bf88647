--------------------------- MODULE MCServerProcess ---------------------------
(***************************************************************************)
(* Parts of the server process and its brokers that share no state, checked*)
(* in one run: the pool of brokers, the life of a broker's terminals, what *)
(* the server keeps about them, browser tabs, logins and the password, what*)
(* a user has seen, fili, the status line and the providers it asks.  A    *)
(* behaviour exercises one part, chosen when it starts; the other parts    *)
(* keep their initial state.                                               *)
(***************************************************************************)
EXTENDS TerminalControl, BrokerPool, Auth, ActivityViews

CONSTANTS
    EmptyViews,     \* bound: views whose pages show nothing
    Labelled, Threshold, KeepRecent, MaxRounds, MaxCalls,
    Providers, Pollers, Interval, MinRetry, MaxRetry, MaxTime,
    MaxRows, MaxLogins,
    ManagedTerminals, MaxRetained

VARIABLES
    part,
    registered, shell, job, gate, drained, reaped, exited, order, nextOrder,
    exitThread, remover,
    needy, filiOn, permit, spaced, conversation, fili, torn,
    time, cached, expires, generated, attempts, refresher, pollers, good,
    askable, line, lineFile, lineUpdates,
    module, environment, stores, today, request, reply, observed, logins

R == INSTANCE TerminalRegistry WITH Terminals <- ManagedTerminals
F == INSTANCE Fili WITH on <- filiOn
T == INSTANCE StatusCache

registryVars == <<registered, shell, job, gate, drained, reaped, exited, order,
                  nextOrder, exitThread, remover>>
labelVars == <<needy, filiOn, permit, spaced, conversation, fili, torn>>
statusVars == <<time, cached, expires, generated, attempts, refresher, pollers,
                good, askable, line, lineFile, lineUpdates>>
providerVars == <<module, environment, stores, today, request, reply, observed, logins>>

\* What varies at the start of one part is fixed in the others; a draining broker
\* starts with a terminal, and which one does not matter.
MCInit ==
    /\ part \in {"brokers", "settings", "tabs", "logins", "passwords",
                 "seen", "registry", "labels", "status", "line", "providers"}
    /\ Init /\ LimiterInit /\ PoolInit /\ SettingsInit /\ AuthInit /\ ViewInit
    /\ R!Init /\ F!FiliInit /\ T!StatusInit /\ T!ProviderInit
    /\ \A g \in Generations \ {Current} : sessions[g] =
          IF part = "brokers" THEN {[id |-> CHOOSE t \in PoolTerminals : TRUE,
                                     name |-> CHOOSE n \in Names : TRUE,
                                     given |-> FALSE]}
          ELSE {}
    /\ part # "labels" => filiOn
    /\ part # "providers" =>
          /\ module = CHOOSE m \in T!Modules : T!Configurable(m)
          /\ \A v \in DOMAIN environment : environment[v] = T!NoSecret
          /\ stores["own"] = T!NoEntry

\* Requests are alike: the first idle one takes what comes.
TasksInOrder ==
    \A k \in Tasks : task[k] = Idle /\ task'[k] # Idle
                        => k = CHOOSE j \in Tasks : task[j] = Idle

MCNext ==
    /\ UNCHANGED part
    /\ IF part = "brokers"   THEN PoolNext /\ TasksInOrder ELSE UNCHANGED poolVars
    /\ IF part = "settings"  THEN SettingsNext ELSE UNCHANGED settingsVars
    /\ IF part = "tabs"
       THEN /\ Next
            /\ \A v \in EmptyViews : /\ page'[v].open = {}
                                   /\ page'[v].commands = {}
       ELSE UNCHANGED vars
    /\ IF part = "logins"    THEN LimiterNext ELSE UNCHANGED limiterVars
    /\ IF part = "passwords" THEN AuthNext    ELSE UNCHANGED authVars
    /\ IF part = "seen"      THEN ViewNext    ELSE UNCHANGED viewVars
    /\ IF part = "registry"  THEN R!Next ELSE UNCHANGED registryVars
    /\ IF part = "labels"    THEN F!FiliNext  ELSE UNCHANGED labelVars
    /\ CASE part = "status" -> T!StatusNext
         [] part = "line"   -> T!LineNext
         [] OTHER           -> UNCHANGED statusVars
    /\ IF part = "providers" THEN T!ProviderNext ELSE UNCHANGED providerVars

\* The fairness of BrokerPool, TerminalControl, Fili and TerminalRegistry, each in
\* its part.
MCFairness ==
    /\ WF_poolVars(part = "brokers" /\ Retire)
    /\ \A k \in Threads :
          /\ WF_settingsVars(part = "settings" /\ Retain(k))
          /\ SF_settingsVars(/\ part = "settings"
                            /\ DropSettings(k) /\ settings' # settings)
    /\ WF_settingsVars(part = "settings" /\ Passes)
    /\ WF_labelVars(part = "labels" /\ F!Loop)
    /\ WF_labelVars(part = "labels" /\ F!SpacingPasses)
    /\ \A t \in ManagedTerminals :
          /\ WF_registryVars(part = "registry" /\ R!Drain(t))
          /\ WF_registryVars(part = "registry" /\ R!ExitThread(t))
          /\ WF_registryVars(part = "registry" /\ R!Remover(t))

MCSpec == MCInit
          /\ [][MCNext]_<<part, vars, limiterVars, poolVars, settingsVars,
                          authVars, viewVars,
                          registryVars, labelVars, statusVars, providerVars>>
          /\ MCFairness

\* The types of the parts.
ServerTypeOK == CASE part = "brokers" -> PoolTypeOK
                  [] part = "settings" -> SettingsTypeOK
                  [] part = "tabs" -> TypeOK
                  [] part = "logins" -> LimiterTypeOK
                  [] part = "passwords" -> AuthTypeOK
                  [] part = "seen" -> ViewTypeOK
                  [] part = "registry" -> R!TypeOK
                  [] part = "labels" -> F!FiliTypeOK
                  [] OTHER -> TRUE

\* A broker that died leaves the pool, and what is kept about dead terminals is
\* dropped; exits are reported, removed terminals reclaimed, and exited ones pruned
\* oldest first; see BrokerPool, TerminalControl and TerminalRegistry.
DeadAreGone == /\ part = "brokers" => DeadGenerationsGo
               /\ part = "settings" => DeadAreForgotten
               /\ part = "registry" => R!TerminalEnds(1)     \* terminals are alike
               /\ R!OldestGoFirst
\* A client is admitted only so many attempts to log in, and to as many when it
\* waited; the status line shows what is true, asks no provider too often and none
\* with the credential of another; fili's conversation stays well formed and bounded,
\* and no terminal that needs a label is passed over; see Auth, StatusCache and Fili.
ServicesSound == /\ LoginsLimited /\ T!StatusStaysSound /\ T!ProvidersSound
                 /\ F!ConversationSound /\ (part = "labels" => F!NeedyLookedAt)
=============================================================================
