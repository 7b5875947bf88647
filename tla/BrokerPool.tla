------------------------------ MODULE BrokerPool ------------------------------
(***************************************************************************)
(* The web server's view of its session brokers (broker.rs): one current   *)
(* generation that creates terminals, older ones that only drain, a cache  *)
(* of which generation owns which terminal, and the loop that retires a    *)
(* generation once nothing is left in it.  A caller may give up on a       *)
(* request that the broker then still carries out (overdue).  Requests that*)
(* only pass through (screen, input, access, sockets) and remove are one   *)
(* operation, "forward".                                                   *)
(***************************************************************************)
EXTENDS Naturals, FiniteSets, Functions

CONSTANTS Generations, Current,  \* the brokers, and the one of this build
          PoolTerminals, Names,  \* ids of terminals, and names
          Tasks,                 \* concurrent requests of browsers
          Nobody,                \* a free lock, a task without a target
          MaxSteps               \* bound: requests and changes of the brokers

ASSUME PoolAssumption ==
    /\ Current \in Generations
    /\ {Nobody, "checked"} \cap Generations = {}
    /\ Nobody \notin Tasks \cup PoolTerminals \cup Names \cup {"checked"}

VARIABLES
    alive,       \* generations whose process accepts connections
    sessions,    \* generation -> its terminals: [id, name, given]; given: a
                 \*   user's request that saw all names was told it has this one
    draining,    \* BrokerPool.draining
    owners,      \* BrokerPool.owners: terminal -> generation
    createLock,  \* holder of BrokerPool.create_lock
    overdue,     \* requests a broker will still act on, unheard
    task,        \* what each request does
    reaper,      \* where the retirement loop is
    shuttingDown,
    budget       \* what is left of that bound

poolVars == <<alive, sessions, draining, owners, createLock, overdue, task,
              reaper, shuttingDown, budget>>
brokers == <<alive, sessions, overdue>>
pool == <<draining, reaper, shuttingDown>>

Idle == [op |-> "none", at |-> "idle", id |-> Nobody, want |-> Nobody,
         gen |-> Nobody, todo |-> {}, listed |-> {}, missed |-> FALSE,
         expect |-> {}]
Asleep == [at |-> "asleep", todo |-> {}, gen |-> Nobody]

Ids(S) == {s.id : s \in S}
SessionsIn(G) == UNION {sessions[g] : g \in G}
Held == Ids(SessionsIn(Generations))
Stopping == IF reaper.at \in {"stop", "settle"} THEN {reaper.gen} ELSE {}
Known == {Current} \cup draining \cup Stopping   \* what the pool answers for

Happens == budget > 0 /\ budget' = budget - 1
Become(k, r) == task' = [task EXCEPT ![k] = r]
Ends(k) == /\ Become(k, Idle)
           /\ createLock' = IF createLock = k THEN Nobody ELSE createLock
GoesOn(k, r) == Become(k, r) /\ UNCHANGED createLock

(***************************************************************************)
(* A listing asks a snapshot of the generations one after another, the     *)
(* current one first, and replaces the owners by what it heard.            *)
(***************************************************************************)
Listing(r) == [r EXCEPT !.at = "listing", !.todo = {Current} \cup draining,
                        !.expect = Ids(SessionsIn(Known))]
NextAsked(r) == IF Current \in r.todo THEN {Current} ELSE r.todo
SeenIn(g) == {[id |-> s.id, name |-> s.name, gen |-> g] : s \in sessions[g]}
OwnersOf(listed) == [t \in Ids(listed) |->
                        (CHOOSE e \in listed : e.id = t).gen]
NameFree(n, except, seen) == \A e \in seen : e.id # except => e.name # n
Heard(r, at) == [r EXCEPT !.at = at, !.listed = {}, !.expect = {}]

Ask(k) ==
    /\ task[k].at = "listing"
    /\ \E g \in NextAsked(task[k]) :
         LET r == [task[k] EXCEPT !.todo = @ \ {g}] IN
         \/ g \in alive /\ GoesOn(k, [r EXCEPT !.listed = @ \cup SeenIn(g)])
         \/ g # Current /\ GoesOn(k, [r EXCEPT !.missed = TRUE]) \* left out
         \/ g = Current /\ Ends(k)                    \* it must answer
    /\ UNCHANGED <<brokers, pool, owners, budget>>

\* A listing ends: the owners are replaced, and the caller goes on.
Listed(k) ==
    LET r == task[k] IN
    /\ r.at = "listing" /\ r.todo = {}
    /\ owners' = OwnersOf(r.listed)
    /\ \/ r.op = "list" /\ Ends(k)
       \/ r.op = "forward" /\ GoesOn(k, Heard(r, "reread"))
       \/ /\ r.op = "rename" /\ r.gen = "checked"
          /\ GoesOn(k, Heard(r, "reread"))
       \/ /\ r.op \in {"create", "rename"} /\ r.gen # "checked"
          /\ ~NameFree(r.want, r.id, r.listed) /\ Ends(k)
       \/ /\ r.op = "create" /\ NameFree(r.want, r.id, r.listed)
          /\ GoesOn(k, [Heard(r, "send") EXCEPT !.gen = Current])
       \/ /\ r.op = "rename" /\ r.gen # "checked"
          /\ NameFree(r.want, r.id, r.listed)
          /\ GoesOn(k, [Heard(r, "owner") EXCEPT !.gen = "checked"])
    /\ UNCHANGED <<brokers, pool, budget>>

\* owner(): the cache, else a listing, then the cache again.
Owner(k) ==
    LET r == task[k] IN
    /\ r.at = "owner"
    /\ GoesOn(k, IF r.id \in DOMAIN owners
                 THEN [r EXCEPT !.at = "send", !.gen = owners[r.id]]
                 ELSE Listing(r))
    /\ UNCHANGED <<brokers, pool, owners, budget>>

Reread(k) ==
    LET r == task[k] IN
    /\ r.at = "reread"
    /\ IF r.id \in DOMAIN owners
       THEN GoesOn(k, [r EXCEPT !.at = "send", !.gen = owners[r.id]])
       ELSE Ends(k)                                 \* terminal_not_found
    /\ UNCHANGED <<brokers, pool, owners, budget>>

(***************************************************************************)
(* The requests of browsers.  create and rename hold the lock from the     *)
(* listing to the broker's answer.                                         *)
(***************************************************************************)
\* Mutant: the lock is not taken.
FaultyLockFree == TRUE
LockFree == createLock = Nobody

ListTerminals(k) ==
           /\ task[k] = Idle /\ Happens
           /\ GoesOn(k, Listing([Idle EXCEPT !.op = "list"]))
           /\ UNCHANGED <<brokers, pool, owners>>

Forward(k) == /\ task[k] = Idle /\ Happens
              /\ \E t \in PoolTerminals :
                   GoesOn(k, [Idle EXCEPT !.op = "forward", !.id = t,
                                          !.at = "owner"])
              /\ UNCHANGED <<brokers, pool, owners>>

Create(k) == /\ task[k] = Idle /\ LockFree /\ Happens
             /\ \E n \in Names \cup {Nobody} :      \* Nobody: any free name
                  Become(k, Listing([Idle EXCEPT !.op = "create", !.want = n]))
             /\ createLock' = k
             /\ UNCHANGED <<brokers, pool, owners>>

Rename(k) == /\ task[k] = Idle /\ LockFree /\ Happens
             /\ \E t \in PoolTerminals, n \in Names :
                  Become(k, Listing([Idle EXCEPT !.op = "rename", !.id = t,
                                                 !.want = n]))
             /\ createLock' = k
             /\ UNCHANGED <<brokers, pool, owners>>

(***************************************************************************)
(* What a broker does with a request.  Its manager knows its own names     *)
(* only; a create without a name takes one that is free there.             *)
(***************************************************************************)
Remembered(r) == {r.id} \cup r.expect \cup Ids(r.listed)
Fresh == PoolTerminals \ (Held \cup DOMAIN owners \cup {r.id : r \in overdue}
                              \cup UNION {Remembered(task[k]) : k \in Tasks})
Creates(r, t, told) ==
    \E n \in Names :
        /\ r.want \in {n, Nobody} /\ NameFree(n, t, sessions[r.gen])
        /\ sessions' = [sessions EXCEPT ![r.gen] = @ \cup
               {[id |-> t, name |-> n,
                 given |-> told /\ r.want = n /\ ~r.missed]}]
Without(g, t) == {s \in sessions[g] : s.id # t}
Renames(r, told) ==
    /\ r.id \in Ids(sessions[r.gen])
    /\ NameFree(r.want, r.id, sessions[r.gen])
    /\ sessions' = [sessions EXCEPT ![r.gen] = Without(r.gen, r.id) \cup
           {[id |-> r.id, name |-> r.want, given |-> told /\ ~r.missed]}]
Removes(r) ==
    /\ r.id \in Ids(sessions[r.gen])
    /\ sessions' = [sessions EXCEPT ![r.gen] = Without(r.gen, r.id)]

\* The request is carried out and answered in time.
Answered(k) ==
    LET r == task[k] IN
    /\ r.at = "send" /\ r.gen \in alive
    /\ \/ /\ r.op = "create"
          /\ \E t \in Fresh : /\ Creates(r, t, TRUE)
                              /\ GoesOn(k, [r EXCEPT !.at = "cache", !.id = t])
       \/ r.op = "rename" /\ Renames(r, TRUE) /\ Ends(k)
       \/ /\ r.op = "forward" /\ Removes(r)
          /\ GoesOn(k, [r EXCEPT !.at = "cache"])
    /\ UNCHANGED <<alive, overdue, pool, owners, budget>>

\* It only passes through, is refused, finds the broker gone, or the caller
\* stops waiting: its budget is spent, or its browser left and axum drops it.
Unheard(r) == r.at = "send" /\ r.gen \in alive
Answerless(k) ==
    /\ task[k].at = "send"
    /\ \/ UNCHANGED overdue
       \/ Unheard(task[k]) /\ overdue' = overdue \cup {task[k]}
    /\ Ends(k)
    /\ UNCHANGED <<alive, sessions, pool, owners, budget>>

Late(r) ==
    /\ overdue' = overdue \ {r}
    /\ \/ /\ r.gen \in alive
          /\ \/ r.op = "create" /\ \E t \in Fresh : Creates(r, t, FALSE)
             \/ r.op = "rename" /\ Renames(r, FALSE)
             \/ r.op = "forward" /\ Removes(r)
       \/ UNCHANGED sessions                          \* refused, or it died
    /\ UNCHANGED <<alive, pool, owners, createLock, task, budget>>

\* create inserts the new owner, remove drops the old one, after the answer.
Cache(k) ==
    LET r == task[k] IN
    /\ r.at = "cache"
    /\ owners' = [t \in (DOMAIN owners \ {r.id}) \cup
                        (IF r.op = "create" THEN {r.id} ELSE {}) |->
                      IF t = r.id THEN Current ELSE owners[t]]
    /\ Ends(k)
    /\ UNCHANGED <<brokers, pool, budget>>

(***************************************************************************)
(* retire_empty_brokers, at start-up and then every DRAIN_INTERVAL: a      *)
(* draining generation without sessions is taken out of the pool and       *)
(* stopped, one that refuses connections is dropped.                       *)
(***************************************************************************)
Reaps(r) == reaper' = r /\ UNCHANGED <<task, createLock, shuttingDown, budget>>
NextOne(r) == [r EXCEPT !.at = "asking", !.gen = Nobody]

Wakes == /\ reaper = Asleep /\ ~shuttingDown
         /\ Reaps([Asleep EXCEPT !.at = "asking", !.todo = draining])
         /\ UNCHANGED <<brokers, draining, owners>>

\* Mutant: whatever drains is stopped.
FaultyForgettable(g) == TRUE
Forgettable(g) == sessions[g] = {}    \* exited sessions stay readable
\* Mutant: a refused connection is taken for a slow broker.
FaultySocketGone(g) == FALSE
SocketGone(g) == g \notin alive       \* broker_socket_is_gone

AskEmpty ==
    /\ reaper.at = "asking"
    /\ \/ reaper.todo = {} /\ Reaps(Asleep)
       \/ \E g \in reaper.todo :
            LET r == [reaper EXCEPT !.todo = @ \ {g}] IN
            \/ /\ g \in alive /\ Forgettable(g)
               /\ Reaps([r EXCEPT !.at = "forget", !.gen = g])
            \/ ~SocketGone(g) /\ Reaps(r)            \* in use, or silent
            \/ /\ SocketGone(g)
               /\ Reaps([r EXCEPT !.at = "drop", !.gen = g])
    /\ UNCHANGED <<brokers, draining, owners>>

\* forget_draining reports whether this call removed it.
Forget ==
    /\ reaper.at \in {"forget", "drop"}
    /\ draining' = draining \ {reaper.gen}
    /\ Reaps(IF reaper.gen \notin draining THEN NextOne(reaper)
             ELSE [reaper EXCEPT !.at = IF @ = "forget" THEN "stop"
                                                        ELSE "settle"])
    /\ UNCHANGED <<brokers, owners>>

\* A generation told to stop closes its sessions and its socket.
Stopped(G) == /\ alive' = alive \ G
              /\ sessions' = [g \in Generations |-> IF g \in G THEN {}
                                                    ELSE sessions[g]]
Stop ==
    /\ reaper.at = "stop"
    /\ \/ /\ reaper.gen \in alive /\ Stopped({reaper.gen})
          /\ Reaps([reaper EXCEPT !.at = "settle"])
          /\ UNCHANGED draining
       \/ /\ \/ reaper.gen \in alive /\ Stopped({reaper.gen})  \* unheard
             \/ UNCHANGED <<alive, sessions>>
          /\ draining' = draining \cup {reaper.gen}
          /\ Reaps(NextOne(reaper))
    /\ UNCHANGED <<overdue, owners>>

Settle ==        \* forget_owners
    /\ reaper.at = "settle"
    /\ owners' = Restrict(owners,
                      {t \in DOMAIN owners : owners[t] # reaper.gen})
    /\ Reaps(NextOne(reaper))
    /\ UNCHANGED <<brokers, draining>>

Retire == Wakes \/ AskEmpty \/ Forget \/ Stop \/ Settle

\* The pool is told to stop every broker: each is, or its error is reported.
Shutdown ==
    /\ ~shuttingDown /\ shuttingDown' = TRUE /\ Happens
    /\ \E G \in SUBSET (({Current} \cup draining) \cap alive) : Stopped(G)
    /\ UNCHANGED <<overdue, draining, owners, createLock, task, reaper>>

(***************************************************************************)
(* The server restarts and connects to the brokers that answer its health  *)
(* check; a current one is started when there is none.  A generation that  *)
(* stays silent is left out of the pool, and with it the names it knows.   *)
(***************************************************************************)
ConnectOrStart ==
    /\ Happens
    /\ alive' = alive \cup {Current}
    /\ draining' \in SUBSET (alive \ {Current})
    /\ sessions' = [g \in Generations |->
           {[s EXCEPT !.given = @ /\ g \in draining' \cup {Current}] :
                s \in sessions[g]}]
    /\ owners' = <<>> /\ createLock' = Nobody
    /\ overdue' = overdue \cup {r \in Range(task) : Unheard(r)}
    /\ task' = [k \in Tasks |-> Idle]
    /\ reaper' = [Asleep EXCEPT !.at = "asking", !.todo = draining']
    /\ shuttingDown' = FALSE

\* A broker's process ends, and with it its terminals.
Dies(g) == /\ g \in alive /\ Stopped({g}) /\ Happens
           /\ UNCHANGED <<overdue, pool, owners, createLock, task>>

\* A broker drops an exited session, or names one after its agent's task.
Prunes(g) == /\ Happens
             /\ \E t \in Ids(sessions[g]) :
                  sessions' = [sessions EXCEPT ![g] = Without(g, t)]
             /\ UNCHANGED <<alive, overdue, pool, owners, createLock, task>>
NamesItself(g) ==
    /\ Happens
    /\ \E s \in sessions[g], n \in Names :
         /\ n # s.name /\ NameFree(n, s.id, sessions[g])
         /\ sessions' = [sessions EXCEPT ![g] = Without(g, s.id) \cup
                            {[s EXCEPT !.name = n, !.given = FALSE]}]
    /\ UNCHANGED <<alive, overdue, pool, owners, createLock, task>>

Session == [id : PoolTerminals, name : Names, given : BOOLEAN]

\* Pools are built by connect_or_start: nothing cached, the others draining.
PoolInit ==
    /\ alive = Generations /\ draining = Generations \ {Current}
    /\ sessions \in [Generations -> {{}} \cup
            {{[id |-> t, name |-> n, given |-> FALSE]} : t \in PoolTerminals,
                                                         n \in Names}]
    /\ sessions[Current] = {}
    /\ \A g, f \in Generations : g # f =>
            Ids(sessions[g]) \cap Ids(sessions[f]) = {}
    /\ owners = <<>> /\ createLock = Nobody /\ overdue = {}
    /\ task = [k \in Tasks |-> Idle]
    /\ reaper = [Asleep EXCEPT !.at = "asking", !.todo = draining]
    /\ shuttingDown = FALSE
    /\ budget = MaxSteps

TaskNext(k) == \/ ListTerminals(k) \/ Forward(k) \/ Create(k) \/ Rename(k)
               \/ Ask(k) \/ Listed(k) \/ Owner(k) \/ Reread(k)
               \/ Answered(k) \/ Answerless(k) \/ Cache(k)
PoolNext == \/ \E k \in Tasks : TaskNext(k)
            \/ \E r \in overdue : Late(r)
            \/ Retire \/ Shutdown \/ ConnectOrStart
            \/ \E g \in Generations : Dies(g) \/ Prunes(g) \/ NamesItself(g)

\* The reaper's task is never cancelled, and every request it makes is bounded.
PoolFairness == WF_poolVars(Retire)
PoolSpec == PoolInit /\ [][PoolNext]_poolVars /\ PoolFairness

PoolTypeOK ==
    /\ alive \subseteq Generations /\ draining \subseteq Generations \ {Current}
    /\ sessions \in [Generations -> SUBSET Session]
    /\ \A g \in Generations \ alive : sessions[g] = {}
    /\ DOMAIN owners \subseteq PoolTerminals
    /\ Range(owners) \subseteq Generations
    /\ createLock \in Tasks \cup {Nobody}
    /\ \A k \in Tasks : createLock = k <=> task[k].op \in {"create", "rename"}

\* A listing nobody failed to answer shows every terminal that was there when
\* it began and still is: retiring a generation, stopping one in vain and
\* replacing the caches never hide a terminal (list, retire_empty_brokers).
ListingComplete ==
    \A k \in Tasks :
        task[k].at = "listing" /\ task[k].todo = {} /\ ~task[k].missed =>
            task[k].expect \cap Held \subseteq Ids(task[k].listed)

\* Two terminals never share a name that users gave them through this pool,
\* whatever generations they live in, while listings were complete: that is
\* what the create lock is held for across the listing and the request.
GivenNamesUnique ==
    \A s, z \in SessionsIn(Generations) :
        s.given /\ z.given /\ s.id # z.id => s.name # z.name

PoolSound == ListingComplete /\ GivenNamesUnique

\* A broker that died leaves the pool, however the others answer.
DeadGenerationsGo ==
    \A g \in Generations \ {Current} :
        (g \notin alive /\ g \in draining) ~>
            (g \notin draining \/ shuttingDown)
=============================================================================
