---------------------------- MODULE AccessManager ----------------------------
(***************************************************************************)
(* The broker's access manager (src/access.rs): secret requests, grants    *)
(* and one-time shares, reviewed root commands, and the commands that run  *)
(* with a secret.  One mutex guards the whole state, so what the code does *)
(* under one lock is one action; a handler that lets go of the lock (to    *)
(* await sudo, or between the broker's check of the terminal and the call  *)
(* of the manager) is split at that point.                                 *)
(*                                                                         *)
(* Uuids are drawn from finite pools: a fresh one is one nothing refers to.*)
(* Calls that return an error before changing anything are stuttering      *)
(* steps.  The activity log and the revision counter, which nothing reads  *)
(* to decide anything, are left out, and so is the Waiting or Running      *)
(* frame each stream opens with.                                           *)
(*                                                                         *)
(* A definition whose name starts with Faulty is a plausible bug in the    *)
(* definition that follows it; no action uses it, and MCAccessManager's    *)
(* properties are known to catch it.                                       *)
(***************************************************************************)
EXTENDS Integers, Sequences, FiniteSets

CONSTANTS
    Terminals, Names, Commands, Purposes,
    Agents,        \* processes that call the agent endpoints
    Users,         \* browser requests that add or approve
    Ids,           \* uuids of requests, shares and secret executions
    GrantIds,      \* uuids of grants; also stands for the value granted
    None,
    MaxPendingRequests, MaxGrants, MaxPendingShares, MaxShares,
    MaxExecutions, ChannelCapacity

ASSUME BoundsAssumption ==
    /\ {MaxPendingRequests, MaxGrants, MaxPendingShares, MaxShares,
        MaxExecutions} \subseteq Nat
    /\ ChannelCapacity \in Nat \ {0}

ASSUME NoneAssumption ==
    None \notin Terminals \cup Ids \cup GrantIds

VARIABLES
    terminal,    \* the session registry, as the access endpoints see it
    sweep,       \* terminals the reaper listed and is about to keep
    call,        \* the terminal a caller's check has passed for
    requests,    \* AccessState::requests
    grants,      \* AccessState::grants
    shares,      \* AccessState::shares
    executions,  \* AccessState::secret_executions: the terminal of each
    commands,    \* tasks running run_secret_command
    canceled,    \* commands whose watch channel was set
    stream,      \* the AccessSubscription each agent reads
    approval,    \* the approve_sudo call each user is in
    roots,       \* run_sudo tasks
    verified,    \* history: requests whose password sudo accepted
    started,     \* history: root commands started for each request
    reveals      \* history: times the value of each share was handed out

vars == <<terminal, sweep, call, requests, grants, shares, executions,
          commands, canceled, stream, approval, roots, verified, started,
          reveals>>

registryVars == <<terminal, sweep>>
commandVars  == <<executions, commands, canceled>>
sudoVars     == <<approval, roots, verified, started>>

-----------------------------------------------------------------------------
(* Records.                                                                *)

Subjects == Names \cup Commands

NoRequest == [state |-> "none"]
Request ==
    {r \in [state : {"pending", "authenticating", "running"},
            kind : {"secret", "sudo"}, terminal : Terminals,
            subject : Subjects, purpose : Purposes, waiters : Nat] :
        r.subject \in IF r.kind = "secret" THEN Names ELSE Commands}

NoShare == [state |-> "none"]
Share == [state : {"pending", "viewed", "dismissed", "expired"},
          terminal : Terminals, name : Names, purpose : Purposes,
          waiters : Nat, value : GrantIds \cup {None}, due : BOOLEAN]

Grant == [id : GrantIds, terminal : Terminals, name : Names]

Verdicts == {"granted", "rejected", "failed", "completed",
             "viewed", "dismissed", "expired"}
Events == Verdicts \cup {"progress"}

\* `done' is the subscription's own flag: it has returned a terminal event.
NoStream == [role |-> "none", target |-> None, queue |-> <<>>,
             lagged |-> FALSE, done |-> FALSE]
Stream == [role : {"none", "immediate"}, target : {None},
           queue : Seq(Events), lagged : BOOLEAN, done : BOOLEAN]
          \cup [role : {"waiter", "command"}, target : Ids,
                queue : Seq(Events), lagged : BOOLEAN, done : BOOLEAN]

NoApproval == [phase |-> "none", request |-> None]
Approval == {NoApproval} \cup
            [phase : {"verifying", "mismatched", "invalidating"}, request : Ids]

Immediate(e) == [NoStream EXCEPT !.role = "immediate", !.queue = <<e>>]
Waiter(i)    == [NoStream EXCEPT !.role = "waiter", !.target = i]
Command(i)   == [NoStream EXCEPT !.role = "command", !.target = i]

Callers == Agents \cup Users
LiveRequests == {i \in Ids : requests[i].state # "none"}
LiveShares   == {i \in Ids : shares[i].state # "none"}

Pending(t) == {i \in Ids : /\ requests[i].state = "pending"
                           /\ requests[i].terminal = t}
PendingSecret(t, n) == {i \in Pending(t) : /\ requests[i].kind = "secret"
                                           /\ requests[i].subject = n}
PendingShares(t, n) == {i \in LiveShares : /\ shares[i].state = "pending"
                                           /\ shares[i].terminal = t
                                           /\ shares[i].name = n}
GrantsOf(t)   == {g \in grants : g.terminal = t}
GrantOf(t, n) == {g \in grants : g.terminal = t /\ g.name = n}

FreshId(i) ==
    /\ requests[i].state = "none" /\ shares[i].state = "none"
    /\ executions[i] = None /\ commands[i] = "none" /\ roots[i] = "none"
    /\ \A a \in Agents : stream[a].target # i
    /\ \A u \in Users : approval[u].request # i

FreshGrant(g) ==
    /\ \A h \in grants : h.id # g
    /\ \A i \in LiveShares : shares[i].value # g

-----------------------------------------------------------------------------
(* Channels.  A broadcast receiver that falls more than the capacity       *)
(* behind loses the oldest events and learns it lagged.                    *)

FaultyPush(s, e) ==    \* a full queue loses the new event, unnoticed
    IF Len(s.queue) < ChannelCapacity
      THEN [s EXCEPT !.queue = Append(@, e)] ELSE s

Push(s, e) ==
    IF Len(s.queue) < ChannelCapacity
      THEN [s EXCEPT !.queue = Append(@, e)]
      ELSE [s EXCEPT !.queue = Append(Tail(@), e), !.lagged = TRUE]

FaultyNotify(ids, e) == stream    \* the entry is dropped, not resolved

Notify(ids, e) ==
    [a \in Agents |-> IF stream[a].target \in ids THEN Push(stream[a], e)
                                                  ELSE stream[a]]

FaultyResolve(sh, outcome) ==    \* the value outlives the offer
    [sh EXCEPT !.state = outcome, !.due = FALSE]

Resolve(sh, outcome) ==
    [sh EXCEPT !.state = outcome, !.value = None, !.due = FALSE]

DueShares   == {i \in LiveShares : shares[i].state = "pending" /\ shares[i].due}
StaleShares == {i \in LiveShares : shares[i].state # "pending" /\ shares[i].due}

\* expire_shares_locked: time out pending shares, forget old resolved ones.
Expired ==
    [i \in Ids |-> IF i \in DueShares THEN Resolve(shares[i], "expired")
                   ELSE IF i \in StaleShares THEN NoShare
                   ELSE shares[i]]

-----------------------------------------------------------------------------
Init ==
    /\ terminal = [t \in Terminals |-> "gone"]
    /\ sweep = [listed |-> FALSE, active |-> {}]
    /\ call = [c \in Callers |-> None]
    /\ requests = [i \in Ids |-> NoRequest]
    /\ grants = {}
    /\ shares = [i \in Ids |-> NoShare]
    /\ executions = [i \in Ids |-> None]
    /\ commands = [i \in Ids |-> "none"]
    /\ canceled = {}
    /\ stream = [a \in Agents |-> NoStream]
    /\ approval = [u \in Users |-> NoApproval]
    /\ roots = [i \in Ids |-> "none"]
    /\ verified = {}
    /\ started = [i \in Ids |-> 0]
    /\ reveals = [i \in Ids |-> 0]

-----------------------------------------------------------------------------
(* The session registry, and the two ways state of a terminal is cleared.  *)

Referenced(t) ==
    \/ \E i \in LiveRequests : requests[i].terminal = t
    \/ \E i \in LiveShares : shares[i].terminal = t
    \/ \E i \in Ids : executions[i] = t
    \/ GrantsOf(t) # {}
    \/ \E c \in Callers : call[c] = t

\* A new session has a new uuid: nothing mentions it yet.
CreateTerminal(t) ==
    /\ terminal[t] = "gone" /\ ~Referenced(t)
    /\ terminal' = [terminal EXCEPT ![t] = "running"]
    /\ UNCHANGED <<sweep, call, requests, grants, shares, commandVars, stream,
                   sudoVars, reveals>>

\* The child exits: still listed, without a pid.
TerminalExits(t) ==
    /\ terminal[t] = "running"
    /\ terminal' = [terminal EXCEPT ![t] = "exited"]
    /\ UNCHANGED <<sweep, call, requests, grants, shares, commandVars, stream,
                   sudoVars, reveals>>

\* prune_exited_sessions drops an old exited session without clear_terminal.
PruneExited(t) ==
    /\ terminal[t] = "exited"
    /\ terminal' = [terminal EXCEPT ![t] = "gone"]
    /\ UNCHANGED <<sweep, call, requests, grants, shares, commandVars, stream,
                   sudoVars, reveals>>

\* remove_broker_terminal, first half: terminals.remove.
RemoveTerminal(t) ==
    /\ terminal[t] \in {"running", "exited"}
    /\ terminal' = [terminal EXCEPT ![t] = "removing"]
    /\ UNCHANGED <<sweep, call, requests, grants, shares, commandVars, stream,
                   sudoVars, reveals>>

\* Forget everything of the terminals ts, telling whoever waits.
Clear(ts) ==
    LET dead   == {i \in LiveRequests : requests[i].terminal \in ts}
        gone   == {i \in LiveShares : shares[i].terminal \in ts}
        halted == {i \in Ids : executions[i] \in ts}
    IN  /\ requests' = [i \in Ids |-> IF i \in dead THEN NoRequest
                                                    ELSE requests[i]]
        /\ shares' = [i \in Ids |-> IF i \in gone THEN NoShare ELSE shares[i]]
        /\ executions' = [i \in Ids |-> IF i \in halted THEN None
                                                        ELSE executions[i]]
        /\ canceled' = canceled \cup halted
        /\ grants' = {g \in grants : g.terminal \notin ts}
        /\ stream' = Notify(dead \cup {i \in gone : shares[i].state = "pending"},
                            "failed")
        /\ UNCHANGED <<call, commands, sudoVars, reveals>>

\* remove_broker_terminal, second half: clear_terminal.
ClearTerminal(t) ==
    /\ terminal[t] = "removing"
    /\ terminal' = [terminal EXCEPT ![t] = "gone"]
    /\ Clear({t})
    /\ UNCHANGED sweep

\* One tick of start_access_reaper: list, then clear what was not listed.
FaultyReaperLists ==    \* counts every listed session, not those with a pid
    /\ ~sweep.listed
    /\ sweep' = [listed |-> TRUE,
                 active |-> {t \in Terminals : terminal[t] # "gone"}]
    /\ UNCHANGED <<terminal, call, requests, grants, shares, commandVars,
                   stream, sudoVars, reveals>>

ReaperLists ==
    /\ ~sweep.listed
    /\ sweep' = [listed |-> TRUE,
                 active |-> {t \in Terminals : terminal[t] = "running"}]
    /\ UNCHANGED <<terminal, call, requests, grants, shares, commandVars,
                   stream, sudoVars, reveals>>

ReaperClears ==
    /\ sweep.listed
    /\ sweep' = [listed |-> FALSE, active |-> {}]
    /\ Clear(Terminals \ sweep.active)
    /\ UNCHANGED terminal

-----------------------------------------------------------------------------
(* Checks that precede a call, and the calls that end in an error.         *)

Idle(c) ==
    /\ call[c] = None
    /\ c \in Agents => stream[c] = NoStream
    /\ c \in Users => approval[c] = NoApproval

\* authorize_agent_request and require_running_terminal.
Authorize(c, t) ==
    /\ Idle(c) /\ terminal[t] = "running"
    /\ call' = [call EXCEPT ![c] = t]
    /\ UNCHANGED <<registryVars, requests, grants, shares, commandVars, stream,
                   sudoVars, reveals>>

Refuse(c) ==
    /\ call[c] # None
    /\ call' = [call EXCEPT ![c] = None]
    /\ UNCHANGED <<registryVars, requests, grants, shares, commandVars, stream,
                   sudoVars, reveals>>

Return(c) == call' = [call EXCEPT ![c] = None]

-----------------------------------------------------------------------------
(* Secret requests and grants.                                             *)

\* The common part of request_secret and request_sudo: join a pending request
\* for the same subject and purpose, or file a new one.
Ask(a, kind, s, p) ==
    LET t    == call[a]
        same == {i \in Pending(t) : /\ requests[i].kind = kind
                                    /\ requests[i].subject = s}
    IN  /\ \/ \E i \in same :
                /\ requests[i].purpose = p
                /\ requests' = [requests EXCEPT ![i].waiters = @ + 1]
                /\ stream' = [stream EXCEPT ![a] = Waiter(i)]
                /\ UNCHANGED <<verified, started>>
           \/ /\ same = {}
              /\ Cardinality(Pending(t)) < MaxPendingRequests
              /\ \E i \in Ids :
                   /\ FreshId(i)
                   /\ requests' = [requests EXCEPT ![i] =
                        [state |-> "pending", kind |-> kind, terminal |-> t,
                         subject |-> s, purpose |-> p, waiters |-> 1]]
                   /\ stream' = [stream EXCEPT ![a] = Waiter(i)]
                   /\ verified' = verified \ {i}
                   /\ started' = [started EXCEPT ![i] = 0]
        /\ Return(a)
        /\ UNCHANGED <<registryVars, grants, shares, commandVars, approval,
                       roots, reveals>>

RequestSecret(a, n, p) ==
    /\ call[a] # None
    /\ \/ /\ GrantOf(call[a], n) # {}
          /\ stream' = [stream EXCEPT ![a] = Immediate("granted")]
          /\ Return(a)
          /\ UNCHANGED <<registryVars, requests, grants, shares, commandVars,
                         sudoVars, reveals>>
       \/ /\ GrantOf(call[a], n) = {}
          /\ Ask(a, "secret", n, p)

RequestSudo(a, c, p) == call[a] # None /\ Ask(a, "sudo", c, p)

\* expire_shares_for_grant.
FaultyWithdraw(t, n) == shares    \* the grant goes, its offers stay

Withdraw(t, n) ==
    [i \in Ids |-> IF i \in PendingShares(t, n)
                     THEN Resolve(shares[i], "expired") ELSE shares[i]]

\* Insert a grant and answer the pending requests for its name.
FaultyInsert(kept, t, n, answered) ==    \* pushes beside the replaced grant
    \E g \in GrantIds :
        /\ FreshGrant(g)
        /\ grants' = grants \cup {[id |-> g, terminal |-> t, name |-> n]}
        /\ requests' = [i \in Ids |-> IF i \in answered THEN NoRequest
                                                        ELSE requests[i]]

FaultyWake(kept, t, n, answered) ==    \* leaves the requests it answers
    \E g \in GrantIds :
        /\ FreshGrant(g)
        /\ grants' = kept \cup {[id |-> g, terminal |-> t, name |-> n]}
        /\ UNCHANGED requests

GrantAndWake(kept, t, n, answered) ==
    \E g \in GrantIds :
        /\ FreshGrant(g)
        /\ grants' = kept \cup {[id |-> g, terminal |-> t, name |-> n]}
        /\ requests' = [i \in Ids |-> IF i \in answered THEN NoRequest
                                                        ELSE requests[i]]

FaultyRoomForGrant(kept, t) ==    \* off by one
    Cardinality(kept \cap GrantsOf(t)) <= MaxGrants

RoomForGrant(kept, t) == Cardinality(kept \cap GrantsOf(t)) < MaxGrants

AddSecret(u, n) ==
    LET t == call[u] IN
    /\ t # None
    /\ GrantOf(t, n) = {}
    /\ RoomForGrant(grants, t)
    /\ GrantAndWake(grants, t, n, PendingSecret(t, n))
    /\ stream' = Notify(PendingSecret(t, n), "granted")
    /\ Return(u)
    /\ UNCHANGED <<registryVars, shares, commandVars, sudoVars, reveals>>

ApproveSecret(u, i) ==
    LET t == call[u]
        n == requests[i].subject IN
    /\ t # None
    /\ i \in Pending(t) /\ requests[i].kind = "secret"
    /\ GrantOf(t, n) = {}
    /\ RoomForGrant(grants, t)
    /\ GrantAndWake(grants, t, n, {i})
    /\ stream' = Notify({i}, "granted")
    /\ Return(u)
    /\ UNCHANGED <<registryVars, shares, commandVars, sudoVars, reveals>>

\* generate_secret: with `replace', the old grant goes first and its pending
\* shares are withdrawn.
GenerateSecret(a, n, replace) ==
    LET t   == call[a]
        old == GrantOf(t, n) IN
    /\ t # None
    /\ old = {} \/ replace
    /\ RoomForGrant(grants \ old, t)
    /\ GrantAndWake(grants \ old, t, n, PendingSecret(t, n))
    /\ shares' = IF old = {} THEN shares ELSE Withdraw(t, n)
    /\ stream' = [b \in Agents |->
                    IF stream[b].target \in PendingSecret(t, n)
                      THEN Push(stream[b], "granted")
                    ELSE IF old # {} /\ stream[b].target \in PendingShares(t, n)
                      THEN Push(stream[b], "expired")
                    ELSE stream[b]]
    /\ Return(a)
    /\ UNCHANGED <<registryVars, commandVars, sudoVars, reveals>>

\* reject: the browser names the request by id and hash; no terminal check.
Reject(i) ==
    /\ requests[i].state = "pending"
    /\ requests' = [requests EXCEPT ![i] = NoRequest]
    /\ stream' = Notify({i}, "rejected")
    /\ UNCHANGED <<registryVars, call, grants, shares, commandVars, sudoVars,
                   reveals>>

\* revoke_grant, by the user or through drop_grant_by_name.
RevokeGrant(g) ==
    /\ grants' = grants \ {g}
    /\ shares' = Withdraw(g.terminal, g.name)
    /\ stream' = Notify(PendingShares(g.terminal, g.name), "expired")
    /\ UNCHANGED <<registryVars, call, requests, commandVars, sudoVars, reveals>>

-----------------------------------------------------------------------------
(* One-time shares.                                                        *)

\* The clock passes the deadline of a pending share or the retention of a
\* resolved one.
TimePasses(i) ==
    /\ i \in LiveShares /\ ~shares[i].due
    /\ shares' = [shares EXCEPT ![i].due = TRUE]
    /\ UNCHANGED <<registryVars, call, requests, grants, commandVars, stream,
                   sudoVars, reveals>>

\* expire_shares, called by the reaper, and by snapshot and list_shares.
ExpireShares ==
    /\ DueShares \cup StaleShares # {}
    /\ shares' = Expired
    /\ stream' = Notify(DueShares, "expired")
    /\ UNCHANGED <<registryVars, call, requests, grants, commandVars, sudoVars,
                   reveals>>

SharesOf(t) == {i \in LiveShares : shares[i].terminal = t}
Offers(t)   == {i \in SharesOf(t) : shares[i].state = "pending"}

\* At the cap one resolved share makes room for a new one: the oldest, an
\* order the model leaves open.
FaultyEvictions(t) == {{}}    \* the resolved shares are never trimmed

Evictions(t) ==
    IF Cardinality(SharesOf(t)) < MaxShares THEN {{}}
    ELSE {{i} : i \in SharesOf(t) \ Offers(t)}

\* share_secret, after its own expire_shares_locked found nothing to do (when
\* it does, that is an ExpireShares step).
ShareSecret(a, n, p) ==
    LET t       == call[a]
        offered == PendingShares(t, n)
    IN
    /\ t # None
    /\ DueShares \cup StaleShares = {}
    /\ \E g \in GrantOf(t, n) :
         \/ \E i \in offered :
              /\ shares[i].purpose = p
              /\ shares' = [shares EXCEPT ![i].waiters = @ + 1]
              /\ stream' = [stream EXCEPT ![a] = Waiter(i)]
              /\ UNCHANGED reveals
         \/ /\ offered = {}
            /\ Cardinality(Offers(t)) < MaxPendingShares
            /\ \E i \in Ids, evicted \in Evictions(t) :
                 /\ FreshId(i)
                 /\ shares' = [[j \in Ids |-> IF j \in evicted THEN NoShare
                                                             ELSE shares[j]]
                      EXCEPT ![i] =
                        [state |-> "pending", terminal |-> t, name |-> n,
                         purpose |-> p, waiters |-> 1, value |-> g.id,
                         due |-> FALSE]]
                 /\ stream' = [stream EXCEPT ![a] = Waiter(i)]
                 /\ reveals' = [reveals EXCEPT ![i] = 0]
    /\ Return(a)
    /\ UNCHANGED <<registryVars, requests, grants, commandVars, sudoVars>>

\* wait_share: attach to a pending share, or learn how it was resolved.
WaitShare(a, i) ==
    /\ call[a] # None
    /\ DueShares \cup StaleShares = {}
    /\ i \in LiveShares /\ shares[i].terminal = call[a]
    /\ IF shares[i].state = "pending"
         THEN /\ shares' = [shares EXCEPT ![i].waiters = @ + 1]
              /\ stream' = [stream EXCEPT ![a] = Waiter(i)]
         ELSE /\ stream' = [stream EXCEPT ![a] = Immediate(shares[i].state)]
              /\ UNCHANGED shares
    /\ Return(a)
    /\ UNCHANGED <<registryVars, requests, grants, commandVars, sudoVars,
                   reveals>>

\* reveal_share takes the value out; a due share is expired first instead.
FaultyRevealShare(i) ==    \* does not look at the state of the share
    /\ DueShares \cup StaleShares = {}
    /\ i \in LiveShares
    /\ shares' = [shares EXCEPT ![i] = Resolve(@, "viewed")]
    /\ reveals' = [reveals EXCEPT ![i] =
                     IF shares[i].value = None THEN @ ELSE @ + 1]
    /\ stream' = Notify({i}, "viewed")
    /\ UNCHANGED <<registryVars, call, requests, grants, commandVars, sudoVars>>

RevealShare(i) ==
    /\ DueShares \cup StaleShares = {}
    /\ i \in LiveShares /\ shares[i].state = "pending"
    /\ shares' = [shares EXCEPT ![i] = Resolve(@, "viewed")]
    /\ reveals' = [reveals EXCEPT ![i] =
                     IF shares[i].value = None THEN @ ELSE @ + 1]
    /\ stream' = Notify({i}, "viewed")
    /\ UNCHANGED <<registryVars, call, requests, grants, commandVars, sudoVars>>

DismissShare(i) ==
    /\ DueShares \cup StaleShares = {}
    /\ i \in LiveShares /\ shares[i].state = "pending"
    /\ shares' = [shares EXCEPT ![i] = Resolve(@, "dismissed")]
    /\ stream' = Notify({i}, "dismissed")
    /\ UNCHANGED <<registryVars, call, requests, grants, commandVars, sudoVars,
                   reveals>>

-----------------------------------------------------------------------------
(* Reviewed root commands.                                                 *)

FaultyApprovable(t) ==    \* does not look at the state of the request
    {i \in LiveRequests : requests[i].terminal = t /\ requests[i].kind = "sudo"}

Approvable(t) == {i \in Pending(t) : requests[i].kind = "sudo"}

\* approve_sudo up to its first await.
ApproveSudo(u, i) ==
    /\ call[u] # None
    /\ i \in Approvable(call[u])
    /\ requests' = [requests EXCEPT ![i].state = "authenticating"]
    /\ approval' = [approval EXCEPT ![u] = [phase |-> "verifying", request |-> i]]
    /\ Return(u)
    /\ UNCHANGED <<registryVars, grants, shares, commandVars, stream, roots,
                   verified, started, reveals>>

FaultyBackToPending(i) ==    \* does not look whether the request is there
    [requests EXCEPT ![i].state = "pending"]

BackToPending(i) ==
    IF requests[i].state = "none" THEN requests
    ELSE [requests EXCEPT ![i].state = "pending"]

\* sudo -v refuses: back to pending, if the request is still there.
PasswordRejected(u) ==
    /\ approval[u].phase = "verifying"
    /\ requests' = BackToPending(approval[u].request)
    /\ approval' = [approval EXCEPT ![u] = NoApproval]
    /\ UNCHANGED <<registryVars, call, grants, shares, commandVars, stream,
                   roots, verified, started, reveals>>

\* sudo -v accepts; sudo_objects_match decides what follows sudo -K.
PasswordAccepted(u, matches) ==
    /\ approval[u].phase = "verifying"
    /\ approval' = [approval EXCEPT ![u].phase =
                      IF matches THEN "invalidating" ELSE "mismatched"]
    /\ verified' = verified \cup {approval[u].request}
    /\ UNCHANGED <<registryVars, call, requests, grants, shares, commandVars,
                   stream, roots, started, reveals>>

FaultyFailRequest(i) ==    \* may be tried again instead
    /\ requests' = BackToPending(i)
    /\ UNCHANGED stream

\* fail_request, which does nothing when the request is gone.
FailRequest(i) ==
    /\ requests' = [requests EXCEPT ![i] = NoRequest]
    /\ stream' = IF requests[i].state = "none" THEN stream
                                               ELSE Notify({i}, "failed")

RefuseChangedObjects(u) ==
    /\ approval[u].phase = "mismatched"
    /\ FailRequest(approval[u].request)
    /\ approval' = [approval EXCEPT ![u] = NoApproval]
    /\ UNCHANGED <<registryVars, call, grants, shares, commandVars, roots,
                   verified, started, reveals>>

\* The request, if it survived, is running and its task is spawned.
StartApproved(u) ==
    LET i == approval[u].request IN
    /\ approval[u].phase = "invalidating"
    /\ IF requests[i].state = "none"
         THEN UNCHANGED <<requests, stream, roots>>
         ELSE /\ requests' = [requests EXCEPT ![i].state = "running"]
              /\ stream' = Notify({i}, "progress")
              /\ roots' = [roots EXCEPT ![i] = "spawned"]
    /\ approval' = [approval EXCEPT ![u] = NoApproval]
    /\ UNCHANGED <<registryVars, call, grants, shares, commandVars, verified,
                   started, reveals>>

\* The browser goes away while the handler awaits sudo: the server drops the
\* handler's future, and nothing after that await runs.
AbandonApproval(u) ==
    /\ approval[u].phase # "none"
    /\ approval' = [approval EXCEPT ![u] = NoApproval]
    /\ UNCHANGED <<registryVars, call, requests, grants, shares, commandVars,
                   stream, roots, verified, started, reveals>>

\* run_sudo: recheck the objects, then run the command as root.
RootStarts(i) ==
    /\ roots[i] = "spawned"
    /\ roots' = [roots EXCEPT ![i] = "running"]
    /\ started' = [started EXCEPT ![i] = @ + 1]
    /\ UNCHANGED <<registryVars, call, requests, grants, shares, commandVars,
                   stream, approval, verified, reveals>>

\* The recheck, the spawn, the delivery of the password or the wait fails.
RootFails(i) ==
    /\ roots[i] # "none"
    /\ FailRequest(i)
    /\ roots' = [roots EXCEPT ![i] = "none"]
    /\ UNCHANGED <<registryVars, call, grants, shares, commandVars, approval,
                   verified, started, reveals>>

RootWrites(i) ==
    /\ roots[i] = "running"
    /\ stream' = Notify({i}, "progress")
    /\ UNCHANGED <<registryVars, call, requests, grants, shares, commandVars,
                   sudoVars, reveals>>

RootExits(i) ==
    /\ roots[i] = "running"
    /\ requests' = [requests EXCEPT ![i] = NoRequest]
    /\ stream' = Notify({i}, "completed")
    /\ roots' = [roots EXCEPT ![i] = "none"]
    /\ UNCHANGED <<registryVars, call, grants, shares, commandVars, approval,
                   verified, started, reveals>>

-----------------------------------------------------------------------------
(* Commands run with a secret.                                             *)

ExecuteSecret(a, n) ==
    LET t == call[a] IN
    /\ t # None
    /\ Cardinality({i \in Ids : executions[i] = t}) < MaxExecutions
    /\ GrantOf(t, n) # {}
    /\ \E i \in Ids :
         /\ FreshId(i)
         /\ executions' = [executions EXCEPT ![i] = t]
         /\ commands' = [commands EXCEPT ![i] = "running"]
         /\ canceled' = canceled \ {i}
         /\ stream' = [stream EXCEPT ![a] = Command(i)]
    /\ Return(a)
    /\ UNCHANGED <<registryVars, requests, grants, shares, sudoVars, reveals>>

CommandWrites(i) ==
    /\ commands[i] = "running"
    /\ stream' = Notify({i}, "progress")
    /\ UNCHANGED <<registryVars, call, requests, grants, shares, commandVars,
                   sudoVars, reveals>>

\* run_secret_command returns, having sent Completed or Failed.
CommandEnds(i, e) ==
    /\ commands[i] = "running"
    /\ e \in {"completed", "failed"}
    /\ commands' = [commands EXCEPT ![i] = "finishing"]
    /\ stream' = Notify({i}, e)
    /\ UNCHANGED <<registryVars, call, requests, grants, shares, executions,
                   canceled, sudoVars, reveals>>

FinishSecretExecution(i) ==
    /\ commands[i] = "finishing"
    /\ commands' = [commands EXCEPT ![i] = "none"]
    /\ executions' = [executions EXCEPT ![i] = None]
    /\ canceled' = canceled \ {i}
    /\ UNCHANGED <<registryVars, call, requests, grants, shares, stream,
                   sudoVars, reveals>>

-----------------------------------------------------------------------------
(* Subscriptions.                                                          *)

\* AccessSubscription::next.  Having lagged reads as a failure.
ReadStream(a) ==
    LET s == stream[a] IN
    /\ s.role # "none" /\ ~s.done
    /\ IF s.lagged
         THEN stream' = [stream EXCEPT ![a].lagged = FALSE, ![a].done = TRUE]
         ELSE /\ s.queue # <<>>
              /\ stream' = [stream EXCEPT ![a].queue = Tail(@),
                                          ![a].done = Head(s.queue) \in Verdicts]
    /\ UNCHANGED <<registryVars, call, requests, grants, shares, commandVars,
                   sudoVars, reveals>>

FaultyDetach(entry) == entry    \* the waiter stays counted

Detach(entry) ==
    [entry EXCEPT !.waiters = IF @ = 0 THEN 0 ELSE @ - 1]

FaultyCancel(i) == canceled    \* the command keeps running unread

Cancel(i) == IF commands[i] = "none" THEN canceled ELSE canceled \cup {i}

\* Drop, at the end of the stream or because the agent disconnects:
\* detach_waiter for a waiter, the cancel channel for a command.  A pending
\* request the last waiter leaves is withdrawn; a share stays.
DropStream(a) ==
    LET s == stream[a]
        i == s.target
        waits == s.role = "waiter"
        left  == Detach(requests[i])
    IN
    /\ s.role # "none"
    /\ stream' = [stream EXCEPT ![a] = NoStream]
    /\ shares' = IF waits /\ shares[i].state # "none"
                   THEN [shares EXCEPT ![i] = Detach(@)] ELSE shares
    /\ requests' =
         IF ~waits \/ shares[i].state # "none" \/ requests[i].state = "none"
           THEN requests
         ELSE [requests EXCEPT ![i] =
                 IF left.waiters = 0 /\ left.state = "pending" THEN NoRequest
                                                               ELSE left]
    /\ canceled' = IF s.role = "command" THEN Cancel(i) ELSE canceled
    /\ UNCHANGED <<registryVars, call, grants, executions, commands, sudoVars,
                   reveals>>

-----------------------------------------------------------------------------
RegistryStep ==
    \/ \E t \in Terminals : \/ CreateTerminal(t)
                            \/ TerminalExits(t)
                            \/ PruneExited(t)
                            \/ RemoveTerminal(t)
                            \/ ClearTerminal(t)
    \/ ReaperLists
    \/ ReaperClears

CallerStep ==
    \E c \in Callers : \/ \E t \in Terminals : Authorize(c, t)
                       \/ Refuse(c)

AgentStep ==
    \E a \in Agents :
        \/ \E n \in Names, p \in Purposes : \/ RequestSecret(a, n, p)
                                            \/ ShareSecret(a, n, p)
        \/ \E n \in Names, replace \in BOOLEAN : GenerateSecret(a, n, replace)
        \/ \E c \in Commands, p \in Purposes : RequestSudo(a, c, p)
        \/ \E i \in Ids : WaitShare(a, i)
        \/ \E n \in Names : ExecuteSecret(a, n)
        \/ ReadStream(a)
        \/ DropStream(a)

UserStep ==
    \/ \E u \in Users :
        \/ \E n \in Names : AddSecret(u, n)
        \/ \E i \in Ids : ApproveSecret(u, i) \/ ApproveSudo(u, i)
        \/ PasswordRejected(u)
        \/ \E matches \in BOOLEAN : PasswordAccepted(u, matches)
        \/ RefuseChangedObjects(u)
        \/ StartApproved(u)
        \/ AbandonApproval(u)
    \/ \E g \in grants : RevokeGrant(g)
    \/ \E i \in Ids : Reject(i) \/ RevealShare(i) \/ DismissShare(i)

TaskStep ==
    \/ ExpireShares
    \/ \E i \in Ids :
        \/ TimePasses(i)
        \/ RootStarts(i) \/ RootFails(i) \/ RootWrites(i) \/ RootExits(i)
        \/ CommandWrites(i) \/ FinishSecretExecution(i)
        \/ \E e \in {"completed", "failed"} : CommandEnds(i, e)

Next == RegistryStep \/ CallerStep \/ AgentStep \/ UserStep \/ TaskStep

Spec == Init /\ [][Next]_vars

\* What the broker's own scheduling guarantees: the reaper ticks, a handler
\* that passed its check answers, remove_broker_terminal finishes, and a
\* stream with something to deliver is polled and dropped when it ends.
\* Nothing is assumed of users, of sudo, or of the commands themselves.
Fairness ==
    /\ WF_vars(ReaperLists) /\ WF_vars(ReaperClears) /\ WF_vars(ExpireShares)
    /\ \A t \in Terminals : WF_vars(ClearTerminal(t))
    /\ \A c \in Callers : WF_vars(Refuse(c))
    /\ \A a \in Agents : /\ WF_vars(ReadStream(a))
                         /\ WF_vars(stream[a].done /\ DropStream(a))
    /\ \A i \in Ids : WF_vars(FinishSecretExecution(i))

FairSpec == Spec /\ Fairness

-----------------------------------------------------------------------------
(* Properties.                                                             *)

TypeOK ==
    /\ terminal \in [Terminals -> {"running", "exited", "removing", "gone"}]
    /\ sweep \in [listed : BOOLEAN, active : SUBSET Terminals]
    /\ call \in [Callers -> Terminals \cup {None}]
    /\ requests \in [Ids -> Request \cup {NoRequest}]
    /\ grants \subseteq Grant
    /\ shares \in [Ids -> Share \cup {NoShare}]
    /\ executions \in [Ids -> Terminals \cup {None}]
    /\ commands \in [Ids -> {"none", "running", "finishing"}]
    /\ canceled \subseteq Ids
    /\ stream \in [Agents -> Stream]
    /\ approval \in [Users -> Approval]
    /\ roots \in [Ids -> {"none", "spawned", "running"}]
    /\ verified \subseteq Ids
    /\ started \in [Ids -> Nat]
    /\ reveals \in [Ids -> Nat]

\* A terminal holds one grant per name, whichever of add, approve and generate
\* put it there: find-by-name (execute, share, drop) is never ambiguous.
GrantNamesUnique ==
    \A g, h \in grants : g.terminal = h.terminal /\ g.name = h.name => g = h

\* A secret that is granted is never still being asked for, and no two pending
\* requests ask for the same secret: every path that inserts a grant answers
\* the requests for its name.
NoRequestBesideGrant ==
    \A t \in Terminals, n \in Names :
        /\ Cardinality(PendingSecret(t, n)) <= 1
        /\ GrantOf(t, n) # {} => PendingSecret(t, n) = {}

\* Grants answer requests: one per name, and none asked for beside its grant.
GrantsAnswer == GrantNamesUnique /\ NoRequestBesideGrant

\* A share still on offer belongs to a grant that still exists, and offers that
\* grant's value, not the value it replaced.
PendingShareBacked ==
    \A i \in LiveShares : shares[i].state = "pending" =>
        \E g \in grants : /\ g.terminal = shares[i].terminal
                          /\ g.name = shares[i].name
                          /\ g.id = shares[i].value

\* No name is on offer twice, and the broker keeps a copy of a shared value
\* exactly as long as the share is pending.
OneOfferPerGrant ==
    /\ \A i, j \in LiveShares :
         /\ shares[i].state = "pending" /\ shares[j].state = "pending"
         /\ shares[i].terminal = shares[j].terminal
         /\ shares[i].name = shares[j].name
         => i = j
    /\ \A i \in LiveShares : shares[i].value # None <=> shares[i].state = "pending"

\* What is on offer is the value its grant has now, and offered once at a time.
OffersSound == PendingShareBacked /\ OneOfferPerGrant

\* The value of a share is handed out once at most, and a share reported as
\* viewed was handed out.
RevealedOnce ==
    \A i \in LiveShares :
        reveals[i] = IF shares[i].state = "viewed" THEN 1 ELSE 0

\* The waiter count of a request or share is the number of streams attached to
\* it: a lost decrement would keep a request nobody waits for, a lost increment
\* would cancel one somebody waits for.
WaitersCounted ==
    \A i \in Ids :
        LET attached == Cardinality({a \in Agents : stream[a].target = i})
        IN  /\ requests[i].state # "none" => requests[i].waiters = attached
            /\ shares[i].state # "none" => shares[i].waiters = attached

\* Nobody waits on a channel that has no sender left without a verdict to
\* read: the request, the share or the task that would send it still exists,
\* or the verdict (or the lag that stands for one) is in the queue.
NoSilentStream ==
    \A a \in Agents :
        LET s == stream[a]
            senderAlive == \/ requests[s.target].state # "none"
                           \/ shares[s.target].state = "pending"
                           \/ roots[s.target] # "none"
                           \/ commands[s.target] = "running"
        IN  s.role # "none" /\ ~s.done =>
              \/ s.lagged
              \/ \E k \in 1..Len(s.queue) : s.queue[k] \in Verdicts
              \/ s.role # "immediate" /\ senderAlive

\* Requests know their waiters, and waiters can still be told.
StreamsServed == WaitersCounted /\ NoSilentStream

\* At most one approval or root task works for a request at a time; a request
\* is running exactly while its task lives, unless it was cleared meanwhile.
OneRootPerRequest ==
    /\ \A u, v \in Users : approval[u].request = approval[v].request =>
                             u = v \/ approval[u] = NoApproval
    /\ \A i \in Ids :
        /\ roots[i] # "none" => \A u \in Users : approval[u].request # i
        /\ requests[i].state = "running" => roots[i] # "none"
        /\ roots[i] # "none" => requests[i].state \in {"running", "none"}

\* A root command runs at most once for a request, and only after sudo
\* accepted a password for it.
RootOnceVerified ==
    \A i \in Ids : /\ started[i] <= 1
                   /\ roots[i] # "none" \/ started[i] = 1 => i \in verified

\* A root command has one actor, runs once at most, and only verified.
RootOnce == OneRootPerRequest /\ RootOnceVerified

\* A command whose reader is gone, or whose terminal was cleared, has been told
\* to stop.
AbandonedCommandCanceled ==
    \A i \in Ids :
        /\ commands[i] = "running"
        /\ executions[i] = None \/ \A a \in Agents : stream[a].target # i
        => i \in canceled

\* The grants of a terminal stay within the cap whichever of add, approve and
\* generate inserts one; replacing at the cap is allowed and no way around it.
GrantCapHolds ==
    \A t \in Terminals : Cardinality(GrantsOf(t)) <= MaxGrants

\* The shares a terminal keeps, resolved ones included, stay within the cap, and
\* so do those on offer: a resolved one always makes room for a new offer.
ShareCapsHold ==
    \A t \in Terminals : /\ Cardinality(SharesOf(t)) <= MaxShares
                         /\ Cardinality(Offers(t)) <= MaxPendingShares

\* The caps on what a terminal holds.
CapsHold == GrantCapHolds /\ ShareCapsHold

\* A request that left the panel's Pending state only returns to it because its
\* password was refused; a running one never does, and nothing is answered as
\* pending while it is being approved.
RequestLifecycle ==
    [][\A i \in Ids :
        /\ requests[i].state = "authenticating" /\ requests'[i].state = "pending"
             => \E u \in Users :
                    approval[u] = [phase |-> "verifying", request |-> i]
        /\ requests[i].state = "running"
             => requests'[i].state \in {"running", "none"}
        /\ requests[i].state = "pending"
             => requests'[i].state # "running"]_vars

\* What a terminal held is gone some time after it stopped running: the reaper
\* also catches what a call that had passed its check left behind.
DeadTerminalForgotten ==
    \A t \in Terminals :
        terminal[t] # "running" ~>
            \/ terminal[t] = "running"
            \/ /\ GrantsOf(t) = {}
               /\ \A i \in LiveRequests : requests[i].terminal # t
               /\ \A i \in LiveShares : shares[i].terminal # t

\* An agent waiting for a user on a terminal that stopped running is told.
WaitersOfDeadTerminalTold ==
    \A a \in Agents, i \in Ids :
        /\ stream[a] # NoStream /\ stream[a].target = i
        /\ \/ requests[i].state # "none" /\ terminal[requests[i].terminal] # "running"
           \/ shares[i].state # "none" /\ terminal[shares[i].terminal] # "running"
        ~> stream[a] = NoStream \/ stream[a].target # i

\* A terminal's end ends all that hangs on it.
DeadTerminalEnds == DeadTerminalForgotten /\ WaitersOfDeadTerminalTold

\* tests/pending_requests_are_bounded_per_terminal: never more pending requests
\* than the cap.
PendingRequestsBounded ==
    \A t \in Terminals : Cardinality(Pending(t)) <= MaxPendingRequests

\* A request nobody waits for any more is withdrawn from the panel.
NoOrphanRequest ==
    \A i \in LiveRequests : requests[i].state = "pending" => requests[i].waiters > 0
=============================================================================
