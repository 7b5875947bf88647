------------------------------ MODULE StatusCache ------------------------------
(***************************************************************************)
(* The status line's cache (status.rs: StatusService::snapshot,            *)
(* collect_refresh_results, failure_module) and its settings with their    *)
(* file (StatusSettingsStore).  Browsers poll; whoever finds the cache     *)
(* expired asks the providers that are due, under one lock and a deadline, *)
(* while others wait for the lock or leave.                                *)
(*                                                                         *)
(* The text of a status is the time at which it was observed; one that     *)
(* warns of high usage is "ok" here, "warn" the one that failures keep.    *)
(* `good' is history: what each provider last answered, and `askable' the  *)
(* time before which it wants no question.                                 *)
(***************************************************************************)
EXTENDS Naturals, FiniteSets, Sequences, FiniteSetsExt, Functions

CONSTANTS Providers, Pollers,
          Interval,             \* refresh_seconds
          MinRetry, MaxRetry,   \* STATUS_MIN_RETRY_SECONDS, STATUS_MAX_RETRY_SECONDS
          MaxTime               \* bound: seconds that pass

VARIABLES time, cached, expires, generated, attempts, refresher, pollers, good, askable,
          line, lineFile, lineUpdates
statusVars == <<time, cached, expires, generated, attempts, refresher, pollers, good, askable,
                line, lineFile, lineUpdates>>

Greater(a, b) == IF a >= b THEN a ELSE b
Lesser(a, b)  == IF a <= b THEN a ELSE b
Never == 0              \* time starts at 1
NoModule == [state |-> "none", updated |-> Never, next |-> Never, stale |-> FALSE,
             retryable |-> FALSE]
NoPoll == [at |-> "idle", since |-> 0, results |-> [m \in Providers |-> "none"]]
NoRefresher == 0             \* no poller holds refresh_lock

\* The settings: whether the line is on, whether phones show it.
LineDefaults == [enabled |-> TRUE, mobile |-> FALSE]
NoUpdate == [at |-> "idle", field |-> "enabled", state |-> LineDefaults, alone |-> TRUE]

StatusInit ==
    /\ time = 1 /\ cached = [m \in Providers |-> NoModule] /\ expires = Never
    /\ generated = Never
    /\ attempts = [m \in Providers |-> 0]
    /\ refresher = NoRefresher /\ pollers = [p \in Pollers |-> NoPoll]
    /\ good = [m \in Providers |-> Never] /\ askable = [m \in Providers |-> Never]
    /\ line = LineDefaults /\ lineFile = LineDefaults
    /\ lineUpdates = [p \in Pollers |-> NoUpdate]

LineUnchanged == UNCHANGED <<line, lineFile, lineUpdates>>
Become(p, poll) == pollers' = [pollers EXCEPT ![p] = poll]

-----------------------------------------------------------------------------
(* snapshot *)

StillFresh == expires # Never /\ time < expires

\* Off: an empty answer.  Otherwise the cache answers, or the poller waits.
Poll(p) ==
    /\ pollers[p].at = "idle"
    /\ line.enabled /\ ~StillFresh
    /\ Become(p, [NoPoll EXCEPT !.at = "waiting"])
    /\ UNCHANGED <<time, cached, expires, generated, attempts, refresher, good, askable>>
    /\ LineUnchanged

Due(m) == ~(cached[m].next # Never /\ time < cached[m].next)

\* Under refresh_lock: another may have refreshed meanwhile.  The providers that
\* are due are asked together.
UncheckedLocked(p) ==       \* does not look again
    /\ pollers[p].at = "waiting" /\ refresher = NoRefresher
    /\ refresher' = p
    /\ Become(p, [pollers[p] EXCEPT !.at = "asking", !.since = time,
                                    !.results = [m \in Providers |-> "asked"]])
    /\ UNCHANGED <<time, cached, expires, generated, attempts, good, askable>>
    /\ LineUnchanged
Locked(p) ==
    /\ pollers[p].at = "waiting" /\ refresher = NoRefresher
    /\ IF StillFresh THEN Become(p, NoPoll) /\ refresher' = refresher
       ELSE /\ refresher' = p
            /\ Become(p, [pollers[p] EXCEPT
                            !.at = "asking", !.since = time,
                            !.results = [m \in Providers |-> IF Due(m) THEN "asked" ELSE "kept"]])
    /\ UNCHANGED <<time, cached, expires, generated, attempts, good, askable>>
    /\ LineUnchanged

\* refresh_module: a status, a module without a credential, an error that is
\* worth another try, or one that is not.
Outcomes == {"ok", "unconfigured", "retry", "refused"}
ProviderAnswers(p, m, outcome) ==
    /\ pollers[p].at = "asking" /\ pollers[p].results[m] = "asked"
    /\ Become(p, [pollers[p] EXCEPT !.results[m] = outcome])
    /\ UNCHANGED <<time, cached, expires, generated, attempts, refresher, good, askable>>
    /\ LineUnchanged

\* retry_delay_seconds
RetryDelay(attempt) ==
    LET base == Greater(Interval, MinRetry)
    IN Lesser(base * 2 ^ Lesser(attempt, 6), Greater(MaxRetry, base))

Retryable(result) == result \in {"retry", "asked"}     \* asked: refresh_deadline
Delay(m, result)  == IF Retryable(result) THEN RetryDelay(attempts[m]) ELSE Interval

\* failure_module: what was shown is shown on, as stale.
ForgetfulFailed(old, result, next) ==       \* takes a stale status for a new one
    [state |-> IF old.state = "ok" THEN "warn" ELSE "error",
     updated |-> IF old.state = "ok" THEN old.updated ELSE Never,
     next |-> next, stale |-> old.state = "ok", retryable |-> Retryable(result)]
Failed(old, result, next) ==
    LET shown == old.updated # Never /\ old.state \in {"ok", "warn"}
    IN [state |-> IF shown THEN "warn" ELSE "error",
        updated |-> IF shown THEN old.updated ELSE Never,
        next |-> next, stale |-> shown, retryable |-> Retryable(result)]

Refreshed(m, result) ==
    CASE result = "kept" -> cached[m]
      [] result \in {"ok", "unconfigured"} ->
            [state |-> result, updated |-> time, next |-> time + Interval,
             stale |-> FALSE, retryable |-> FALSE]
      [] OTHER -> Failed(cached[m], result, time + Delay(m, result))

\* All have answered, or the deadline has passed.
Refreshes(p) ==
    LET results == pollers[p].results
        modules == [m \in Providers |-> Refreshed(m, results[m])]
    IN /\ pollers[p].at = "asking"
       /\ \/ \A m \in Providers : results[m] # "asked"
          \/ time > pollers[p].since
       /\ cached' = modules
       /\ expires' = Min({Greater(modules[m].next, time + 1) : m \in Providers})
       /\ attempts' = [m \in Providers |->
                         IF results[m] = "kept" THEN attempts[m]
                         ELSE IF modules[m].retryable THEN Lesser(attempts[m] + 1, 6) ELSE 0]
       /\ generated' = time
       /\ Become(p, NoPoll) /\ refresher' = NoRefresher
       /\ good' = [m \in Providers |-> CASE results[m] = "ok" -> time
                                         [] results[m] = "unconfigured" -> Never
                                         [] OTHER -> good[m]]
       /\ askable' = [m \in Providers |-> IF results[m] = "kept" THEN askable[m]
                                          ELSE time + Delay(m, results[m])]
       /\ UNCHANGED time
       /\ LineUnchanged

\* The browser hangs up: the future of its request is dropped, and the lock.
HangsUp(p) ==
    /\ pollers[p].at \in {"waiting", "asking"}
    /\ refresher' = IF refresher = p THEN NoRefresher ELSE refresher
    /\ Become(p, NoPoll)
    /\ UNCHANGED <<time, cached, expires, generated, attempts, good, askable>>
    /\ LineUnchanged

SecondPasses == /\ time < MaxTime /\ time' = time + 1
                /\ UNCHANGED <<cached, expires, generated, attempts, refresher, pollers, good,
                               askable>>
                /\ LineUnchanged

-----------------------------------------------------------------------------
(* StatusSettingsStore: update reads the settings, writes the file, and then  *)
(* replaces the settings, under no lock of its own.                        *)

StatusSame == UNCHANGED <<time, cached, expires, generated, attempts, refresher, pollers,
                          good, askable>>
Alone(p) == \A q \in Pollers \ {p} : lineUpdates[q].at = "idle"

ReadsLine(p, field) ==
    /\ lineUpdates[p].at = "idle"
    /\ lineUpdates' = [q \in Pollers |->
          IF q = p THEN [at |-> "read", field |-> field, state |-> [line EXCEPT ![field] = ~@],
                         alone |-> Alone(p)]
          ELSE [lineUpdates[q] EXCEPT !.alone = FALSE]]
    /\ UNCHANGED <<line, lineFile>> /\ StatusSame
\* persist: fails before the file is replaced, or after, at the directory's sync.
WritesLine(p) ==
    /\ lineUpdates[p].at = "read"
    /\ \E replaced \in BOOLEAN, synced \in BOOLEAN :
          /\ lineFile' = IF replaced THEN lineUpdates[p].state ELSE lineFile
          /\ lineUpdates' = [lineUpdates EXCEPT ![p] =
                IF replaced /\ synced THEN [@ EXCEPT !.at = "written"] ELSE NoUpdate]
    /\ UNCHANGED line /\ StatusSame
ReplacesLine(p) ==
    /\ lineUpdates[p].at = "written"
    /\ line' = lineUpdates[p].state
    /\ lineUpdates' = [lineUpdates EXCEPT ![p] = NoUpdate]
    /\ UNCHANGED lineFile /\ StatusSame

StatusNext ==
    \/ \E p \in Pollers :
          \/ Poll(p) \/ Locked(p) \/ Refreshes(p) \/ HangsUp(p)
          \/ \E m \in Providers, outcome \in Outcomes : ProviderAnswers(p, m, outcome)
    \/ SecondPasses

LineNext == \E p \in Pollers : \/ \E field \in {"enabled", "mobile"} : ReadsLine(p, field)
                               \/ WritesLine(p) \/ ReplacesLine(p)

StatusSpec == StatusInit /\ [][StatusNext]_statusVars

-----------------------------------------------------------------------------
\* What is shown is what the provider last said of itself, as old as it says:
\* failures keep it, mark it stale, and hide nothing but what never was.
ShownTrue ==
    \A m \in Providers :
        LET module == cached[m]
        IN module.state # "none" =>
              /\ module.state \in {"ok", "warn"} => module.updated = good[m]
              /\ module.state = "error" => good[m] = Never
              /\ module.stale <=> module.state = "warn"

\* A provider is not asked again before the delay of its last answer is over,
\* which doubles with every failure up to its limit.
NotAskedEarly ==
    \A p \in Pollers, m \in Providers :
        pollers[p].at = "asking" /\ pollers[p].results[m] # "kept" =>
            pollers[p].since >= askable[m]
OneAsks == Cardinality({p \in Pollers : pollers[p].at = "asking"}) <= 1

\* The cache answers with no module that is overdue, but in the second it was
\* filled, for one that came due while the others were asked.
NothingOverdue ==
    StillFresh => \A m \in Providers : time < cached[m].next \/ time = generated

\* A change of the settings that no other overlapped is in force and on disk.
LineKept ==
    [][\A p \in Pollers : ReplacesLine(p) /\ lineUpdates[p].alone => lineFile = line']_statusVars

StatusSound == ShownTrue /\ NotAskedEarly /\ OneAsks /\ NothingOverdue
StatusStaysSound == [][StatusSound']_statusVars /\ LineKept
-----------------------------------------------------------------------------
(***************************************************************************)
(* What refresh_module does for one module: its credential is looked up,   *)
(* the provider asked with it, and the answer's usage windows reduced to   *)
(* one observation.  In auto mode the credential is looked for at every    *)
(* refresh, in files that the agents' own logins rewrite.  A secret is its *)
(* kind and the account it belongs to; percentages are whole.              *)
(***************************************************************************)

CONSTANTS MaxRows,        \* MAX_DETAIL_ROWS
          MaxLogins       \* bound: logins of agents

VARIABLES module, environment, stores, today, request, reply, observed, logins
providerVars == <<module, environment, stores, today, request, reply, observed, logins>>

NoSecret == [kind |-> "none", owner |-> 0]
Secret(kind, owner) == [kind |-> kind, owner |-> owner]
NoEntry == [key |-> NoSecret, token |-> NoSecret, until |-> 0, account |-> 0]
NoRequest == [secret |-> NoSecret, account |-> 0]
NoReply == [status |-> "none", rows |-> <<>>, pair |-> <<>>]
Unobserved == [state |-> "none", worst |-> 0]

OpenAI == {"codex", "openai"}
Places == {"own", "pi", "omp"}
Modules == [family : {"claude", "zai", "other"} \cup OpenAI, admin : BOOLEAN, project : BOOLEAN,
          workspace : BOOLEAN, variable : {"", "key", "token", "admin"}, auto : BOOLEAN]
\* The variables of a module without credential_env, in their order; the others of
\* a family are like the first two.
Candidates(m) ==
    CASE m.variable # ""                                  -> <<m.variable>>
      [] m.admin                                          -> <<"admin">>
      [] m.family = "claude"                              -> <<"token", "key">>
      [] m.family \in OpenAI                              -> <<"key", "token">>
      [] m.family = "zai"                                 -> <<"key">>
      [] OTHER                                            -> <<>>
\* allowed_credential_environment
Allowable(m) == Range(Candidates([m EXCEPT !.variable = ""]))
\* validate, for one module; auto_with_environment makes its own.
Configurable(m) ==
    IF m.auto THEN /\ m.family \in {"claude", "codex", "zai"} /\ m.variable = ""
                   /\ ~m.admin /\ ~m.project /\ ~m.workspace
    ELSE /\ m.admin => m.family \in {"claude", "openai"}
         /\ m.project => m.admin /\ m.family = "openai"
         /\ m.workspace => m.admin /\ m.family = "claude"
         /\ m.variable # "" => m.variable \in Allowable(m)

Expired(entry) == entry.until # 0 /\ entry.until <= today
Found(secret, account) == [secret |-> secret, account |-> account]

\* claude_credentials_file, codex_auth_file
OwnFile(m) ==
    LET file == stores["own"] IN
    CASE m.family = "claude" -> IF Expired(file) THEN NoRequest ELSE Found(file.token, 0)
      [] m.family \in OpenAI -> IF file.key # NoSecret THEN Found(file.key, 0)
                                ELSE Found(file.token, file.account)
      [] OTHER               -> NoRequest
\* agent_store_entry_secret
StoreSecret(entry) == IF entry.key # NoSecret \/ Expired(entry) THEN Found(entry.key, 0)
                      ELSE Found(entry.token, 0)
\* agent_store_credential: pi's store before Oh My Pi's.
FirstOf(found) == LET some == {i \in DOMAIN found : found[i].secret # NoSecret}
                  IN IF some = {} THEN NoRequest ELSE found[Min(some)]
FromEnvironment(m) ==
    LET names == Candidates(m)
    IN FirstOf([i \in DOMAIN names |-> Found(environment[names[i]], 0)])
\* Mutant: the account in the file goes with whatever secret was found.
AnyAccount(m) == [FirstOf(<<FromEnvironment(m), OwnFile(m), StoreSecret(stores["pi"]),
                            StoreSecret(stores["omp"])>>)
                    EXCEPT !.account = IF m.auto THEN stores["own"].account ELSE 0]
Resolve(m) ==
    IF ~m.auto THEN FromEnvironment(m)
    ELSE FirstOf(<<FromEnvironment(m), OwnFile(m), StoreSecret(stores["pi"]),
                   StoreSecret(stores["omp"])>>)

\* Subscription windows are published to logins only, not to API keys.
NeedsLogin(m) == ~m.admin /\ m.family \in {"claude"} \cup OpenAI
\* Without asking: no such provider, no credential, nothing to ask with this one.
Unasked(m, found) ==
    CASE m.family = "other" -> "error"
      [] m.family # "other" /\ found = NoRequest -> "unconfigured"
      [] /\ m.family # "other" /\ found # NoRequest
         /\ \/ NeedsLogin(m) /\ found.secret.kind # "token"
            \/ m.admin /\ m.family = "openai" /\ ~m.project -> "warn"
      [] OTHER -> "none"
Asks ==
    LET found == Resolve(module)
        state == Unasked(module, found) IN
    /\ request = NoRequest /\ reply' = NoReply
    /\ IF state # "none" THEN observed' = [Unobserved EXCEPT !.state = state] /\ UNCHANGED request
       ELSE /\ \E claimed \in BOOLEAN :     \* chatgpt_account_id_from_jwt
                 request' = IF claimed /\ module.family \in OpenAI /\ ~module.admin
                                 /\ found.account = 0
                            THEN [found EXCEPT !.account = found.secret.owner] ELSE found
            /\ UNCHANGED observed
    /\ UNCHANGED <<module, environment, stores, today, logins>>

\* get_json: what is no answer, told apart by whether another try is worth it.
Failures == {"retry", "refused"}
Illegible == 1000
Legible(cells) == {cells[i] : i \in DOMAIN cells} \ {Illegible}
FirstRows(rows) == SubSeq(rows, 1, Lesser(Len(rows), MaxRows))
\* parse_claude_usage takes the pair only for want of rows, parse_codex_usage both,
\* parse_zai_quota and the limits of administrators rows alone.
Windows(m, answer) ==
    LET rows == Legible(FirstRows(answer.rows)) IN
    CASE m.family = "claude" /\ ~m.admin -> IF rows = {} THEN Legible(answer.pair) ELSE rows
      [] m.family \in OpenAI /\ ~m.admin -> Legible(answer.pair) \cup rows
      [] OTHER                           -> rows

\* observation_from_windows
\* Mutant: the first window stands for all.
MildestWindow(windows) == Min(windows)
WorstWindow(windows) == Max(windows)
Observation(m, answer) ==
    LET windows == Windows(m, answer) IN
    CASE answer.status # "ok" \/ (windows = {} /\ ~m.workspace) -> [state |-> "error", worst |-> 0]
      [] m.admin -> [state |-> "ok", worst |-> 0]
      [] OTHER   -> [state |-> IF WorstWindow(windows) >= 90 THEN "warn" ELSE "ok",
                     worst |-> WorstWindow(windows)]
Cells == {89, 90, Illegible}
Rows == UNION {[1..n -> Cells] : n \in 0..(MaxRows + 1)}
Pairs == {<<90, 89>>, <<89, Illegible>>, <<Illegible, Illegible>>}
Answers ==
    /\ request # NoRequest /\ request' = NoRequest
    /\ reply' \in {[NoReply EXCEPT !.status = f] : f \in Failures}
                  \cup [status : {"ok"}, rows : Rows, pair : Pairs]
    /\ observed' = Observation(module, reply')
    /\ UNCHANGED <<module, environment, stores, today, logins>>

\* An agent logs in, renews its login or logs out.
Tokens == {NoSecret, Secret("token", 2), Secret("token", 3)}
Entries(place) ==
    {entry \in [key : {NoSecret, Secret("key", 2)}, token : Tokens, until : 0..1, account : 0..3] :
        /\ entry.account \in {0, entry.token.owner}
        /\ entry.token = NoSecret => entry.until = 0
        /\ IF place = "own" /\ module.family \in OpenAI THEN entry.until = 0
           ELSE entry.account = 0 /\ (place = "own" => entry.key = NoSecret)
        /\ place = "own" /\ module.family = "zai" => entry.token = NoSecret}
LogsIn(place) ==
    /\ module.auto
    /\ logins < MaxLogins /\ logins' = logins + 1
    /\ \E entry \in Entries(place) : stores' = [stores EXCEPT ![place] = entry]
    /\ UNCHANGED <<module, environment, today, request, reply, observed>>
TokensAge == /\ today = 0 /\ today' = 1
             /\ UNCHANGED <<module, environment, stores, request, reply, observed, logins>>

ProviderInit ==
    /\ module \in {m \in Modules : Configurable(m)}
    /\ environment \in [{"key", "token", "admin"} ->
                          {NoSecret, Secret("key", 1), Secret("token", 1)}]
    /\ environment["key"].kind # "token" /\ environment["admin"].kind # "token"
    /\ \A v \in DOMAIN environment \ Range(Candidates(module)) : environment[v] = NoSecret
    /\ \E own \in {NoEntry} \cup {e \in Entries("own") : e.until + e.account > 0 /\ module.auto} :
          stores = [place \in Places |-> IF place = "own" THEN own ELSE NoEntry]
    /\ today = 0 /\ logins = 0
    /\ request = NoRequest /\ reply = NoReply /\ observed = Unobserved
ProviderNext == \/ Asks \/ Answers \/ TokensAge
                \/ \E place \in Places : LogsIn(place)

\* A provider is asked with the account that its secret belongs to, whatever logs
\* in meanwhile, and an API key never where only logins are answered.
SecretFits ==
    request # NoRequest =>
        /\ request.account \in {0, request.secret.owner}
        /\ NeedsLogin(module) => request.secret.kind = "token"
\* A module is hidden for want of a credential only while none is live anywhere;
\* one that is asked is asked with a live one.
Live(place) == ({stores[place].key} \cup IF Expired(stores[place]) THEN {}
                                         ELSE {stores[place].token}) \ {NoSecret}
AllLive == (UNION {Live(place) : place \in Places})
             \cup ({environment[v] : v \in Range(Candidates(module))} \ {NoSecret})
CredentialsLive ==
    [][Asks => IF request' # NoRequest THEN request'.secret \in AllLive
               ELSE observed'.state = "unconfigured" => AllLive = {}]_providerVars
\* No window that is read is worse than the one shown, which the answer contains;
\* an answer without a window is not shown as usage, and no failure is.
UsageTrue ==
    reply # NoReply =>
        LET said == Legible(reply.pair) \cup Legible(reply.rows) IN
        /\ (reply.status # "ok" \/ said = {}) /\ ~module.workspace => observed.state = "error"
        /\ observed.worst # 0 =>
              /\ observed.worst \in said
              /\ \A w \in Legible(FirstRows(reply.rows)) : w <= observed.worst
              /\ observed.state = "warn" <=> observed.worst >= 90
ProvidersSound == [](SecretFits /\ UsageTrue) /\ CredentialsLive
=============================================================================
