--------------------------------- MODULE Auth ---------------------------------
(***************************************************************************)
(* The password and the secret that signs sessions (auth.rs, and the login *)
(* and change_password handlers of api.rs).  Credentials are a password's  *)
(* hash and a secret; a secret is a number, drawn fresh for every new      *)
(* credentials file.  A session is valid while the secret it was signed    *)
(* with is the one in memory (its own expiry is left out).  The file is    *)
(* written to a temporary file and renamed, so it is old or new.  A handler*)
(* whose client hangs up is dropped at an await; a rename it had under way *)
(* is over before the next change has hashed its two passwords.            *)
(***************************************************************************)
EXTENDS Naturals, FiniteSets, Functions

CONSTANTS Passwords,
          Changes,      \* change_password calls
          Logins,       \* login calls
          MaxSecrets,   \* bound: secrets drawn
          Nothing

ASSUME AuthAssumption ==
    /\ MaxSecrets \in Nat
    /\ Nothing \notin Changes \cup Passwords
    /\ Nothing \notin [hash : Passwords, secret : 1..MaxSecrets]

VARIABLES
    file,       \* credentials.json, or Nothing
    mem,        \* the credentials in memory, Nothing while the server is down
    managed,    \* the password was supplied from outside
    lock,       \* change_lock: the change that holds it
    change,     \* change -> where it is
    login,      \* login -> where it is
    cookies,    \* secrets some browser holds a session of
    drawn,      \* secrets drawn so far
    retired,    \* history: secrets of sessions a running server has refused
    unanswered  \* history: the last change that reached the file, unanswered

authVars == <<file, mem, managed, lock, change, login, cookies, drawn, retired,
              unanswered>>

NoChange == [at |-> "idle"]
Running == mem # Nothing
NewCredentials(p) == [hash |-> p, secret |-> drawn + 1]
Draw == drawn < MaxSecrets /\ drawn' = drawn + 1

(***************************************************************************)
(* load_auth: without a file one is written, for the supplied password or  *)
(* a generated one; a supplied password replaces the hash, in memory only. *)
(***************************************************************************)
Started(c, supplied) ==
    /\ managed' = (supplied # Nothing)
    /\ mem' = IF supplied = Nothing THEN c ELSE [c EXCEPT !.hash = supplied]
    /\ retired' = retired \cup (cookies \ {c.secret})
Load(supplied) ==
    /\ ~Running
    /\ \/ /\ file # Nothing /\ Started(file, supplied)
          /\ UNCHANGED <<file, drawn>>
       \/ /\ file = Nothing /\ Draw
          /\ \E p \in Passwords :
               /\ supplied # Nothing => p = supplied
               /\ file' = NewCredentials(p)
               /\ Started(NewCredentials(p), supplied)
    /\ UNCHANGED <<lock, change, login, cookies, unanswered>>

(***************************************************************************)
(* change_password.                                                        *)
(***************************************************************************)
At(c, r) == change' = [change EXCEPT ![c] = r]
Begin(c) ==
    /\ Running /\ ~managed /\ change[c].at = "idle"
    /\ \E current, new \in Passwords :
         At(c, [at |-> "locking", current |-> current, new |-> new])
    /\ UNCHANGED <<file, mem, managed, lock, login, cookies, drawn, retired,
                   unanswered>>

\* Mutant: changes are not made one at a time.
FaultyAcquire(c) ==
    /\ Running /\ change[c].at = "locking" /\ lock' = c
    /\ At(c, [change[c] EXCEPT !.at = "verifying"])
    /\ UNCHANGED <<file, mem, managed, login, cookies, drawn, retired,
                   unanswered>>
Acquire(c) ==
    /\ Running /\ change[c].at = "locking" /\ lock = Nothing /\ lock' = c
    /\ At(c, [change[c] EXCEPT !.at = "verifying"])
    /\ UNCHANGED <<file, mem, managed, login, cookies, drawn, retired,
                   unanswered>>
Verify(c) ==
    /\ change[c].at = "verifying"
    /\ IF change[c].current = mem.hash
       THEN At(c, [change[c] EXCEPT !.at = "hashed"]) /\ UNCHANGED lock
       ELSE At(c, NoChange) /\ lock' = Nothing
    /\ UNCHANGED <<file, mem, managed, login, cookies, drawn, retired,
                   unanswered>>

Written(c) == [hash |-> change[c].new, secret |-> change[c].secret]
Write(c) ==
    /\ change[c].at = "hashed"
    /\ \/ /\ Draw /\ file' = NewCredentials(change[c].new)
          /\ unanswered' = NewCredentials(change[c].new)
          /\ At(c, [at |-> "written", current |-> change[c].current,
                    new |-> change[c].new, secret |-> drawn + 1])
          /\ UNCHANGED lock
       \/ /\ At(c, NoChange) /\ lock' = Nothing     \* the write failed
          /\ UNCHANGED <<file, drawn, unanswered>>
    /\ UNCHANGED <<mem, managed, login, cookies, retired>>
Replace(c) ==
    /\ change[c].at = "written"
    /\ mem' = Written(c) /\ lock' = Nothing
    /\ retired' = retired \cup {mem.secret}
    /\ unanswered' = Nothing
    /\ At(c, [at |-> "changed"])
    /\ UNCHANGED <<file, managed, login, cookies, drawn>>
\* The handler answers with a session of its own.
Answer(c) ==
    /\ change[c].at = "changed"
    /\ cookies' = cookies \cup {mem.secret} /\ At(c, NoChange)
    /\ UNCHANGED <<file, mem, managed, lock, login, drawn, retired, unanswered>>

\* The client hangs up.
Cancel(c) ==
    /\ change[c].at # "idle" /\ At(c, NoChange)
    /\ lock' = IF lock = c THEN Nothing ELSE lock
    /\ UNCHANGED <<file, mem, managed, login, cookies, drawn, retired,
                   unanswered>>

(***************************************************************************)
(* login: the hash is read, verified without any lock, a session signed.   *)
(***************************************************************************)
Try(l) ==
    /\ Running /\ login[l].at = "idle"
    /\ \E p \in Passwords : login' = [login EXCEPT ![l] =
           IF p = mem.hash THEN [at |-> "verified"] ELSE NoChange]
    /\ UNCHANGED <<file, mem, managed, lock, change, cookies, drawn, retired,
                   unanswered>>
Sign(l) ==
    /\ Running /\ login[l].at = "verified"
    /\ cookies' = cookies \cup {mem.secret}
    /\ login' = [login EXCEPT ![l] = NoChange]
    /\ UNCHANGED <<file, mem, managed, lock, change, drawn, retired,
                   unanswered>>

Crash ==
    /\ Running /\ mem' = Nothing /\ lock' = Nothing
    /\ change' = [c \in Changes |-> NoChange]
    /\ login' = [l \in Logins |-> NoChange]
    /\ UNCHANGED <<file, managed, cookies, drawn, retired, unanswered>>

AuthInit ==
    /\ file = Nothing /\ mem = Nothing /\ managed = FALSE /\ lock = Nothing
    /\ change = [c \in Changes |-> NoChange]
    /\ login = [l \in Logins |-> NoChange]
    /\ cookies = {} /\ drawn = 0 /\ retired = {} /\ unanswered = Nothing

AuthNext ==
    \/ Crash
    \/ \E supplied \in Passwords \cup {Nothing} : Load(supplied)
    \/ \E c \in Changes : Begin(c) \/ Acquire(c) \/ Verify(c) \/ Write(c)
                              \/ Replace(c) \/ Answer(c) \/ Cancel(c)
    \/ \E l \in Logins : Try(l) \/ Sign(l)

AuthSpec == AuthInit /\ [][AuthNext]_authVars

Credentials == [hash : Passwords, secret : 1..MaxSecrets]
AuthTypeOK ==
    /\ {file, mem, unanswered} \subseteq Credentials \cup {Nothing}
    /\ Running => file # Nothing
    /\ lock # Nothing => change[lock].at \in {"verifying", "hashed", "written"}
    /\ cookies \cup retired \subseteq 1..drawn

\* A session a server has once refused stays refused, over further changes,
\* changes that fail or are cut off half way, crashes and restarts: the old
\* secret never comes back (change_password writes the file before the memory).
RefusedForGood == Running => mem.secret \notin retired

\* What a restart brings back is what the running server accepts, unless the
\* last change was never answered: an answered change is never undone.
FileMatchesMemory ==
    Running /\ ~managed => \/ file = mem
                           \/ file = unanswered

\* Only somebody who gave the password in force changes it: of two changes made
\* from the same password one is refused (the hash is read under change_lock).
ChangesChain ==
    [][\A c \in Changes : change[c].at = "written" /\ change'[c].at = "changed"
                               => change[c].current = mem.hash]_authVars

AuthSound == [](RefusedForGood /\ FileMatchesMemory) /\ ChangesChain

-----------------------------------------------------------------------------
(***************************************************************************)
(* The limit on login attempts per client address (LoginLimiter in auth.rs,*)
(* the login handler of api.rs).  A window is kept as what is left of it;  *)
(* the clock ticks in units of Window's span.  Every call holds the map's  *)
(* lock for its whole length, so it is one step.                           *)
(***************************************************************************)

CONSTANTS Clients,
          Allowed,      \* attempts a window admits (8)
          Widest,       \* what the attempt counter can hold (u8::MAX)
          Window,       \* LOGIN_WINDOW_SECONDS, in ticks
          MaxTracked    \* MAX_TRACKED_CLIENTS

ASSUME LimiterAssumption ==
    /\ Allowed \in Nat \ {0} /\ Widest \in Nat /\ Widest > Allowed
    /\ Window \in Nat \ {0} /\ MaxTracked \in Nat \ {0}

VARIABLES
    windows,   \* client -> its attempts and what is left of its window
    recent,    \* history: client -> attempts admitted per tick of the last Window
    wait       \* history: client -> what is left of the wait it was told, where
               \* it has been refused and has not tried again

limiterVars == <<windows, recent, wait>>

Forgotten == [age \in 0..(Window - 1) |-> 0]
Open == {c \in DOMAIN windows : windows[c].left > 0}

\* Mutant: the counter wraps around.
FaultyCounted(n) == (n + 1) % (Widest + 1)
Counted(n) == IF n = Widest THEN n ELSE n + 1

\* The client whose window ends soonest makes room for one not tracked yet.
Evicted(c) ==
    IF Cardinality(Open) < MaxTracked \/ c \in Open THEN {{}}
    ELSE {{e} : e \in {d \in Open :
                         \A x \in Open : windows[d].left <= windows[x].left}}

(***************************************************************************)
(* consume: elapsed windows go, one may be evicted, the attempt counts     *)
(* whether it is admitted or not.                                          *)
(***************************************************************************)
Consume(c) ==
    \E evicted \in Evicted(c) :
        LET kept == Restrict(windows, Open \ evicted)
            before == IF c \in Open THEN windows[c]
                                    ELSE [attempts |-> 0, left |-> Window]
            after == [before EXCEPT !.attempts = Counted(@)]
            admitted == after.attempts <= Allowed IN
        /\ windows' = [x \in DOMAIN kept \cup {c} |->
                          IF x = c THEN after ELSE kept[x]]
        /\ recent' = [x \in Clients |->
                         IF x \in evicted THEN Forgotten
                         ELSE IF x = c /\ admitted
                              THEN [recent[x] EXCEPT ![0] = @ + 1] ELSE recent[x]]
        /\ wait' = IF admitted THEN Restrict(wait, DOMAIN wait \ {c})
                   ELSE [x \in DOMAIN wait \cup {c} |->
                            IF x # c THEN wait[x]
                            ELSE IF after.left > 1 THEN after.left ELSE 1]

\* reset, after a login that succeeded.
Reset(c) ==
    /\ c \in DOMAIN windows
    /\ windows' = Restrict(windows, DOMAIN windows \ {c})
    /\ recent' = [recent EXCEPT ![c] = Forgotten]
    /\ wait' = Restrict(wait, DOMAIN wait \ {c})

Tick ==
    /\ windows' = [c \in DOMAIN windows |->
                      [windows[c] EXCEPT !.left = IF @ > 0 THEN @ - 1 ELSE 0]]
    /\ recent' = [c \in Clients |-> [age \in 0..(Window - 1) |->
                                        IF age = 0 THEN 0 ELSE recent[c][age - 1]]]
    /\ wait' = [c \in DOMAIN wait |-> IF wait[c] > 0 THEN wait[c] - 1 ELSE 0]

LimiterInit == /\ windows = <<>> /\ wait = <<>>
               /\ recent = [c \in Clients |-> Forgotten]
LimiterNext == Tick \/ \E c \in Clients : Consume(c) \/ Reset(c)
LimiterSpec == LimiterInit /\ [][LimiterNext]_limiterVars

LimiterTypeOK ==
    /\ DOMAIN windows \subseteq Clients /\ DOMAIN wait \subseteq Clients
    /\ \A c \in DOMAIN windows : /\ windows[c].attempts \in 0..Widest
                                 /\ windows[c].left \in 0..Window

\* However its attempts fall over the ends of its windows, and however many it
\* makes after it was refused, a client is admitted fewer than twice Allowed
\* times in any stretch of one window's length, unless it logged in or was
\* evicted (consume).
AttemptsBounded == \A c \in Clients : SumFunction(recent[c]) < 2 * Allowed

\* No more than MaxTracked clients are remembered (consume).
TableBounded == Cardinality(DOMAIN windows) <= MaxTracked

\* A client that was refused, and waits as long as it was told, is admitted.
WaitIsEnough ==
    [][\A c \in DOMAIN wait \cap DOMAIN wait' :
          wait[c] = 0 => wait'[c] = 0]_limiterVars

LoginsLimited == [](AttemptsBounded /\ TableBounded) /\ WaitIsEnough
=============================================================================
