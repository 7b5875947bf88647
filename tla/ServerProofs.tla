----------------------------- MODULE ServerProofs -----------------------------
(***************************************************************************)
(* Proofs about the parts of the server process outside the terminals: the *)
(* password and its sessions (Auth), what a user has seen (ActivityViews), *)
(* the pool of session brokers (BrokerPool), the limit on login attempts   *)
(* (Auth), the saved settings of agents' terminals and the tabs agents     *)
(* close in browsers (TerminalControl).  The parts share no state; each    *)
(* has an inductive invariant of its own.                                  *)
(***************************************************************************)
EXTENDS Auth, ActivityViews, BrokerPool, TerminalControl, TLAPS

(***************************************************************************)
(* Passwords. The secret of a session is refused for good because secrets  *)
(* are only drawn upwards and a written change keeps the one in the file,  *)
(* which memory takes over, apart from the one in memory, which it gives   *)
(* up.                                                                     *)
(***************************************************************************)

ChangeState ==
    [at : {"idle", "changed"}]
    \cup [at : {"locking", "verifying", "hashed"},
          current : Passwords, new : Passwords]
    \cup [at : {"written"}, current : Passwords, new : Passwords,
          secret : 1..MaxSecrets]

AuthTypes ==
    /\ file \in Credentials \cup {Nothing}
    /\ mem \in Credentials \cup {Nothing}
    /\ unanswered \in Credentials \cup {Nothing}
    /\ managed \in BOOLEAN
    /\ lock \in Changes \cup {Nothing}
    /\ change \in [Changes -> ChangeState]
    /\ drawn \in 0..MaxSecrets
    /\ cookies \subseteq 1..drawn
    /\ retired \subseteq 1..drawn

\* The holder of the lock, and nobody else, is between reading the hash and
\* replacing the credentials in memory; a server that is down has no calls.
OneChanges ==
    /\ \A c \in Changes :
          lock = c <=> change[c].at \in {"verifying", "hashed", "written"}
    /\ ~Running => \A c \in Changes : change[c].at = "idle"
    /\ Running => file # Nothing

\* Secrets are drawn in order, and neither the file's nor the memory's has been
\* refused.
SecretsLive ==
    \A c \in {file, mem} \ {Nothing} : c.secret \in (1..drawn) \ retired

\* A change that was verified still replaces the password it was given; one that
\* was written is in the file, under a secret memory does not have.
ChangesFit ==
    \A c \in Changes :
        /\ change[c].at \in {"hashed", "written"} =>
              change[c].current = mem.hash
        /\ change[c].at = "written" =>
              /\ file = Written(c) /\ file.secret # mem.secret

AuthInv == AuthTypes /\ OneChanges /\ SecretsLive /\ ChangesFit
           /\ FileMatchesMemory

\* The fields of a call of change_password in each of its states.
LEMMA ChangeShapes ==
  /\ NoChange \in ChangeState /\ NoChange.at = "idle"
  /\ [at |-> "changed"] \in ChangeState
  /\ \A r \in ChangeState :
        /\ r.at \in {"idle", "changed", "locking", "verifying", "hashed",
                     "written"}
        /\ r.at \in {"locking", "verifying", "hashed", "written"} =>
              r.current \in Passwords /\ r.new \in Passwords
        /\ r.at = "written" => r.secret \in 1..MaxSecrets
  /\ \A p, q \in Passwords, a \in {"locking", "verifying", "hashed"} :
        [at |-> a, current |-> p, new |-> q] \in ChangeState
  /\ \A p, q \in Passwords, n \in 1..MaxSecrets :
        [at |-> "written", current |-> p, new |-> q, secret |-> n]
           \in ChangeState
  /\ \A r \in ChangeState, a \in {"locking", "verifying", "hashed"} :
        r.at \in {"locking", "verifying", "hashed"} =>
           /\ [r EXCEPT !.at = a] \in ChangeState
           /\ [r EXCEPT !.at = a].at = a
           /\ [r EXCEPT !.at = a].current = r.current
<1>1. /\ NoChange \in ChangeState /\ NoChange.at = "idle"
      /\ [at |-> "changed"] \in ChangeState
  BY DEF ChangeState, NoChange
<1>2. ASSUME NEW r \in ChangeState
      PROVE  /\ r.at \in {"idle", "changed", "locking", "verifying", "hashed",
                          "written"}
             /\ r.at \in {"locking", "verifying", "hashed", "written"} =>
                  r.current \in Passwords /\ r.new \in Passwords
             /\ r.at = "written" => r.secret \in 1..MaxSecrets
  BY DEF ChangeState
<1>3. \A p, q \in Passwords, a \in {"locking", "verifying", "hashed"} :
        [at |-> a, current |-> p, new |-> q] \in ChangeState
  BY DEF ChangeState
<1>4. \A p, q \in Passwords, n \in 1..MaxSecrets :
        [at |-> "written", current |-> p, new |-> q, secret |-> n]
           \in ChangeState
  BY DEF ChangeState
<1>5. ASSUME NEW r \in ChangeState,
             NEW a \in {"locking", "verifying", "hashed"},
             r.at \in {"locking", "verifying", "hashed"}
      PROVE  /\ [r EXCEPT !.at = a] \in ChangeState
             /\ [r EXCEPT !.at = a].at = a
             /\ [r EXCEPT !.at = a].current = r.current
  <2>1. r \in [at : {"locking", "verifying", "hashed"},
               current : Passwords, new : Passwords]
    BY <1>5 DEF ChangeState
  <2>2. QED BY <2>1 DEF ChangeState
<1>6. QED BY <1>1, <1>2, <1>3, <1>4, <1>5

LEMMA AuthStarts == AuthInit => AuthInv
<1>1. SUFFICES ASSUME AuthInit PROVE AuthInv
  OBVIOUS
<1>2. AuthTypes
  <2>1. NoChange \in ChangeState /\ 0 \in 0..MaxSecrets
    BY ChangeShapes, AuthAssumption
  <2>2. QED BY <1>1, <2>1 DEF AuthInit, AuthTypes
<1>3. OneChanges /\ ChangesFit
  BY <1>1, ChangeShapes, AuthAssumption
  DEF AuthInit, OneChanges, ChangesFit, Running
<1>4. SecretsLive /\ FileMatchesMemory
  BY <1>1 DEF AuthInit, SecretsLive, FileMatchesMemory, Running
<1>5. QED BY <1>2, <1>3, <1>4 DEF AuthInv

\* load_auth takes over the file's secret, or draws one.
LEMMA AuthLoad ==
  ASSUME AuthInv, NEW supplied \in Passwords \cup {Nothing}, Load(supplied)
  PROVE AuthInv'
<1>1. PICK c \in Credentials :
        /\ Started(c, supplied) /\ file' = c
        /\ drawn' \in drawn..MaxSecrets
        /\ c.secret \in 1..drawn' /\ c.secret \notin retired
  <2>1. CASE /\ file # Nothing /\ Started(file, supplied)
             /\ UNCHANGED <<file, drawn>>
    BY <2>1 DEF AuthInv, AuthTypes, SecretsLive
  <2>2. CASE /\ file = Nothing /\ Draw
             /\ \E p \in Passwords :
                  /\ file' = NewCredentials(p)
                  /\ Started(NewCredentials(p), supplied)
    <3>1. PICK p \in Passwords : /\ file' = NewCredentials(p)
                                 /\ Started(NewCredentials(p), supplied)
      BY <2>2
    <3>2. /\ drawn + 1 \in 1..MaxSecrets
          /\ drawn' = drawn + 1
          /\ drawn + 1 \notin retired
      BY <2>2, AuthAssumption DEF Draw, AuthInv, AuthTypes
    <3>3. /\ NewCredentials(p) \in Credentials
          /\ NewCredentials(p).secret = drawn + 1
      BY <3>2 DEF NewCredentials, Credentials
    <3>4. QED BY <3>1, <3>2, <3>3, AuthAssumption DEF AuthInv, AuthTypes
  <2>3. QED BY <2>1, <2>2 DEF Load
<1>2. /\ mem' \in Credentials /\ mem'.secret = c.secret
      /\ managed' \in BOOLEAN /\ (~managed' => mem' = c)
      /\ retired' = retired \cup (cookies \ {c.secret})
      /\ c.hash \in Passwords
  BY <1>1, AuthAssumption DEF Started, Credentials
<1>3. /\ ~Running /\ UNCHANGED <<lock, change, login, cookies, unanswered>>
      /\ \A h \in Changes : change[h].at = "idle"
  BY DEF Load, AuthInv, OneChanges
<1>4. mem' # Nothing /\ file' # Nothing
  BY <1>1, <1>2, AuthAssumption DEF Credentials
<1>5. AuthTypes'
  BY <1>1, <1>2, <1>3 DEF AuthInv, AuthTypes
<1>6. OneChanges' /\ ChangesFit'
  BY <1>3, <1>4 DEF AuthInv, OneChanges, ChangesFit, Running
<1>7. SecretsLive' /\ FileMatchesMemory'
  BY <1>1, <1>2, <1>4 DEF SecretsLive, FileMatchesMemory
<1>8. QED BY <1>5, <1>6, <1>7 DEF AuthInv

\* Where a change holds change_lock.
Holding == {"verifying", "hashed", "written"}

\* A step of a call that leaves the credentials and their file alone.
LEMMA AuthMoves ==
  ASSUME AuthInv, NEW c \in Changes, NEW r \in ChangeState, At(c, r),
         UNCHANGED <<file, mem, managed, drawn, retired, unanswered>>,
         cookies' \subseteq 1..drawn,
         r.at # "idle" => Running,
         r.at = "hashed" => r.current = mem.hash,
         r.at # "written",
         IF r.at \in Holding THEN lock \in {c, Nothing} /\ lock' = c
         ELSE lock' = IF lock = c THEN Nothing ELSE lock
  PROVE AuthInv'
<1>1. /\ change' = [change EXCEPT ![c] = r]
      /\ change \in [Changes -> ChangeState]
      /\ lock \in Changes \cup {Nothing} /\ Nothing \notin Changes
  BY AuthAssumption DEF At, AuthInv, AuthTypes
<1>2. AuthTypes'
  BY <1>1 DEF AuthInv, AuthTypes
<1>3. \A h \in Changes : change'[h] = IF h = c THEN r ELSE change[h]
  BY <1>1
<1>4. OneChanges'
  BY <1>1, <1>3 DEF AuthInv, OneChanges, Running, Holding
<1>5. ChangesFit'
  BY <1>3 DEF AuthInv, ChangesFit, Written
<1>6. SecretsLive' /\ FileMatchesMemory'
  BY DEF AuthInv, SecretsLive, FileMatchesMemory, Running
<1>7. QED BY <1>2, <1>4, <1>5, <1>6 DEF AuthInv

LEMMA AuthWrites ==
  ASSUME AuthInv, NEW c \in Changes, Write(c)
  PROVE AuthInv'
<1>0. /\ change[c].at = "hashed" /\ lock = c
      /\ change \in [Changes -> ChangeState]
      /\ change[c] \in ChangeState
      /\ cookies \subseteq 1..drawn
      /\ Running /\ mem \in Credentials
      /\ change[c].current = mem.hash
  BY DEF Write, AuthInv, OneChanges, AuthTypes, ChangesFit, Running
<1>1. CASE /\ At(c, NoChange) /\ lock' = Nothing
           /\ UNCHANGED <<file, drawn, unanswered>>
  BY <1>0, <1>1, ChangeShapes, AuthMoves DEF Write, Holding
<1>2. CASE /\ Draw /\ file' = NewCredentials(change[c].new)
           /\ unanswered' = NewCredentials(change[c].new)
           /\ At(c, [at |-> "written", current |-> change[c].current,
                     new |-> change[c].new, secret |-> drawn + 1])
           /\ UNCHANGED lock
  <2> DEFINE r == [at |-> "written", current |-> change[c].current,
                   new |-> change[c].new, secret |-> drawn + 1]
  <2>1. /\ drawn \in Nat /\ drawn + 1 \in 1..MaxSecrets /\ drawn' = drawn + 1
        /\ change[c].current \in Passwords /\ change[c].new \in Passwords
    BY <1>0, <1>2, ChangeShapes, AuthAssumption DEF Draw, AuthInv, AuthTypes
  <2>2. /\ file' \in Credentials /\ file' = unanswered'
        /\ file'.secret = drawn + 1
        /\ file' = [hash |-> r.new, secret |-> r.secret]
    BY <1>2, <2>1 DEF NewCredentials, Credentials
  <2>3. /\ r \in ChangeState /\ r.at = "written" /\ r.current = mem.hash
    BY <1>0, <2>1, ChangeShapes
  <2>4. \A h \in Changes : change'[h] = IF h = c THEN r ELSE change[h]
    BY <1>0, <1>2 DEF At
  <2>5. UNCHANGED <<mem, managed, cookies, login, retired, lock>>
    BY <1>2 DEF Write
  <2>6. AuthTypes'
    BY <1>0, <1>2, <2>1, <2>2, <2>3, <2>5 DEF AuthInv, AuthTypes, At
  <2>7. OneChanges' /\ \A h \in Changes \ {c} : change'[h].at \notin Holding
    BY <1>0, <2>3, <2>4, <2>5, <2>2, AuthAssumption
    DEF AuthInv, OneChanges, Running, Holding, Credentials
  <2>8. SecretsLive' /\ FileMatchesMemory'
    BY <1>0, <2>1, <2>2, <2>5
    DEF AuthInv, AuthTypes, SecretsLive, FileMatchesMemory, Running
  <2>9. ChangesFit'
    <3>1. mem.secret \in 1..drawn
      BY <1>0, AuthAssumption DEF AuthInv, SecretsLive, Running
    <3>2. QED
      BY <2>1, <2>2, <2>3, <2>4, <2>5, <2>7, <3>1
      DEF ChangesFit, Written, Holding
  <2>10. QED BY <2>6, <2>7, <2>8, <2>9 DEF AuthInv
<1>3. QED BY <1>1, <1>2 DEF Write

LEMMA AuthReplaces ==
  ASSUME AuthInv, NEW c \in Changes, Replace(c)
  PROVE  AuthInv' /\ change[c].current = mem.hash
<1>1. /\ change[c].at = "written" /\ lock = c
      /\ change \in [Changes -> ChangeState]
      /\ Running /\ mem \in Credentials /\ file \in Credentials
      /\ file = Written(c) /\ mem' = file /\ mem.secret # file.secret
      /\ change[c].current = mem.hash
  BY DEF Replace, AuthInv, OneChanges, AuthTypes, ChangesFit, Running
<1>2. /\ UNCHANGED <<file, managed, login, cookies, drawn>>
      /\ retired' = retired \cup {mem.secret} /\ unanswered' = Nothing
      /\ lock' = Nothing
      /\ \A h \in Changes :
            change'[h] = IF h = c THEN [at |-> "changed"] ELSE change[h]
      /\ change' = [change EXCEPT ![c] = [at |-> "changed"]]
  BY <1>1 DEF Replace, At
<1>3. mem.secret \in 1..drawn
  BY <1>1 DEF AuthInv, SecretsLive, Running
<1>4. AuthTypes'
  BY <1>1, <1>2, <1>3, ChangeShapes DEF AuthInv, AuthTypes
<1>5. OneChanges' /\ \A h \in Changes : change'[h].at \notin Holding
  BY <1>1, <1>2, AuthAssumption DEF AuthInv, OneChanges, Running, Holding
<1>6. ChangesFit'
  BY <1>5 DEF ChangesFit, Holding
<1>7. SecretsLive' /\ FileMatchesMemory'
  BY <1>1, <1>2 DEF AuthInv, SecretsLive, FileMatchesMemory, Running
<1>8. QED BY <1>1, <1>4, <1>5, <1>6, <1>7 DEF AuthInv

LEMMA AuthStep ==
  ASSUME AuthInv, [AuthNext]_authVars
  PROVE  AuthInv'
<1>0. /\ change \in [Changes -> ChangeState] /\ cookies \subseteq 1..drawn
      /\ lock \in Changes \cup {Nothing} /\ Nothing \notin Changes
  BY AuthAssumption DEF AuthInv, AuthTypes
<1>1. CASE UNCHANGED authVars
  BY <1>1 DEF authVars, AuthInv, AuthTypes, OneChanges, SecretsLive, ChangesFit,
     FileMatchesMemory, Running, Written
<1>2. CASE Crash
  <2>1. \A c \in Changes : change'[c] = NoChange
    BY <1>2 DEF Crash
  <2>2. AuthTypes'
    BY <1>2, <1>0, ChangeShapes DEF Crash, AuthInv, AuthTypes
  <2>3. OneChanges' /\ ChangesFit'
    BY <1>0, <1>2, <2>1, ChangeShapes DEF Crash, OneChanges, ChangesFit, Running
  <2>4. SecretsLive' /\ FileMatchesMemory'
    BY <1>2 DEF Crash, AuthInv, SecretsLive, FileMatchesMemory, Running
  <2>5. QED BY <2>2, <2>3, <2>4 DEF AuthInv
<1>3. ASSUME NEW supplied \in Passwords \cup {Nothing}, Load(supplied)
      PROVE  AuthInv'
  BY <1>3, AuthLoad
<1>4. ASSUME NEW c \in Changes, Begin(c)
      PROVE  AuthInv'
  <2>1. PICK current, new \in Passwords :
          At(c, [at |-> "locking", current |-> current, new |-> new])
    BY <1>4 DEF Begin
  <2>2. lock # c
    BY <1>4 DEF Begin, AuthInv, OneChanges
  <2>3. QED
    BY <1>0, <1>4, <2>1, <2>2, ChangeShapes, AuthMoves
    DEF Begin, Holding
<1>5. ASSUME NEW c \in Changes, Acquire(c)
      PROVE  AuthInv'
  <2>1. /\ [change[c] EXCEPT !.at = "verifying"] \in ChangeState
        /\ [change[c] EXCEPT !.at = "verifying"].at = "verifying"
    BY <1>0, <1>5, ChangeShapes DEF Acquire
  <2>2. QED BY <1>0, <1>5, <2>1, AuthMoves DEF Acquire, Holding
<1>6. ASSUME NEW c \in Changes, Verify(c)
      PROVE  AuthInv'
  <2>1. lock = c /\ Running /\ change[c].at = "verifying"
    BY <1>6 DEF Verify, AuthInv, OneChanges
  <2>2. CASE change[c].current = mem.hash
    <3>1. /\ [change[c] EXCEPT !.at = "hashed"] \in ChangeState
          /\ [change[c] EXCEPT !.at = "hashed"].at = "hashed"
          /\ [change[c] EXCEPT !.at = "hashed"].current = mem.hash
      BY <1>0, <2>1, <2>2, ChangeShapes
    <3>2. QED BY <1>0, <1>6, <2>1, <2>2, <3>1, AuthMoves DEF Verify, Holding
  <2>3. CASE change[c].current # mem.hash
    BY <1>0, <1>6, <2>1, <2>3, ChangeShapes, AuthMoves DEF Verify, Holding
  <2>4. QED BY <2>2, <2>3
<1>7. ASSUME NEW c \in Changes, Answer(c)
      PROVE  AuthInv'
  <2>1. lock # c /\ Running /\ mem.secret \in 1..drawn
    BY <1>7 DEF Answer, AuthInv, OneChanges, SecretsLive, Running
  <2>2. QED BY <1>0, <1>7, <2>1, ChangeShapes, AuthMoves DEF Answer, Holding
<1>8. ASSUME NEW c \in Changes, Cancel(c)
      PROVE  AuthInv'
  BY <1>0, <1>8, ChangeShapes, AuthMoves DEF Cancel, Holding
<1>9. ASSUME NEW l \in Logins, Try(l) \/ Sign(l)
      PROVE  AuthInv'
  <2>1. /\ UNCHANGED <<file, mem, managed, lock, change, drawn, retired,
                       unanswered>>
        /\ cookies' \subseteq 1..drawn
    BY <1>0, <1>9 DEF Try, Sign, AuthInv, SecretsLive, Running
  <2>2. QED BY <2>1 DEF AuthInv, AuthTypes, OneChanges, SecretsLive, ChangesFit,
        FileMatchesMemory, Running, Written
<1>10. QED
  BY <1>1, <1>2, <1>3, <1>4, <1>5, <1>6, <1>7, <1>8, <1>9, AuthWrites,
     AuthReplaces
  DEF AuthNext

\* A session once refused stays refused, what a restart brings back is what the
\* server accepts but for a change it never answered, and of two changes made
\* from one password one is refused: over any interleaving of calls, hang-ups,
\* failed writes and restarts (change_password writes the file, then the memory,
\* under change_lock).
THEOREM PasswordsSound == AuthSpec => AuthSound
<1>1. AuthInv => AuthTypeOK /\ RefusedForGood /\ FileMatchesMemory
  BY AuthAssumption DEF AuthInv, AuthTypes, AuthTypeOK, OneChanges, SecretsLive,
     RefusedForGood, Running
<1>2. ASSUME AuthInv, [AuthNext]_authVars
      PROVE  [\A c \in Changes :
                 change[c].at = "written" /\ change'[c].at = "changed"
                    => change[c].current = mem.hash]_authVars
  BY <1>2 DEF AuthInv, ChangesFit
<1>3. QED
  BY <1>1, <1>2, AuthStarts, AuthStep, PTL DEF AuthSpec, AuthSound, ChangesChain

(***************************************************************************)
(* What a user has seen. A report is merged with what was seen before, and *)
(* the file may only be ahead of the memory, by a change that was answered *)
(* with an error.                                                          *)
(***************************************************************************)
Maps == UNION {[D -> Nat] : D \in SUBSET Viewed}

ViewTypes ==
    /\ completed \in [Viewed -> Nat]
    /\ seenViews \in Maps /\ storedViews \in Maps
    /\ report \in [Browsers -> {NoReport} \cup [terminal : Viewed, seen : Nat]]

NothingAhead ==
    /\ ~ahead
    /\ \A t \in Viewed : /\ Seen(seenViews, t) <= completed[t]
                         /\ Seen(storedViews, t) <= completed[t]
    /\ \A b \in Browsers : report[b] # NoReport =>
                               report[b].seen <= completed[report[b].terminal]

\* The file is never behind the memory for a terminal that is still there: what
\* reached it without reaching the memory had more completions seen.
FileKeepsUp ==
    /\ storedViews \in {seenViews, refused}
    /\ \A t \in Viewed \ gone : Seen(storedViews, t) >= Seen(seenViews, t)

ViewInv == ViewTypes /\ NothingAhead /\ FileKeepsUp

\* SeenStaysSeen, of one step.
SeenGrows ==
    \A t \in Viewed \ gone' : Seen(seenViews', t) >= Seen(seenViews, t)

LEMMA SeenNat ==
  \A f \in Maps : \A t : Seen(f, t) \in Nat
  BY DEF Maps, Seen

LEMMA MapShape ==
  ASSUME NEW f \in Maps
  PROVE  DOMAIN f \subseteq Viewed /\ \A x \in DOMAIN f : f[x] \in Nat
  BY DEF Maps

LEMMA ViewStarts == ViewInit => ViewInv
<1>1. SUFFICES ASSUME ViewInit PROVE ViewInv
  OBVIOUS
<1>2. <<>> \in Maps /\ DOMAIN <<>> = {}
  BY DEF Maps
<1>3. QED
  BY <1>1, <1>2
  DEF ViewInit, ViewInv, ViewTypes, NothingAhead, FileKeepsUp, Seen

\* What a call of persist leaves, whatever becomes of it.
LEMMA KeepKeeps ==
  ASSUME ViewInv, NEW f \in Maps, Keep(f), UNCHANGED completed,
         gone \subseteq gone',
         \A t \in Viewed : Seen(f, t) <= completed[t],
         \A t \in Viewed \ gone' : Seen(f, t) >= Seen(seenViews, t)
  PROVE  /\ seenViews' \in Maps /\ storedViews' \in Maps
         /\ \A t \in Viewed : /\ Seen(seenViews', t) <= completed[t]
                              /\ Seen(storedViews', t) <= completed[t]
         /\ storedViews' \in {seenViews', refused'}
         /\ \A t \in Viewed \ gone' :
               /\ Seen(storedViews', t) >= Seen(seenViews', t)
               /\ Seen(seenViews', t) >= Seen(seenViews, t)
<1>1. \A t \in Viewed : /\ Seen(f, t) \in Nat
                        /\ Seen(seenViews, t) \in Nat
                        /\ Seen(storedViews, t) \in Nat
  BY SeenNat DEF ViewInv, ViewTypes
<1>2. CASE seenViews' = f /\ storedViews' = f /\ refused' = refused
  BY <1>1, <1>2
<1>3. CASE UNCHANGED <<seenViews, storedViews, refused>>
  BY <1>1, <1>3 DEF ViewInv, ViewTypes, NothingAhead, FileKeepsUp
<1>4. CASE storedViews' = f /\ refused' = f /\ UNCHANGED seenViews
  BY <1>1, <1>4 DEF ViewInv, ViewTypes, NothingAhead
<1>5. QED BY <1>2, <1>3, <1>4 DEF Keep

LEMMA ViewUpdate ==
  ASSUME ViewInv, NEW b \in Browsers, Update(b)
  PROVE  ViewInv' /\ SeenGrows
<1> DEFINE t == report[b].terminal
           next == Merged(Seen(seenViews, t), report[b].seen)
           f == [x \in DOMAIN seenViews \cup {t} |->
                    IF x = t THEN next ELSE seenViews[x]]
<1>1. /\ t \in Viewed /\ report[b].seen \in Nat
      /\ report[b].seen <= completed[t] /\ completed[t] \in Nat
      /\ Seen(seenViews, t) <= completed[t] /\ Seen(seenViews, t) \in Nat
      /\ report' = [report EXCEPT ![b] = NoReport]
      /\ UNCHANGED <<completed, gone>>
      /\ ahead' = (ahead \/ next > completed[t])
  BY SeenNat DEF Update, ViewInv, ViewTypes, NothingAhead
<1>2. next \in Nat /\ next <= completed[t] /\ next >= Seen(seenViews, t)
  BY <1>1 DEF Merged
<1>3. ~ahead'
  <2>1. ~ahead /\ ~(next > completed[t])
    BY <1>1, <1>2 DEF ViewInv, NothingAhead
  <2>2. QED BY <1>1, <2>1, Zenon
<1>4. /\ \A x \in Viewed :
            Seen(f, x) = IF x = t THEN next ELSE Seen(seenViews, x)
      /\ f \in Maps
  <2>1. /\ DOMAIN seenViews \subseteq Viewed
        /\ \A x \in DOMAIN seenViews : seenViews[x] \in Nat
    BY MapShape DEF ViewInv, ViewTypes
  <2>2. f \in [DOMAIN seenViews \cup {t} -> Nat]
    BY <1>2, <2>1
  <2>3. f \in Maps
    BY <1>1, <2>1, <2>2 DEF Maps
  <2>4. QED BY <2>3 DEF Seen
<1>5. CASE Keep(f)
  <2>1. \A x \in Viewed : /\ Seen(seenViews, x) \in Nat
                          /\ Seen(seenViews, x) <= completed[x]
    BY SeenNat DEF ViewInv, ViewTypes, NothingAhead
  <2>2. /\ \A x \in Viewed : Seen(f, x) <= completed[x]
        /\ \A x \in Viewed \ gone' : Seen(f, x) >= Seen(seenViews, x)
    BY <1>1, <1>2, <1>4, <2>1
  <2>3. /\ seenViews' \in Maps /\ storedViews' \in Maps
        /\ \A x \in Viewed : /\ Seen(seenViews', x) <= completed[x]
                             /\ Seen(storedViews', x) <= completed[x]
        /\ storedViews' \in {seenViews', refused'}
        /\ \A x \in Viewed \ gone' :
               /\ Seen(storedViews', x) >= Seen(seenViews', x)
               /\ Seen(seenViews', x) >= Seen(seenViews, x)
    <3> HIDE DEF f
    <3>1. QED BY <1>1, <1>4, <1>5, <2>2, KeepKeeps
  <2>4. QED
    BY <1>1, <1>3, <2>3
    DEF ViewInv, ViewTypes, NothingAhead, FileKeepsUp, SeenGrows
<1>6. CASE UNCHANGED <<seenViews, storedViews, refused>>
  <2>1. \A x \in Viewed : Seen(seenViews, x) \in Nat
    BY SeenNat DEF ViewInv, ViewTypes
  <2>2. QED
    BY <1>1, <1>3, <1>6, <2>1
    DEF ViewInv, ViewTypes, NothingAhead, FileKeepsUp, SeenGrows
<1>7. QED BY <1>5, <1>6 DEF Update

LEMMA ViewRemove ==
  ASSUME ViewInv, NEW t \in Viewed, Remove(t)
  PROVE  ViewInv' /\ SeenGrows
<1> DEFINE f == Restrict(seenViews, DOMAIN seenViews \ {t})
<1>1. /\ \A x \in Viewed : /\ Seen(seenViews, x) \in Nat
                           /\ Seen(seenViews, x) <= completed[x]
                           /\ completed[x] \in Nat
      /\ UNCHANGED <<completed, report, ahead>> /\ gone' = gone \cup {t}
  BY SeenNat DEF ViewInv, ViewTypes, NothingAhead, Remove
<1>2. /\ \A x \in Viewed : Seen(f, x) = IF x = t THEN 0 ELSE Seen(seenViews, x)
      /\ f \in Maps
  <2>1. /\ DOMAIN seenViews \subseteq Viewed
        /\ \A x \in DOMAIN seenViews : seenViews[x] \in Nat
    BY MapShape DEF ViewInv, ViewTypes
  <2>2. f = [x \in DOMAIN seenViews \ {t} |-> seenViews[x]]
    BY DEF Restrict
  <2>3. f \in [DOMAIN seenViews \ {t} -> Nat]
    BY <2>1, <2>2
  <2>4. f \in Maps
    BY <2>1, <2>3 DEF Maps
  <2>5. QED BY <2>2, <2>4 DEF Seen
<1>3. CASE Keep(f)
  <2> HIDE DEF f
  <2>1. /\ \A x \in Viewed : Seen(f, x) <= completed[x]
        /\ \A x \in Viewed \ gone' : Seen(f, x) >= Seen(seenViews, x)
    BY <1>1, <1>2
  <2>2. /\ seenViews' \in Maps /\ storedViews' \in Maps
        /\ \A x \in Viewed : /\ Seen(seenViews', x) <= completed[x]
                             /\ Seen(storedViews', x) <= completed[x]
        /\ storedViews' \in {seenViews', refused'}
        /\ \A x \in Viewed \ gone' :
               /\ Seen(storedViews', x) >= Seen(seenViews', x)
               /\ Seen(seenViews', x) >= Seen(seenViews, x)
    BY <1>1, <1>2, <1>3, <2>1, KeepKeeps
  <2>3. QED
    BY <1>1, <2>2
    DEF ViewInv, ViewTypes, NothingAhead, FileKeepsUp, SeenGrows
<1>4. CASE UNCHANGED <<seenViews, storedViews, refused>>
  BY <1>1, <1>4 DEF ViewInv, ViewTypes, NothingAhead, FileKeepsUp, SeenGrows
<1>5. QED BY <1>3, <1>4 DEF Remove

LEMMA ViewStep ==
  ASSUME ViewInv, [ViewNext]_viewVars
  PROVE  ViewInv' /\ SeenGrows
<1>0. /\ \A t \in Viewed : /\ Seen(seenViews, t) \in Nat
                           /\ Seen(storedViews, t) \in Nat
                           /\ completed[t] \in Nat
      /\ \A b \in Browsers : report[b] # NoReport =>
             report[b].terminal \in Viewed /\ report[b].seen \in Nat
  BY SeenNat DEF ViewInv, ViewTypes
<1>1. CASE UNCHANGED viewVars
  BY <1>0, <1>1
  DEF viewVars, ViewInv, ViewTypes, NothingAhead, FileKeepsUp, SeenGrows
<1>2. CASE Restart
  BY <1>0, <1>2
  DEF Restart, ViewInv, ViewTypes, NothingAhead, FileKeepsUp, SeenGrows
<1>3. ASSUME NEW t \in Viewed, Completes(t)
      PROVE  ViewInv' /\ SeenGrows
  <2>1. /\ UNCHANGED <<gone, seenViews, storedViews, refused, report, ahead>>
        /\ completed' \in [Viewed -> Nat]
        /\ \A x \in Viewed : completed'[x] >= completed[x]
    BY <1>0, <1>3 DEF Completes, ViewInv, ViewTypes
  <2>2. NothingAhead'
    BY <1>0, <2>1 DEF ViewInv, ViewTypes, NothingAhead
  <2>3. QED BY <1>0, <2>1, <2>2 DEF ViewInv, ViewTypes, FileKeepsUp, SeenGrows
<1>4. ASSUME NEW b \in Browsers, Report(b)
      PROVE  ViewInv' /\ SeenGrows
  <2>1. PICK t \in Viewed : \E n \in 1..completed[t] :
          report' = [report EXCEPT ![b] = [terminal |-> t, seen |-> n]]
    BY <1>4 DEF Report
  <2>2. UNCHANGED <<completed, gone, seenViews, storedViews, refused, ahead>>
    BY <1>4 DEF Report
  <2>3. PICK n \in 1..completed[t] :
          report' = [report EXCEPT ![b] = [terminal |-> t, seen |-> n]]
    BY <2>1
  <2>4. n \in Nat /\ n <= completed[t]
    BY <1>0
  <2>5. QED
    BY <1>0, <2>2, <2>3, <2>4
    DEF ViewInv, ViewTypes, NothingAhead, FileKeepsUp, SeenGrows
<1>5. QED BY <1>1, <1>2, <1>3, <1>4, ViewUpdate, ViewRemove DEF ViewNext

\* However reports overtake each other, writes fail and the server restarts, a
\* completion once seen is not new again, none is seen before it happened, and
\* the file is what browsers were answered (ActivityViewStore::update).
THEOREM WhatWasSeen == ViewSpec => ViewsSound
<1>1. ViewInv => ~ahead /\ storedViews \in {seenViews, refused}
  BY DEF ViewInv, NothingAhead, FileKeepsUp
<1>2. QED
  BY <1>1, ViewStarts, ViewStep, PTL
  DEF ViewSpec, ViewsSound, SeenStaysSeen, SeenGrows

(***************************************************************************)
(* The pool of brokers. The state is described through three relations:    *)
(* what the pool answers for (Pooled), what a listing has yet to hear of   *)
(* (ListingOK), and which names the holder of the create lock knows to be  *)
(* taken (NamesOK). Terminals never move between generations, so a step of *)
(* the brokers keeps them all (IdsKept, NamesKept, PoolKept).              *)
(***************************************************************************)
Request ==
    [op : {"none", "list", "forward", "create", "rename"},
     at : {"idle", "listing", "owner", "reread", "send", "cache"},
     id : PoolTerminals \cup {Nobody}, want : Names \cup {Nobody},
     gen : Generations \cup {Nobody, "checked"},
     todo : SUBSET Generations,
     listed : SUBSET [id : PoolTerminals, name : Names, gen : Generations],
     missed : BOOLEAN, expect : SUBSET PoolTerminals]

Locking == {"create", "rename"}

\* What a request's fields say of each other.
Shape(r) ==
    /\ r \in Request
    /\ r.op \in {"forward", "rename"} => r.id \in PoolTerminals
    /\ r.op = "rename" => r.want \in Names
    /\ r.at = "send" => r.gen \in Generations
    /\ r.op = "create" => r.at \in {"listing", "send", "cache"}
    /\ r.op = "create" /\ r.at # "cache" => r.id = Nobody
    /\ r.op = "create" /\ r.at = "send" => r.gen = Current
    /\ r.at = "cache" => r.id \in PoolTerminals
    /\ r.at = "owner" =>
          /\ r.op \in {"forward", "rename"}
          /\ r.gen \notin Generations /\ r.listed = {}

\* The pool answers for a generation, or nothing is in it.
Pooled(g, S, D) == g = Current \/ g \in D \/ S[g] = {}

\* A request only knows generations of the pool, and a listing that nobody
\* failed to answer has heard of what it should show, or will ask for it.
ListingOK(r, S, D) ==
    /\ r.gen \in Generations => Pooled(r.gen, S, D)
    /\ \A g \in r.todo : Pooled(g, S, D)
    /\ \A e \in r.listed : Pooled(e.gen, S, D)
    /\ r.at = "listing" /\ ~r.missed =>
          \A g \in Generations : \A s \in S[g] : s.id \in r.expect =>
             g \in r.todo \/ \E e \in r.listed : e.id = s.id

\* The names users were given are on the list of whoever holds the lock, or will
\* be asked for; once they were compared with, nobody else has the wanted one.
NamesOK(r, S) ==
    r.op \in Locking /\ r.at # "cache" /\ ~r.missed =>
        \A g \in Generations : \A s \in S[g] : s.given =>
           IF r.at = "listing" /\ r.gen # "checked"
           THEN \/ g \in r.todo
                \/ \E e \in r.listed : e.id = s.id /\ e.name = s.name
           ELSE s.id # r.id => s.name # r.want

RequestOK(r, S, D) == Shape(r) /\ ListingOK(r, S, D) /\ NamesOK(r, S)

SessionsOK(S, D, A) ==
    /\ S \in [Generations -> SUBSET Session]
    /\ \A g \in Generations \ A : S[g] = {}
    /\ \A g, h \in Generations : \A s \in S[g], z \in S[h] :
          /\ s.id = z.id => g = h
          /\ s.given /\ z.given /\ s.id # z.id => s.name # z.name
    /\ \A g \in Generations : \A s \in S[g] : s.given => g = Current \/ g \in D

OwnersOK(O, S, D) ==
    /\ DOMAIN O \subseteq PoolTerminals
    /\ \A t \in DOMAIN O : O[t] \in Generations /\ Pooled(O[t], S, D)

\* A generation is taken out of the pool when nothing is in it.
ReaperOK(r, S) ==
    /\ r \in [at : {"asleep", "asking", "forget", "drop", "stop", "settle"},
              todo : SUBSET (Generations \ {Current}),
              gen : Generations \cup {Nobody}]
    /\ r.at \in {"forget", "drop", "stop", "settle"} =>
          r.gen \in Generations \ {Current} /\ S[r.gen] = {}

PoolInv ==
    /\ alive \subseteq Generations /\ draining \subseteq Generations \ {Current}
    /\ SessionsOK(sessions, draining, alive)
    /\ OwnersOK(owners, sessions, draining)
    /\ \A r \in overdue : Shape(r) /\ r.at = "send"
    /\ task \in [Tasks -> Request]
    /\ \A k \in Tasks : RequestOK(task[k], sessions, draining)
    /\ createLock \in Tasks \cup {Nobody}
    /\ \A k \in Tasks : createLock = k <=> task[k].op \in Locking
    /\ ReaperOK(reaper, sessions)

\* Nothing is asked of a request that is not under way.
LEMMA IdleIsOK ==
  ASSUME NEW S, NEW D
  PROVE  RequestOK(Idle, S, D) /\ Idle.op \notin Locking /\ Idle \in Request
BY PoolAssumption
DEF Idle, RequestOK, Shape, Request, ListingOK, NamesOK, Locking

\* What a listing asks for when it begins covers what it should show.
LEMMA ListingStarts ==
  ASSUME PoolInv, NEW r \in Request, r.op # "none",
         r.op \in {"forward", "rename"} => r.id \in PoolTerminals,
         r.op = "rename" => r.want \in Names,
         r.op = "create" => r.id = Nobody,
         r.gen \notin Generations, r.listed = {},
         r.op \in Locking /\ r.gen = "checked" =>
            NamesOK(r, sessions) /\ r.at = "owner"
  PROVE  /\ RequestOK(Listing(r), sessions, draining)
         /\ Listing(r).op = r.op
<1> DEFINE q == Listing(r)
<1>1. /\ Known \subseteq Generations
      /\ {Current} \cup draining \subseteq Generations
  BY PoolAssumption DEF PoolInv, Known, Stopping, ReaperOK
<1>2. Ids(SessionsIn(Known)) \subseteq PoolTerminals
  <2>1. \A g \in Generations : \A s \in sessions[g] : s.id \in PoolTerminals
    BY DEF PoolInv, SessionsOK, Session
  <2>2. QED BY <1>1, <2>1 DEF Ids, SessionsIn
<1>3. /\ q \in Request /\ q.op = r.op /\ q.at = "listing" /\ q.id = r.id
      /\ q.want = r.want /\ q.gen = r.gen /\ q.todo = {Current} \cup draining
      /\ q.listed = {} /\ q.missed = r.missed
      /\ q.expect = Ids(SessionsIn(Known))
  BY <1>1, <1>2 DEF Request, Listing
<1>4. Shape(q)
  BY <1>3 DEF Shape
<1>5. ASSUME NEW g \in Generations, NEW s \in sessions[g], s.id \in q.expect
      PROVE  g \in q.todo
  <2>1. PICK h \in Known : \E z \in sessions[h] : z.id = s.id
    BY <1>3, <1>5 DEF Ids, SessionsIn
  <2>2. g = h
    BY <1>1, <2>1 DEF PoolInv, SessionsOK
  <2>3. g \notin Stopping
    BY DEF Stopping, PoolInv, ReaperOK
  <2>4. QED BY <1>3, <2>2, <2>3 DEF Known
<1>6. ListingOK(q, sessions, draining)
  BY <1>3, <1>5 DEF ListingOK, Pooled
<1>7. NamesOK(q, sessions)
  BY <1>3 DEF NamesOK, PoolInv, SessionsOK
<1>8. QED BY <1>3, <1>4, <1>6, <1>7 DEF RequestOK

\* A request changes only itself, the owners and what is overdue.
LEMMA RequestMoves ==
  ASSUME PoolInv, NEW k \in Tasks, NEW r, RequestOK(r, sessions, draining),
         Become(k, r), UNCHANGED <<alive, sessions, draining, reaper>>,
         OwnersOK(owners', sessions, draining),
         \A o \in overdue' : Shape(o) /\ o.at = "send",
         IF r.op \in Locking THEN createLock \in {k, Nobody} /\ createLock' = k
         ELSE createLock' = IF createLock = k THEN Nobody ELSE createLock
  PROVE  PoolInv'
<1>1. /\ task \in [Tasks -> Request] /\ task' = [task EXCEPT ![k] = r]
      /\ r \in Request /\ Nobody \notin Tasks
      /\ createLock \in Tasks \cup {Nobody}
      /\ \A h \in Tasks : createLock = h <=> task[h].op \in Locking
      /\ \A h \in Tasks : RequestOK(task[h], sessions, draining)
  BY PoolAssumption DEF PoolInv, Become, RequestOK, Shape
<1>2. /\ task' \in [Tasks -> Request]
      /\ \A h \in Tasks : task'[h] = IF h = k THEN r ELSE task[h]
  BY <1>1
<1>3. \A h \in Tasks : RequestOK(task'[h], sessions, draining)
  BY <1>1, <1>2
<1>4. /\ createLock' \in Tasks \cup {Nobody}
      /\ \A h \in Tasks : createLock' = h <=> task'[h].op \in Locking
  BY <1>1, <1>2
<1>5. QED BY <1>2, <1>3, <1>4 DEF PoolInv

LEMMA RequestGoesOn ==
  ASSUME PoolInv, NEW k \in Tasks, NEW r, RequestOK(r, sessions, draining),
         GoesOn(k, r), r.op = task[k].op,
         UNCHANGED <<alive, sessions, draining, reaper, overdue>>,
         OwnersOK(owners', sessions, draining)
  PROVE  PoolInv'
<1>1. /\ createLock = k <=> task[k].op \in Locking
      /\ \A o \in overdue : Shape(o) /\ o.at = "send"
      /\ Become(k, r) /\ UNCHANGED createLock
  BY DEF PoolInv, GoesOn
<1>2. IF r.op \in Locking THEN createLock \in {k, Nobody} /\ createLock' = k
      ELSE createLock' = IF createLock = k THEN Nobody ELSE createLock
  BY <1>1
<1>3. QED BY <1>1, <1>2, RequestMoves

LEMMA RequestEnds ==
  ASSUME PoolInv, NEW k \in Tasks, Ends(k),
         UNCHANGED <<alive, sessions, draining, reaper>>,
         OwnersOK(owners', sessions, draining),
         \A o \in overdue' : Shape(o) /\ o.at = "send"
  PROVE  PoolInv'
BY IdleIsOK, RequestMoves DEF Ends

\* The steps of a request that change nothing but itself and the owners.
LEMMA RequestBegins ==
  ASSUME PoolInv, NEW k \in Tasks,
         ListTerminals(k) \/ Forward(k) \/ Create(k) \/ Rename(k)
  PROVE  PoolInv'
<1>0. /\ UNCHANGED <<alive, sessions, draining, reaper, owners, overdue>>
      /\ OwnersOK(owners, sessions, draining)
      /\ \A o \in overdue : Shape(o) /\ o.at = "send"
      /\ task[k].op \notin Locking /\ createLock # k
  BY IdleIsOK
  DEF PoolInv, ListTerminals, Forward, Create, Rename, brokers, pool
<1>1. CASE ListTerminals(k)
  <2> DEFINE r == [Idle EXCEPT !.op = "list"]
  <2>1. /\ r \in Request /\ r.op = "list" /\ r.gen = Nobody /\ r.listed = {}
    BY IdleIsOK DEF Idle, Request
  <2>2. RequestOK(Listing(r), sessions, draining) /\ Listing(r).op = "list"
    BY <2>1, ListingStarts, PoolAssumption DEF Locking
  <2>3. GoesOn(k, Listing(r))
    BY <1>1 DEF ListTerminals
  <2>4. QED
    BY <1>0, <2>2, <2>3, RequestMoves DEF GoesOn, Locking
<1>2. CASE Forward(k)
  <2>1. PICK t \in PoolTerminals :
          GoesOn(k, [Idle EXCEPT !.op = "forward", !.id = t, !.at = "owner"])
    BY <1>2 DEF Forward
  <2> DEFINE r == [Idle EXCEPT !.op = "forward", !.id = t, !.at = "owner"]
  <2>2. /\ r \in Request /\ r.op = "forward" /\ r.gen = Nobody /\ r.listed = {}
        /\ r.at = "owner" /\ r.id = t /\ r.todo = {}
    BY IdleIsOK DEF Idle, Request
  <2>3. RequestOK(r, sessions, draining)
    BY <2>2, PoolAssumption DEF RequestOK, Shape, ListingOK, NamesOK, Locking
  <2>4. QED
    BY <1>0, <2>1, <2>2, <2>3, RequestMoves DEF GoesOn, Locking
<1>3. CASE Create(k)
  <2>1. PICK n \in Names \cup {Nobody} :
          Become(k, Listing([Idle EXCEPT !.op = "create", !.want = n]))
    BY <1>3 DEF Create
  <2> DEFINE r == [Idle EXCEPT !.op = "create", !.want = n]
  <2>2. /\ r \in Request /\ r.op = "create" /\ r.gen = Nobody /\ r.listed = {}
        /\ r.id = Nobody
    BY IdleIsOK DEF Idle, Request
  <2>3. RequestOK(Listing(r), sessions, draining) /\ Listing(r).op = "create"
    BY <2>2, ListingStarts, PoolAssumption DEF Locking
  <2>4. createLock = Nobody /\ createLock' = k
    BY <1>3 DEF Create, LockFree
  <2>5. QED
    BY <1>0, <2>1, <2>3, <2>4, RequestMoves DEF Locking
<1>4. CASE Rename(k)
  <2>1. PICK t \in PoolTerminals, n \in Names :
          Become(k, Listing([Idle EXCEPT !.op = "rename", !.id = t,
                                         !.want = n]))
    BY <1>4 DEF Rename
  <2> DEFINE r == [Idle EXCEPT !.op = "rename", !.id = t, !.want = n]
  <2>2. /\ r \in Request /\ r.op = "rename" /\ r.gen = Nobody /\ r.listed = {}
        /\ r.id = t /\ r.want = n
    BY IdleIsOK DEF Idle, Request
  <2>3. RequestOK(Listing(r), sessions, draining) /\ Listing(r).op = "rename"
    BY <2>2, ListingStarts, PoolAssumption DEF Locking
  <2>4. createLock = Nobody /\ createLock' = k
    BY <1>4 DEF Rename, LockFree
  <2>5. QED
    BY <1>0, <2>1, <2>3, <2>4, RequestMoves DEF Locking
<1>5. QED BY <1>1, <1>2, <1>3, <1>4

\* A generation answered, is left out, or fails the listing.
LEMMA RequestAsks ==
  ASSUME PoolInv, NEW k \in Tasks, Ask(k)
  PROVE  PoolInv'
<1>1. PICK g \in NextAsked(task[k]) :
        LET r == [task[k] EXCEPT !.todo = @ \ {g}] IN
        \/ g \in alive /\ GoesOn(k, [r EXCEPT !.listed = @ \cup SeenIn(g)])
        \/ g # Current /\ GoesOn(k, [r EXCEPT !.missed = TRUE])
        \/ g = Current /\ Ends(k)
  BY DEF Ask
<1>2. /\ UNCHANGED <<alive, sessions, draining, reaper, owners, overdue>>
      /\ OwnersOK(owners, sessions, draining)
      /\ \A o \in overdue : Shape(o) /\ o.at = "send"
      /\ task[k].at = "listing" /\ task[k] \in Request
      /\ RequestOK(task[k], sessions, draining)
  BY DEF PoolInv, Ask, brokers, pool
<1>3. g \in task[k].todo /\ task[k].todo \subseteq Generations
  BY <1>1, <1>2 DEF NextAsked, Request
<1> DEFINE r == [task[k] EXCEPT !.todo = @ \ {g}]
           heard == [r EXCEPT !.listed = @ \cup SeenIn(g)]
           left == [r EXCEPT !.missed = TRUE]
<1>4. CASE GoesOn(k, heard)
  <2>1. SeenIn(g) \subseteq
           [id : PoolTerminals, name : Names, gen : Generations]
    BY <1>3 DEF SeenIn, PoolInv, SessionsOK, Session
  <2>2. /\ heard \in Request /\ heard.op = task[k].op /\ heard.at = "listing"
        /\ heard.id = task[k].id /\ heard.want = task[k].want
        /\ heard.gen = task[k].gen /\ heard.todo = task[k].todo \ {g}
        /\ heard.listed = task[k].listed \cup SeenIn(g)
        /\ heard.missed = task[k].missed /\ heard.expect = task[k].expect
    BY <1>2, <2>1 DEF Request
  <2>3. /\ \A s \in sessions[g] :
              \E e \in SeenIn(g) : e.id = s.id /\ e.name = s.name
        /\ \A e \in SeenIn(g) : e.gen = g
    <3>1. ASSUME NEW s \in sessions[g]
          PROVE  \E e \in SeenIn(g) : e.id = s.id /\ e.name = s.name
      <4>1. [id |-> s.id, name |-> s.name, gen |-> g] \in SeenIn(g)
        BY DEF SeenIn
      <4>2. QED BY <4>1
    <3>2. QED BY <3>1 DEF SeenIn
  <2>4. Shape(heard)
    BY <1>2, <2>2 DEF RequestOK, Shape
  <2>5. ListingOK(heard, sessions, draining)
    <3>1. \A e \in heard.listed : Pooled(e.gen, sessions, draining)
      BY <1>2, <1>3, <2>2, <2>3 DEF RequestOK, ListingOK
    <3>2. ASSUME NEW h \in Generations, NEW s \in sessions[h],
                 s.id \in heard.expect, ~heard.missed
          PROVE  h \in heard.todo \/ \E e \in heard.listed : e.id = s.id
      BY <1>2, <2>2, <2>3, <3>2 DEF RequestOK, ListingOK
    <3>3. QED BY <1>2, <2>2, <3>1, <3>2 DEF RequestOK, ListingOK
  <2>6. NamesOK(heard, sessions)
    BY <1>2, <2>2, <2>3 DEF RequestOK, NamesOK
  <2>7. QED BY <1>2, <1>4, <2>2, <2>4, <2>5, <2>6, RequestGoesOn DEF RequestOK
<1>5. CASE GoesOn(k, left)
  <2>1. /\ left \in Request /\ left.op = task[k].op /\ left.at = "listing"
        /\ left.id = task[k].id /\ left.want = task[k].want
        /\ left.gen = task[k].gen /\ left.todo = task[k].todo \ {g}
        /\ left.listed = task[k].listed /\ left.missed = TRUE
    BY <1>2 DEF Request
  <2>2. RequestOK(left, sessions, draining)
    BY <1>2, <2>1 DEF RequestOK, Shape, ListingOK, NamesOK
  <2>3. QED BY <1>2, <1>5, <2>1, <2>2, RequestGoesOn
<1>6. CASE Ends(k)
  BY <1>2, <1>6, RequestEnds
<1>7. QED BY <1>1, <1>4, <1>5, <1>6

\* What a request keeps of a listing it heard to its end.
LEMMA HeardKeeps ==
  ASSUME NEW r, Shape(r), ListingOK(r, sessions, draining),
         NEW at \in {"owner", "reread", "send"}
  PROVE  LET q == Heard(r, at) IN
         /\ q \in Request /\ q.op = r.op /\ q.at = at /\ q.id = r.id
         /\ q.want = r.want /\ q.gen = r.gen /\ q.todo = r.todo
         /\ q.listed = {} /\ q.missed = r.missed
         /\ ListingOK(q, sessions, draining)
<1> DEFINE q == Heard(r, at)
<1>1. /\ q \in Request /\ q.op = r.op /\ q.at = at /\ q.id = r.id
      /\ q.want = r.want /\ q.gen = r.gen /\ q.todo = r.todo
      /\ q.listed = {} /\ q.missed = r.missed
  BY DEF Heard, Shape, Request
<1>2. ListingOK(q, sessions, draining)
  BY <1>1 DEF ListingOK
<1>3. QED BY <1>1, <1>2

\* Who compared a name with all of a listing that nobody failed to answer knows
\* that no other terminal was given it.
LEMMA NameIsFree ==
  ASSUME PoolInv, NEW r, r \in Request, NamesOK(r, sessions), r.op \in Locking,
         r.at = "listing", r.todo = {}, ~r.missed,
         r.gen = "checked" \/ NameFree(r.want, r.id, r.listed)
  PROVE  \A g \in Generations : \A s \in sessions[g] :
            s.given /\ s.id # r.id => s.name # r.want
BY DEF NamesOK, NameFree

\* A listing replaces the owners, and its caller goes on with what it heard.
LEMMA RequestListed ==
  ASSUME PoolInv, NEW k \in Tasks, Listed(k)
  PROVE  PoolInv'
<1> DEFINE r == task[k]
<1>1. /\ UNCHANGED <<alive, sessions, draining, reaper, overdue>>
      /\ \A o \in overdue : Shape(o) /\ o.at = "send"
      /\ r.at = "listing" /\ r.todo = {} /\ owners' = OwnersOf(r.listed)
      /\ r \in Request /\ Shape(r) /\ ListingOK(r, sessions, draining)
      /\ NamesOK(r, sessions)
  BY DEF PoolInv, RequestOK, Listed, brokers, pool
<1>2. OwnersOK(owners', sessions, draining)
  <2>1. DOMAIN owners' = Ids(r.listed) /\ Ids(r.listed) \subseteq PoolTerminals
    BY <1>1 DEF OwnersOf, Ids, Request
  <2>2. ASSUME NEW t \in Ids(r.listed)
        PROVE  \E e \in r.listed : owners'[t] = e.gen
    <3>1. \E e \in r.listed : e.id = t
      BY DEF Ids
    <3>2. (CHOOSE e \in r.listed : e.id = t) \in r.listed
      BY <3>1
    <3>3. QED BY <1>1, <3>2 DEF OwnersOf
  <2>3. \A e \in r.listed :
           e.gen \in Generations /\ Pooled(e.gen, sessions, draining)
    BY <1>1 DEF Request, ListingOK
  <2>4. QED BY <2>1, <2>2, <2>3 DEF OwnersOK
<1>3. CASE Ends(k)
  BY <1>1, <1>2, <1>3, RequestEnds
<1>4. CASE r.op = "forward" /\ GoesOn(k, Heard(r, "reread"))
  <2> DEFINE q == Heard(r, "reread")
  <2>1. RequestOK(q, sessions, draining) /\ q.op = r.op
    <3> HIDE DEF r
    <3>1. QED BY <1>1, <1>4, HeardKeeps DEF RequestOK, Shape, NamesOK, Locking
  <2>2. QED BY <1>1, <1>2, <1>4, <2>1, RequestGoesOn
<1>5. CASE r.op = "rename" /\ r.gen = "checked" /\ GoesOn(k, Heard(r, "reread"))
  <2> DEFINE q == Heard(r, "reread")
  <2>1. RequestOK(q, sessions, draining) /\ q.op = r.op
    <3>0. ~r.missed => \A g \in Generations : \A s \in sessions[g] :
                          s.given /\ s.id # r.id => s.name # r.want
      BY <1>1, <1>5, NameIsFree DEF Locking
    <3> HIDE DEF r
    <3>1. QED BY <1>1, <1>5, <3>0, HeardKeeps DEF RequestOK, Shape, NamesOK
  <2>2. QED BY <1>1, <1>2, <1>5, <2>1, RequestGoesOn
<1>6. CASE /\ r.op = "create" /\ NameFree(r.want, r.id, r.listed)
           /\ GoesOn(k, [Heard(r, "send") EXCEPT !.gen = Current])
  <2> DEFINE h == Heard(r, "send")
             q == [h EXCEPT !.gen = Current]
  <2>1. RequestOK(q, sessions, draining) /\ q.op = r.op
    <3>0. ~r.missed => \A g \in Generations : \A s \in sessions[g] :
                          s.given /\ s.id # r.id => s.name # r.want
      BY <1>1, <1>6, NameIsFree DEF Locking
    <3> HIDE DEF r
    <3>1. /\ h \in Request /\ h.op = r.op /\ h.at = "send" /\ h.id = r.id
          /\ h.want = r.want /\ h.todo = r.todo /\ h.listed = {}
          /\ h.missed = r.missed
      BY <1>1, HeardKeeps
    <3> HIDE DEF h
    <3>2. /\ q \in Request /\ q.op = r.op /\ q.at = "send" /\ q.id = r.id
          /\ q.want = r.want /\ q.gen = Current /\ q.todo = r.todo
          /\ q.listed = {} /\ q.missed = r.missed
      BY <3>1, PoolAssumption DEF Request
    <3> HIDE DEF q
    <3>3. Shape(q)
      BY <1>1, <1>6, <3>2, PoolAssumption DEF Shape
    <3>4. ListingOK(q, sessions, draining)
      BY <1>1, <3>2 DEF ListingOK, Pooled
    <3>5. NamesOK(q, sessions)
      BY <3>0, <3>2 DEF NamesOK
    <3>6. QED BY <3>2, <3>3, <3>4, <3>5 DEF RequestOK
  <2>2. QED BY <1>1, <1>2, <1>6, <2>1, RequestGoesOn
<1>7. CASE /\ r.op = "rename" /\ NameFree(r.want, r.id, r.listed)
           /\ GoesOn(k, [Heard(r, "owner") EXCEPT !.gen = "checked"])
  <2> DEFINE h == Heard(r, "owner")
             q == [h EXCEPT !.gen = "checked"]
  <2>1. RequestOK(q, sessions, draining) /\ q.op = r.op
    <3>0. ~r.missed => \A g \in Generations : \A s \in sessions[g] :
                          s.given /\ s.id # r.id => s.name # r.want
      BY <1>1, <1>7, NameIsFree DEF Locking
    <3> HIDE DEF r
    <3>1. /\ h \in Request /\ h.op = r.op /\ h.at = "owner" /\ h.id = r.id
          /\ h.want = r.want /\ h.todo = r.todo /\ h.listed = {}
          /\ h.missed = r.missed
      BY <1>1, HeardKeeps
    <3> HIDE DEF h
    <3>2. /\ q \in Request /\ q.op = r.op /\ q.at = "owner" /\ q.id = r.id
          /\ q.want = r.want /\ q.gen = "checked" /\ q.todo = r.todo
          /\ q.listed = {} /\ q.missed = r.missed
      BY <3>1 DEF Request
    <3> HIDE DEF q
    <3>3. Shape(q)
      BY <1>1, <1>7, <3>2, PoolAssumption DEF Shape
    <3>4. QED
      BY <1>1, <3>0, <3>2, <3>3, PoolAssumption
      DEF RequestOK, ListingOK, NamesOK
  <2>2. QED BY <1>1, <1>2, <1>7, <2>1, RequestGoesOn
<1>8. QED BY <1>3, <1>4, <1>5, <1>6, <1>7 DEF Listed

\* owner(): every generation it names is of the pool.
LEMMA RequestFindsOwner ==
  ASSUME PoolInv, NEW k \in Tasks, Owner(k) \/ Reread(k)
  PROVE  PoolInv'
<1> DEFINE r == task[k]
           q == [r EXCEPT !.at = "send", !.gen = owners[r.id]]
<1>1. /\ UNCHANGED <<alive, sessions, draining, reaper, owners, overdue>>
      /\ OwnersOK(owners, sessions, draining)
      /\ \A o \in overdue : Shape(o) /\ o.at = "send"
      /\ r \in Request /\ Shape(r) /\ ListingOK(r, sessions, draining)
      /\ NamesOK(r, sessions) /\ r.at \in {"owner", "reread"}
  BY DEF PoolInv, RequestOK, Owner, Reread, brokers, pool
<1>2. CASE r.id \in DOMAIN owners /\ GoesOn(k, q)
  <2>1. owners[r.id] \in Generations /\ Pooled(owners[r.id], sessions, draining)
    BY <1>1, <1>2 DEF OwnersOK
  <2>2. RequestOK(q, sessions, draining) /\ q.op = r.op
    <3> HIDE DEF r
    <3>1. /\ q \in Request /\ q.op = r.op /\ q.at = "send" /\ q.id = r.id
          /\ q.want = r.want /\ q.gen = owners[r.id] /\ q.todo = r.todo
          /\ q.listed = r.listed /\ q.missed = r.missed
      BY <1>1, <2>1 DEF Request
    <3> HIDE DEF q
    <3>2. Shape(q)
      BY <1>1, <2>1, <3>1 DEF Shape
    <3>3. ListingOK(q, sessions, draining) /\ NamesOK(q, sessions)
      BY <1>1, <2>1, <3>1 DEF ListingOK, NamesOK
    <3>4. QED BY <3>1, <3>2, <3>3 DEF RequestOK
  <2>3. QED BY <1>1, <1>2, <2>2, RequestGoesOn
<1>3. CASE r.at = "owner" /\ GoesOn(k, Listing(r))
  <2>1. RequestOK(Listing(r), sessions, draining) /\ Listing(r).op = r.op
    <3> HIDE DEF r
    <3>1. QED BY <1>1, <1>3, ListingStarts DEF Shape
  <2>2. QED BY <1>1, <1>3, <2>1, RequestGoesOn
<1>4. CASE Ends(k)
  BY <1>1, <1>4, RequestEnds
<1>5. QED BY <1>2, <1>3, <1>4 DEF Owner, Reread

\* A request ends unanswered, or caches what it was answered.
LEMMA RequestLeaves ==
  ASSUME PoolInv, NEW k \in Tasks, Answerless(k) \/ Cache(k)
  PROVE  PoolInv'
<1>1. /\ UNCHANGED <<alive, sessions, draining, reaper>> /\ Ends(k)
      /\ OwnersOK(owners, sessions, draining)
      /\ \A o \in overdue : Shape(o) /\ o.at = "send"
      /\ Shape(task[k])
  BY DEF PoolInv, RequestOK, Answerless, Cache, brokers, pool
<1>2. CASE Answerless(k)
  <2>1. /\ owners' = owners
        /\ overdue' \subseteq overdue \cup {task[k]}
        /\ task[k].at = "send"
    BY <1>2 DEF Answerless
  <2>2. QED BY <1>1, <2>1, RequestEnds
<1>3. CASE Cache(k)
  <2>1. /\ task[k].id \in PoolTerminals /\ overdue' = overdue
        /\ owners' =
              [t \in (DOMAIN owners \ {task[k].id}) \cup
                     (IF task[k].op = "create" THEN {task[k].id} ELSE {}) |->
                  IF t = task[k].id THEN Current ELSE owners[t]]
    BY <1>1, <1>3 DEF Cache, Shape, brokers
  <2>2. OwnersOK(owners', sessions, draining)
    BY <1>1, <2>1, PoolAssumption DEF OwnersOK, Pooled
  <2>3. QED BY <1>1, <2>1, <2>2, RequestEnds
<1>4. QED BY <1>2, <1>3

\* Terminals keep their generation, new ones are fresh and in the current one.
IdsKept(S, T) ==
    \A g \in Generations : \A s \in T[g] :
        \/ \E z \in S[g] : z.id = s.id
        \/ g = Current /\ s.id \in Fresh

\* Nobody is given a name.
NamesKept(S, T) ==
    \A g \in Generations : \A s \in T[g] : s.given =>
        \E z \in S[g] : z.id = s.id /\ z.given /\ z.name = s.name

\* A generation leaves the pool only when nothing is in it.
PoolKept(D, E, T) == \A g \in D \ E : T[g] = {}

LEMMA PooledStays ==
  ASSUME NEW S, NEW T, NEW D, NEW E, IdsKept(S, T), PoolKept(D, E, T),
         NEW g \in Generations, Pooled(g, S, D)
  PROVE  Pooled(g, T, E)
BY DEF IdsKept, PoolKept, Pooled

LEMMA ListingStays ==
  ASSUME NEW S, NEW T, NEW D, NEW E, IdsKept(S, T), PoolKept(D, E, T),
         NEW r, Shape(r), ListingOK(r, S, D), Remembered(r) \cap Fresh = {}
  PROVE  ListingOK(r, T, E)
<1>1. /\ r.gen \in Generations => Pooled(r.gen, T, E)
      /\ \A g \in r.todo : Pooled(g, T, E)
      /\ \A e \in r.listed : Pooled(e.gen, T, E)
  BY PooledStays DEF ListingOK, Shape, Request
<1>2. ASSUME r.at = "listing", ~r.missed, NEW g \in Generations,
             NEW s \in T[g], s.id \in r.expect
      PROVE  g \in r.todo \/ \E e \in r.listed : e.id = s.id
  <2>1. PICK z \in S[g] : z.id = s.id
    BY <1>2 DEF IdsKept, Remembered
  <2>2. QED BY <1>2, <2>1 DEF ListingOK
<1>3. QED BY <1>1, <1>2 DEF ListingOK

LEMMA NamesStay ==
  ASSUME NEW S, NEW T, NamesKept(S, T), NEW r, NamesOK(r, S)
  PROVE  NamesOK(r, T)
BY DEF NamesKept, NamesOK

LEMMA OwnersStay ==
  ASSUME NEW S, NEW T, NEW D, NEW E, IdsKept(S, T), PoolKept(D, E, T),
         NEW O, OwnersOK(O, S, D)
  PROVE  OwnersOK(O, T, E)
BY PooledStays DEF OwnersOK

LEMMA ReaperStays ==
  ASSUME NEW S, NEW T, IdsKept(S, T), NEW r, ReaperOK(r, S)
  PROVE  ReaperOK(r, T)
BY DEF IdsKept, ReaperOK

\* What the brokers may do by themselves keeps the sessions in order.
LEMMA SessionsStay ==
  ASSUME NEW A, NEW D, NEW E, NEW B, NEW T,
         SessionsOK(sessions, D, A), T \in [Generations -> SUBSET Session],
         IdsKept(sessions, T), NamesKept(sessions, T),
         \A g \in D \ E : \A s \in T[g] : ~s.given,
         \A g \in Generations \ B : T[g] = {}
  PROVE  SessionsOK(T, E, B)
<1>1. \A g \in Generations : \A s \in sessions[g] : s.id \notin Fresh
  BY DEF Fresh, Held, Ids, SessionsIn
<1>2. ASSUME NEW g \in Generations, NEW h \in Generations,
             NEW s \in T[g], NEW z \in T[h], s.id = z.id
      PROVE  g = h
  BY <1>1, <1>2 DEF SessionsOK, IdsKept
<1>3. ASSUME NEW g \in Generations, NEW h \in Generations, NEW s \in T[g],
             NEW z \in T[h], s.given, z.given, s.id # z.id
      PROVE  s.name # z.name
  <2>1. PICK s0 \in sessions[g] : s0.id = s.id /\ s0.given /\ s0.name = s.name
    BY <1>3 DEF NamesKept
  <2>2. PICK z0 \in sessions[h] : z0.id = z.id /\ z0.given /\ z0.name = z.name
    BY <1>3 DEF NamesKept
  <2>3. QED BY <1>3, <2>1, <2>2 DEF SessionsOK
<1>4. ASSUME NEW g \in Generations, NEW s \in T[g], s.given
      PROVE  g = Current \/ g \in E
  BY <1>4 DEF SessionsOK, NamesKept
<1>5. QED BY <1>2, <1>3, <1>4 DEF SessionsOK

LEMMA FreshIsFresh ==
  \A k \in Tasks : Remembered(task[k]) \cap Fresh = {}
BY DEF Fresh

\* A step that gives no name and leaves the requests alone.
LEMMA BrokersMove ==
  ASSUME PoolInv, UNCHANGED <<createLock, task>>,
         alive' \subseteq Generations,
         sessions' \in [Generations -> SUBSET Session],
         draining' \subseteq Generations \ {Current},
         IdsKept(sessions, sessions'), NamesKept(sessions, sessions'),
         PoolKept(draining, draining', sessions'),
         \A g \in Generations \ alive' : sessions'[g] = {},
         OwnersOK(owners', sessions', draining'), overdue' \subseteq overdue,
         ReaperOK(reaper', sessions')
  PROVE  PoolInv'
<1>1. SessionsOK(sessions', draining', alive')
  <2>1. \A g \in draining \ draining' : \A s \in sessions'[g] : ~s.given
    BY DEF PoolKept
  <2>2. QED BY <2>1, SessionsStay DEF PoolInv
<1>2. ASSUME NEW k \in Tasks
      PROVE  RequestOK(task[k], sessions', draining')
  <2>1. /\ RequestOK(task[k], sessions, draining)
        /\ Remembered(task[k]) \cap Fresh = {}
    BY FreshIsFresh DEF PoolInv
  <2>2. QED BY <2>1, ListingStays, NamesStay DEF RequestOK
<1>3. QED BY <1>1, <1>2 DEF PoolInv

\* Sessions only go.
LEMMA FewerSessions ==
  ASSUME PoolInv, sessions' \in [Generations -> SUBSET Session],
         \A g \in Generations : sessions'[g] \subseteq sessions[g]
  PROVE  /\ IdsKept(sessions, sessions') /\ NamesKept(sessions, sessions')
         /\ \A g \in Generations \ alive : sessions'[g] = {}
BY DEF IdsKept, NamesKept, PoolInv, SessionsOK

LEMMA StoppedKeeps ==
  ASSUME PoolInv, NEW G \in SUBSET Generations, Stopped(G)
  PROVE  /\ sessions' \in [Generations -> SUBSET Session]
         /\ alive' \subseteq Generations
         /\ \A g \in Generations : sessions'[g] \subseteq sessions[g]
         /\ \A g \in Generations \ alive' : sessions'[g] = {}
BY DEF Stopped, PoolInv, SessionsOK

LEMMA RemovesKeeps ==
  ASSUME PoolInv, NEW r, r.gen \in Generations, Removes(r)
  PROVE  /\ sessions' \in [Generations -> SUBSET Session]
         /\ \A g \in Generations : sessions'[g] \subseteq sessions[g]
BY DEF Removes, Without, PoolInv, SessionsOK

\* A broker creates one terminal, in the current generation.
LEMMA CreatesKeeps ==
  ASSUME PoolInv, NEW r, Shape(r), r.op = "create", r.at = "send",
         r.gen \in alive, NEW t \in Fresh, NEW told \in BOOLEAN,
         Creates(r, t, told)
  PROVE  /\ sessions' \in [Generations -> SUBSET Session]
         /\ IdsKept(sessions, sessions')
         /\ \A g \in Generations \ alive : sessions'[g] = {}
         /\ \A g \in Generations \ {Current} : sessions'[g] = sessions[g]
         /\ \A s \in sessions'[Current] \ sessions[Current] :
               s.id = t /\ (s.given => told /\ s.name = r.want /\ ~r.missed)
<1>1. PICK n \in Names :
        /\ r.want \in {n, Nobody}
        /\ sessions' = [sessions EXCEPT ![r.gen] = @ \cup
               {[id |-> t, name |-> n,
                 given |-> told /\ r.want = n /\ ~r.missed]}]
  BY DEF Creates
<1> DEFINE new == [id |-> t, name |-> n,
                   given |-> told /\ r.want = n /\ ~r.missed]
<1>2. /\ r.gen = Current /\ Current \in Generations /\ t \in PoolTerminals
      /\ sessions \in [Generations -> SUBSET Session]
      /\ \A g \in Generations \ alive : sessions[g] = {}
      /\ r.missed \in BOOLEAN
  BY PoolAssumption DEF Shape, Fresh, PoolInv, SessionsOK, Request
<1>3. new \in Session /\ new.id = t /\ new.name = n
  BY <1>2 DEF Session
<1>4. /\ \A g \in Generations : sessions'[g] =
            IF g = Current THEN sessions[g] \cup {new} ELSE sessions[g]
      /\ sessions' \in [Generations -> SUBSET Session]
  <2> HIDE DEF new
  <2>1. sessions' = [sessions EXCEPT ![Current] = @ \cup {new}]
    BY <1>1, <1>2 DEF new
  <2>2. QED BY <1>2, <1>3, <2>1
<1>5. new.given => told /\ new.name = r.want /\ ~r.missed
  BY <1>2
<1> HIDE DEF new
<1>6. IdsKept(sessions, sessions')
  BY <1>2, <1>3, <1>4 DEF IdsKept
<1>7. QED BY <1>2, <1>3, <1>4, <1>5, <1>6

\* A broker renames one of its terminals.
LEMMA RenamesKeeps ==
  ASSUME PoolInv, NEW r, Shape(r), r.op = "rename", r.at = "send",
         NEW told \in BOOLEAN, Renames(r, told)
  PROVE  /\ sessions' \in [Generations -> SUBSET Session]
         /\ IdsKept(sessions, sessions')
         /\ \A g \in Generations \ alive : sessions'[g] = {}
         /\ sessions[r.gen] # {}
         /\ \A g \in Generations \ {r.gen} : sessions'[g] = sessions[g]
         /\ \A s \in sessions'[r.gen] :
               \/ s \in sessions[r.gen]
               \/ /\ s.id = r.id
                  /\ s.given => told /\ s.name = r.want /\ ~r.missed
<1> DEFINE new == [id |-> r.id, name |-> r.want, given |-> told /\ ~r.missed]
<1>1. /\ r.gen \in Generations /\ r.id \in PoolTerminals /\ r.want \in Names
      /\ r.missed \in BOOLEAN
      /\ sessions \in [Generations -> SUBSET Session]
      /\ \A g \in Generations \ alive : sessions[g] = {}
  BY DEF Shape, Request, PoolInv, SessionsOK
<1>2. /\ new \in Session /\ new.id = r.id /\ new.name = r.want
      /\ new.given => told /\ ~r.missed
  BY <1>1 DEF Session
<1>3. /\ r.id \in Ids(sessions[r.gen])
      /\ sessions' =
            [sessions EXCEPT ![r.gen] = Without(r.gen, r.id) \cup {new}]
  BY DEF Renames
<1> HIDE DEF new
<1>4. /\ \A g \in Generations : sessions'[g] =
            IF g = r.gen THEN Without(g, r.id) \cup {new} ELSE sessions[g]
      /\ \A g \in Generations : Without(g, r.id) \subseteq sessions[g]
  BY <1>1, <1>3 DEF Without
<1>5. sessions' \in [Generations -> SUBSET Session]
  BY <1>1, <1>2, <1>3, <1>4
<1>6. PICK z \in sessions[r.gen] : z.id = r.id
  BY <1>3 DEF Ids
<1>7. IdsKept(sessions, sessions')
  BY <1>2, <1>4, <1>6 DEF IdsKept
<1>8. QED BY <1>1, <1>2, <1>4, <1>5, <1>6, <1>7

\* What a broker does that nobody waits for, or its end.
LEMMA BrokerSteps ==
  ASSUME PoolInv,
         \/ \E r \in overdue : Late(r)
         \/ Shutdown
         \/ \E g \in Generations : Dies(g) \/ Prunes(g) \/ NamesItself(g)
  PROVE  PoolInv'
<1>0. /\ sessions \in [Generations -> SUBSET Session]
      /\ alive \subseteq Generations
      /\ draining \subseteq Generations \ {Current}
      /\ OwnersOK(owners, sessions, draining) /\ ReaperOK(reaper, sessions)
      /\ \A g \in Generations \ alive : sessions[g] = {}
  BY DEF PoolInv, SessionsOK
\* Nothing but the brokers changes.
<1>1. ASSUME UNCHANGED <<createLock, task, owners, reaper, draining>>,
             overdue' \subseteq overdue, alive' \subseteq Generations,
             sessions' \in [Generations -> SUBSET Session],
             IdsKept(sessions, sessions'), NamesKept(sessions, sessions'),
             \A g \in Generations \ alive' : sessions'[g] = {}
      PROVE  PoolInv'
  <2>1. PoolKept(draining, draining', sessions')
    BY <1>1 DEF PoolKept
  <2>2. OwnersOK(owners', sessions', draining') /\ ReaperOK(reaper', sessions')
    BY <1>0, <1>1, <2>1, OwnersStay, ReaperStays
  <2>3. QED BY <1>0, <1>1, <2>1, <2>2, BrokersMove
<1>2. ASSUME NEW r \in overdue, Late(r)
      PROVE  PoolInv'
  <2>1. /\ UNCHANGED <<alive, createLock, task, owners, reaper, draining>>
        /\ overdue' \subseteq overdue /\ Shape(r) /\ r.at = "send"
        /\ r.gen \in Generations
    BY <1>2 DEF Late, pool, PoolInv, Shape
  <2>2. CASE UNCHANGED sessions
    BY <1>0, <1>1, <2>1, <2>2, FewerSessions
  <2>3. CASE /\ r.gen \in alive /\ r.op = "create"
             /\ \E t \in Fresh : Creates(r, t, FALSE)
    <3>1. PICK t \in Fresh : Creates(r, t, FALSE)
      BY <2>3
    <3>2. NamesKept(sessions, sessions')
      BY <2>1, <2>3, <3>1, CreatesKeeps DEF NamesKept
    <3>3. QED BY <1>0, <1>1, <2>1, <2>3, <3>1, <3>2, CreatesKeeps
  <2>4. CASE r.op = "rename" /\ Renames(r, FALSE)
    <3>1. NamesKept(sessions, sessions')
      BY <2>1, <2>4, RenamesKeeps DEF NamesKept
    <3>2. QED BY <1>0, <1>1, <2>1, <2>4, <3>1, RenamesKeeps
  <2>5. CASE Removes(r)
    BY <1>0, <1>1, <2>1, <2>5, RemovesKeeps, FewerSessions
  <2>6. QED BY <1>2, <2>2, <2>3, <2>4, <2>5 DEF Late
<1>3. ASSUME NEW G \in SUBSET Generations, Stopped(G),
             UNCHANGED <<createLock, task, owners, reaper, draining, overdue>>
      PROVE  PoolInv'
  BY <1>1, <1>3, StoppedKeeps, FewerSessions
<1>4. CASE Shutdown
  <2>1. PICK G \in SUBSET (({Current} \cup draining) \cap alive) : Stopped(G)
    BY <1>4 DEF Shutdown
  <2>2. G \in SUBSET Generations
    BY <1>0
  <2>3. QED BY <1>3, <1>4, <2>1, <2>2 DEF Shutdown
<1>5. ASSUME NEW g \in Generations, Dies(g)
      PROVE  PoolInv'
  BY <1>3, <1>5 DEF Dies, pool
<1>6. ASSUME NEW g \in Generations, Prunes(g)
      PROVE  PoolInv'
  <2>1. PICK t \in Ids(sessions[g]) :
          sessions' = [sessions EXCEPT ![g] = Without(g, t)]
    BY <1>6 DEF Prunes
  <2>2. /\ sessions' \in [Generations -> SUBSET Session]
        /\ \A h \in Generations : sessions'[h] \subseteq sessions[h]
    BY <1>0, <2>1 DEF Without
  <2>3. QED BY <1>0, <1>1, <1>6, <2>2, FewerSessions DEF Prunes, pool
<1>7. ASSUME NEW g \in Generations, NamesItself(g)
      PROVE  PoolInv'
  <2>1. PICK s \in sessions[g], n \in Names :
          sessions' = [sessions EXCEPT ![g] = Without(g, s.id) \cup
                            {[s EXCEPT !.name = n, !.given = FALSE]}]
    BY <1>7 DEF NamesItself
  <2> DEFINE new == [s EXCEPT !.name = n, !.given = FALSE]
  <2>2. new \in Session /\ new.id = s.id /\ ~new.given
    <3>1. s \in Session
      BY <1>0
    <3>2. new \in Session /\ new.id = s.id /\ new.given = FALSE
      BY <3>1 DEF Session
    <3> HIDE DEF new
    <3>3. QED BY <3>2
  <2> HIDE DEF new
  <2>3. /\ \A h \in Generations : sessions'[h] =
              IF h = g THEN Without(h, s.id) \cup {new} ELSE sessions[h]
        /\ \A h \in Generations : Without(h, s.id) \subseteq sessions[h]
    BY <1>0, <2>1 DEF Without, new
  <2>4. sessions' \in [Generations -> SUBSET Session]
    BY <1>0, <2>1, <2>2, <2>3 DEF new
  <2>5. IdsKept(sessions, sessions') /\ NamesKept(sessions, sessions')
    BY <2>2, <2>3 DEF IdsKept, NamesKept
  <2>6. \A h \in Generations \ alive : sessions'[h] = {}
    BY <1>0, <2>3
  <2>7. QED BY <1>0, <1>1, <1>7, <2>4, <2>5, <2>6 DEF NamesItself, pool
<1>8. QED BY <1>2, <1>4, <1>5, <1>6, <1>7

\* A request the broker carries out while its caller waits.
LEMMA RequestAnswered ==
  ASSUME PoolInv, NEW k \in Tasks, Answered(k)
  PROVE  PoolInv'
<1> DEFINE r == task[k]
<1>0. /\ r \in Request /\ Shape(r) /\ r.at = "send" /\ r.gen \in alive
      /\ r.gen \in Generations /\ alive \subseteq Generations
      /\ ListingOK(r, sessions, draining) /\ NamesOK(r, sessions)
      /\ UNCHANGED <<alive, overdue, draining, reaper, owners>>
      /\ \A o \in overdue : Shape(o) /\ o.at = "send"
      /\ draining \subseteq Generations \ {Current}
      /\ OwnersOK(owners, sessions, draining) /\ ReaperOK(reaper, sessions)
      /\ task \in [Tasks -> Request]
      /\ createLock \in Tasks \cup {Nobody} /\ Nobody \notin Tasks
      /\ \A h \in Tasks : createLock = h <=> task[h].op \in Locking
      /\ PoolKept(draining, draining', sessions')
  BY PoolAssumption
  DEF Answered, PoolInv, RequestOK, Shape, pool, PoolKept
\* The other requests, when the sessions change under them.
<1>1. ASSUME IdsKept(sessions, sessions'), NEW h \in Tasks \ {k},
             NamesKept(sessions, sessions') \/ task[h].op \notin Locking
      PROVE  RequestOK(task[h], sessions', draining')
  <2>1. /\ RequestOK(task[h], sessions, draining)
        /\ Remembered(task[h]) \cap Fresh = {}
    BY FreshIsFresh DEF PoolInv
  <2>2. ListingOK(task[h], sessions', draining') /\ Shape(task[h])
    BY <1>0, <1>1, <2>1, ListingStays DEF RequestOK
  <2>3. NamesOK(task[h], sessions')
    BY <1>1, <2>1, NamesStay DEF RequestOK, NamesOK
  <2>4. QED BY <2>2, <2>3 DEF RequestOK
<1>2. ASSUME NEW q, RequestOK(q, sessions', draining'), Become(k, q),
             IF q.op \in Locking
             THEN createLock \in {k, Nobody} /\ createLock' = k
             ELSE createLock' = IF createLock = k THEN Nobody ELSE createLock,
             IdsKept(sessions, sessions'),
             NamesKept(sessions, sessions') \/ r.op \in Locking,
             SessionsOK(sessions', draining', alive')
      PROVE  PoolInv'
  <2>1. /\ q \in Request
        /\ task' = [task EXCEPT ![k] = q]
        /\ \A h \in Tasks : task'[h] = IF h = k THEN q ELSE task[h]
    BY <1>0, <1>2 DEF RequestOK, Shape, Become
  <2>2. ASSUME NEW h \in Tasks
        PROVE  RequestOK(task'[h], sessions', draining')
    BY <1>0, <1>1, <1>2, <2>1
  <2>3. /\ createLock' \in Tasks \cup {Nobody}
        /\ \A h \in Tasks : createLock' = h <=> task'[h].op \in Locking
    BY <1>0, <1>2, <2>1
  <2>4. OwnersOK(owners', sessions', draining') /\ ReaperOK(reaper', sessions')
    BY <1>0, <1>2, OwnersStay, ReaperStays
  <2>5. task' \in [Tasks -> Request]
    BY <1>0, <2>1
  <2>6. QED BY <1>0, <1>2, <2>2, <2>3, <2>4, <2>5 DEF PoolInv
<1>3. CASE /\ r.op = "create"
           /\ \E t \in Fresh : /\ Creates(r, t, TRUE)
                               /\ GoesOn(k, [r EXCEPT !.at = "cache", !.id = t])
  <2>1. PICK t \in Fresh :
          Creates(r, t, TRUE) /\ GoesOn(k, [r EXCEPT !.at = "cache", !.id = t])
    BY <1>3
  <2> DEFINE q == [r EXCEPT !.at = "cache", !.id = t]
  <2>2. /\ sessions' \in [Generations -> SUBSET Session]
        /\ IdsKept(sessions, sessions')
        /\ \A g \in Generations \ alive : sessions'[g] = {}
        /\ \A g \in Generations \ {Current} : sessions'[g] = sessions[g]
        /\ \A s \in sessions'[Current] \ sessions[Current] :
               s.id = t /\ (s.given => s.name = r.want /\ ~r.missed)
    BY <1>0, <1>3, <2>1, CreatesKeeps
  <2>3. t \in PoolTerminals /\ r.id = Nobody /\ r.gen = Current
    BY <1>0, <1>3 DEF Fresh, Shape
  <2>4. \A g \in Generations : \A s \in sessions[g] :
          /\ s.id \in PoolTerminals /\ s.id # t
          /\ s.given => g = Current \/ g \in draining
          /\ s.given /\ ~r.missed => s.name # r.want
    <3>1. \A g \in Generations : \A s \in sessions[g] :
            /\ s.id \in PoolTerminals /\ s.id # t
            /\ s.given => g = Current \/ g \in draining
      BY DEF Fresh, Held, Ids, SessionsIn, PoolInv, SessionsOK, Session
    <3>2. QED BY <1>0, <1>3, <2>3, <3>1, PoolAssumption DEF NamesOK, Locking
  <2> DEFINE New == sessions'[Current] \ sessions[Current]
  <2>5. SessionsOK(sessions', draining', alive')
    <3>0. ASSUME NEW g \in Generations, NEW s \in sessions'[g]
          PROVE  s \in sessions[g] \/ (g = Current /\ s \in New)
      <4>1. CASE g = Current
        BY <4>1
      <4>2. CASE g # Current
        BY <2>2, <4>2
      <4>3. QED BY <4>1, <4>2
    <3>1. ASSUME NEW g \in Generations, NEW h \in Generations,
                 NEW s \in sessions'[g], NEW z \in sessions'[h]
          PROVE  /\ s.id = z.id => g = h
                 /\ s.given /\ z.given /\ s.id # z.id => s.name # z.name
      <4>1. /\ s \in sessions[g] \/ (g = Current /\ s \in New)
            /\ z \in sessions[h] \/ (h = Current /\ z \in New)
        BY <3>0
      <4>2. s \in sessions[g] /\ z \in sessions[h] =>
              /\ s.id = z.id => g = h
              /\ s.given /\ z.given /\ s.id # z.id => s.name # z.name
        BY DEF PoolInv, SessionsOK
      <4>3. QED BY <4>1, <4>2, <2>2, <2>4
    <3>2. ASSUME NEW g \in Generations, NEW s \in sessions'[g], s.given
          PROVE  g = Current \/ g \in draining'
      BY <1>0, <2>2, <2>4, <3>2
    <3>3. QED BY <1>0, <2>2, <3>1, <3>2 DEF SessionsOK
  <2>6. /\ q \in Request /\ q.op = r.op /\ q.at = "cache" /\ q.id = t
        /\ q.want = r.want /\ q.gen = r.gen /\ q.todo = r.todo
        /\ q.listed = r.listed
    <3> HIDE DEF r
    <3>1. QED BY <1>0, <2>3 DEF Request
  <2>7. RequestOK(q, sessions', draining')
    <3>1. Shape(q) /\ NamesOK(q, sessions')
      BY <1>0, <1>3, <2>3, <2>6 DEF Shape, NamesOK
    <3>2. ListingOK(q, sessions', draining')
      BY <1>0, <2>2, <2>6, PooledStays DEF ListingOK, Request
    <3>3. QED BY <3>1, <3>2 DEF RequestOK
  <2>8. QED
    BY <1>0, <1>2, <1>3, <2>1, <2>2, <2>5, <2>6, <2>7
    DEF GoesOn, Locking
<1>4. CASE r.op = "rename" /\ Renames(r, TRUE) /\ Ends(k)
  <2>2. /\ sessions' \in [Generations -> SUBSET Session]
        /\ IdsKept(sessions, sessions')
        /\ \A g \in Generations \ alive : sessions'[g] = {}
        /\ sessions[r.gen] # {}
        /\ \A g \in Generations \ {r.gen} : sessions'[g] = sessions[g]
        /\ \A s \in sessions'[r.gen] :
               \/ s \in sessions[r.gen]
               \/ s.id = r.id /\ (s.given => s.name = r.want /\ ~r.missed)
    <3>1. Renames(r, TRUE) /\ TRUE \in BOOLEAN
      BY <1>4
    <3> HIDE DEF r
    <3>2. QED BY <1>0, <1>4, <3>1, RenamesKeeps
  <2>3. r.gen = Current \/ r.gen \in draining
    BY <1>0, <2>2 DEF ListingOK, Pooled
  <2>4. \A g \in Generations : \A s \in sessions[g] :
          /\ s.given => g = Current \/ g \in draining
          /\ s.given /\ s.id # r.id /\ ~r.missed => s.name # r.want
    BY <1>0, <1>4 DEF NamesOK, Locking, PoolInv, SessionsOK
  <2>5. SessionsOK(sessions', draining', alive')
    <3>1. ASSUME NEW g \in Generations, NEW h \in Generations,
                 NEW s \in sessions'[g], NEW z \in sessions'[h], s.id = z.id
          PROVE  g = h
      <4>1. /\ (\E s0 \in sessions[g] : s0.id = s.id)
            /\ (\E z0 \in sessions[h] : z0.id = z.id)
        BY <2>2, <1>4 DEF Renames, Ids
      <4>2. QED BY <3>1, <4>1 DEF PoolInv, SessionsOK
    <3>2. ASSUME NEW g \in Generations, NEW h \in Generations,
                 NEW s \in sessions'[g], NEW z \in sessions'[h],
                 s.given, z.given, s.id # z.id
          PROVE  s.name # z.name
      <4>0. ASSUME NEW f \in Generations, NEW y \in sessions'[f], y.given
            PROVE  \/ y \in sessions[f]
                   \/ y.id = r.id /\ y.name = r.want /\ ~r.missed
        <5>1. CASE f = r.gen
          BY <2>2, <4>0, <5>1
        <5>2. CASE f # r.gen
          BY <2>2, <5>2
        <5>3. QED BY <5>1, <5>2
      <4>1. /\ \/ s \in sessions[g]
               \/ s.id = r.id /\ s.name = r.want /\ ~r.missed
            /\ \/ z \in sessions[h]
               \/ z.id = r.id /\ z.name = r.want /\ ~r.missed
        BY <3>2, <4>0
      <4>2. s \in sessions[g] /\ z \in sessions[h] => s.name # z.name
        BY <3>2 DEF PoolInv, SessionsOK
      <4>3. QED BY <2>4, <3>2, <4>1, <4>2
    <3>3. ASSUME NEW g \in Generations, NEW s \in sessions'[g], s.given
          PROVE  g = Current \/ g \in draining'
      BY <1>0, <2>2, <2>3, <2>4, <3>3
    <3>4. QED BY <1>0, <2>2, <3>1, <3>2, <3>3 DEF SessionsOK
  <2>6. QED BY <1>0, <1>2, <1>4, <2>2, <2>5, IdleIsOK DEF Ends, Locking
<1>5. CASE /\ r.op = "forward" /\ Removes(r)
           /\ GoesOn(k, [r EXCEPT !.at = "cache"])
  <2> DEFINE q == [r EXCEPT !.at = "cache"]
  <2>1. /\ sessions' \in [Generations -> SUBSET Session]
        /\ IdsKept(sessions, sessions') /\ NamesKept(sessions, sessions')
        /\ \A g \in Generations \ alive : sessions'[g] = {}
    BY <1>0, <1>5, RemovesKeeps, FewerSessions
  <2>2. SessionsOK(sessions', draining', alive')
    <3>1. \A g \in draining \ draining' : \A s \in sessions'[g] : ~s.given
      BY <1>0
    <3>2. QED BY <1>0, <2>1, <3>1, SessionsStay DEF PoolInv
  <2>3. /\ q \in Request /\ q.op = r.op /\ q.at = "cache" /\ q.id = r.id
        /\ q.want = r.want /\ q.gen = r.gen /\ q.todo = r.todo
        /\ q.listed = r.listed
    <3> HIDE DEF r
    <3>1. QED BY <1>0 DEF Request
  <2>4. RequestOK(q, sessions', draining')
    <3>1. Shape(q) /\ NamesOK(q, sessions')
      BY <1>0, <1>5, <2>3 DEF Shape, NamesOK, Locking
    <3>2. ListingOK(q, sessions', draining')
      BY <1>0, <2>1, <2>3, PooledStays DEF ListingOK, Request
    <3>3. QED BY <3>1, <3>2 DEF RequestOK
  <2>5. QED BY <1>0, <1>2, <1>5, <2>1, <2>2, <2>3, <2>4 DEF GoesOn, Locking
<1>6. QED BY <1>3, <1>4, <1>5 DEF Answered

\* The reaper takes only generations out of the pool in which nothing is left.
LEMMA ReaperSteps ==
  ASSUME PoolInv, Retire
  PROVE  PoolInv'
<1>0. /\ sessions \in [Generations -> SUBSET Session]
      /\ alive \subseteq Generations
      /\ draining \subseteq Generations \ {Current}
      /\ OwnersOK(owners, sessions, draining) /\ ReaperOK(reaper, sessions)
      /\ reaper \in
            [at : {"asleep", "asking", "forget", "drop", "stop", "settle"},
             todo : SUBSET (Generations \ {Current}),
             gen : Generations \cup {Nobody}]
      /\ \A g \in Generations \ alive : sessions[g] = {}
      /\ PoolKept(draining, draining, sessions)
      /\ IdsKept(sessions, sessions) /\ NamesKept(sessions, sessions)
  BY DEF PoolInv, SessionsOK, ReaperOK, PoolKept, IdsKept, NamesKept
<1>1. UNCHANGED <<task, createLock, overdue>>
  BY DEF Retire, Wakes, AskEmpty, Forget, Stop, Settle, Reaps, brokers
\* What moves the reaper alone.
<1>2. ASSUME UNCHANGED <<alive, sessions, draining, owners>>,
             ReaperOK(reaper', sessions)
      PROVE  PoolInv'
  BY <1>0, <1>1, <1>2, BrokersMove
<1>3. ReaperOK(NextOne(reaper), sessions)
  BY <1>0 DEF NextOne, ReaperOK
<1>4. CASE Wakes
  <2>1. reaper' = [Asleep EXCEPT !.at = "asking", !.todo = draining]
    BY <1>4 DEF Wakes, Reaps
  <2>2. ReaperOK(reaper', sessions)
    BY <1>0, <2>1 DEF ReaperOK, Asleep
  <2>3. QED BY <1>2, <1>4, <2>2 DEF Wakes, brokers
<1>5. CASE AskEmpty
  <2>1. UNCHANGED <<alive, sessions, draining, owners>>
    BY <1>5 DEF AskEmpty, brokers
  <2>2. CASE reaper' = Asleep
    BY <1>2, <2>1, <2>2 DEF ReaperOK, Asleep
  <2> DEFINE rest(g) == [reaper EXCEPT !.todo = @ \ {g}]
  <2>3. ASSUME NEW g \in reaper.todo
        PROVE  /\ reaper.at = "asking" => ReaperOK(rest(g), sessions)
               /\ sessions[g] = {} =>
                    /\ ReaperOK([rest(g) EXCEPT !.at = "forget", !.gen = g],
                                sessions)
                    /\ ReaperOK([rest(g) EXCEPT !.at = "drop", !.gen = g],
                                sessions)
    BY <1>0 DEF ReaperOK
  <2>4. \/ reaper' = Asleep
        \/ \E g \in reaper.todo :
             \/ reaper' = rest(g)
             \/ /\ sessions[g] = {}
                /\ \/ reaper' = [rest(g) EXCEPT !.at = "forget", !.gen = g]
                   \/ reaper' = [rest(g) EXCEPT !.at = "drop", !.gen = g]
    <3>1. \A g \in reaper.todo : g \in Generations
      BY <1>0
    <3>2. QED BY <1>0, <1>5, <3>1 DEF AskEmpty, Reaps, Forgettable, SocketGone
  <2>5. reaper.at = "asking"
    BY <1>5 DEF AskEmpty
  <2>6. QED BY <1>2, <2>1, <2>2, <2>3, <2>4, <2>5
<1>6. CASE Forget
  <2>1. /\ UNCHANGED <<alive, sessions, owners>>
        /\ draining' = draining \ {reaper.gen}
        /\ \/ reaper' = NextOne(reaper)
           \/ reaper' = [reaper EXCEPT !.at = "stop"]
           \/ reaper' = [reaper EXCEPT !.at = "settle"]
        /\ reaper.at \in {"forget", "drop"}
    BY <1>6 DEF Forget, Reaps, brokers
  <2>2. reaper.gen \in Generations \ {Current} /\ sessions[reaper.gen] = {}
    BY <1>0, <2>1 DEF ReaperOK
  <2>3. ReaperOK(reaper', sessions)
    BY <1>0, <1>3, <2>1, <2>2 DEF ReaperOK
  <2>4. PoolKept(draining, draining', sessions)
    BY <2>1, <2>2 DEF PoolKept
  <2>5. OwnersOK(owners, sessions, draining')
    BY <1>0, <2>4, OwnersStay
  <2>6. QED BY <1>0, <1>1, <2>1, <2>3, <2>4, <2>5, BrokersMove
<1>7. CASE Stop
  <2>0. /\ reaper.at = "stop" /\ owners' = owners
        /\ reaper.gen \in Generations \ {Current}
        /\ {reaper.gen} \in SUBSET Generations
    BY <1>0, <1>7 DEF Stop, ReaperOK
  <2>1. /\ \/ reaper' = [reaper EXCEPT !.at = "settle"]
           \/ reaper' = NextOne(reaper)
        /\ draining' \in {draining, draining \cup {reaper.gen}}
        /\ Stopped({reaper.gen}) \/ UNCHANGED <<alive, sessions>>
    BY <1>7 DEF Stop, Reaps
  <2>2. /\ sessions' \in [Generations -> SUBSET Session]
        /\ alive' \subseteq Generations
        /\ \A g \in Generations : sessions'[g] \subseteq sessions[g]
        /\ \A g \in Generations \ alive' : sessions'[g] = {}
    BY <1>0, <2>0, <2>1, StoppedKeeps
  <2>3. IdsKept(sessions, sessions') /\ NamesKept(sessions, sessions')
    BY <2>2, FewerSessions
  <2>4. ReaperOK(reaper', sessions')
    <3>1. ReaperOK(reaper', sessions)
      BY <1>0, <1>3, <2>0, <2>1 DEF ReaperOK
    <3>2. QED BY <2>3, <3>1, ReaperStays
  <2>5. /\ PoolKept(draining, draining', sessions')
        /\ draining' \subseteq Generations \ {Current}
    BY <1>0, <2>0, <2>1 DEF PoolKept
  <2>6. OwnersOK(owners', sessions', draining')
    BY <1>0, <2>0, <2>3, <2>5, OwnersStay
  <2>7. QED BY <1>1, <2>2, <2>3, <2>4, <2>5, <2>6, BrokersMove
<1>8. CASE Settle
  <2>1. /\ UNCHANGED <<alive, sessions, draining>> /\ reaper' = NextOne(reaper)
        /\ owners' = Restrict(owners,
                         {t \in DOMAIN owners : owners[t] # reaper.gen})
    BY <1>8 DEF Settle, Reaps, brokers
  <2>2. OwnersOK(owners', sessions, draining)
    BY <1>0, <2>1 DEF OwnersOK, Restrict
  <2>3. QED BY <1>0, <1>1, <1>3, <2>1, <2>2, BrokersMove
<1>9. QED BY <1>4, <1>5, <1>6, <1>7, <1>8 DEF Retire

\* The server comes back: no request survives, and what a broker left out of the
\* pool knows counts as given no more.
LEMMA ServerRestarts ==
  ASSUME PoolInv, ConnectOrStart
  PROVE  PoolInv'
<1>0. /\ sessions \in [Generations -> SUBSET Session]
      /\ alive \subseteq Generations
      /\ \A g \in Generations \ alive : sessions[g] = {}
      /\ Current \in Generations /\ task \in [Tasks -> Request]
      /\ \A r \in overdue : Shape(r) /\ r.at = "send"
      /\ \A k \in Tasks : Shape(task[k])
  BY PoolAssumption DEF PoolInv, SessionsOK, RequestOK
<1>1. /\ alive' = alive \cup {Current} /\ draining' \subseteq alive \ {Current}
      /\ owners' = <<>> /\ createLock' = Nobody
      /\ overdue' = overdue \cup {r \in Range(task) : Unheard(r)}
      /\ task' = [k \in Tasks |-> Idle]
      /\ reaper' = [Asleep EXCEPT !.at = "asking", !.todo = draining']
      /\ sessions' = [g \in Generations |->
           {[s EXCEPT !.given = @ /\ g \in draining' \cup {Current}] :
                s \in sessions[g]}]
  BY DEF ConnectOrStart
<1>2. ASSUME NEW g \in Generations, NEW s \in sessions'[g]
      PROVE  /\ s \in Session
             /\ \E z \in sessions[g] :
                  z.id = s.id /\ (s.given => z.given /\ z.name = s.name)
             /\ s.given => g \in draining' \cup {Current}
  <2>1. PICK z \in sessions[g] :
          s = [z EXCEPT !.given = @ /\ g \in draining' \cup {Current}]
    BY <1>1
  <2>2. z \in Session
    BY <1>0
  <2>3. s \in Session /\ s.id = z.id /\ s.name = z.name
    BY <2>1, <2>2 DEF Session
  <2>4. s.given = (z.given /\ g \in draining' \cup {Current})
    BY <2>1, <2>2 DEF Session
  <2>5. s.given => z.given /\ g \in draining' \cup {Current}
    BY <2>4
  <2>6. QED BY <2>3, <2>5
<1>3. sessions' \in [Generations -> SUBSET Session]
  <2>1. sessions' = [g \in Generations |-> sessions'[g]]
    BY <1>1
  <2>2. QED BY <1>2, <2>1
<1>4. IdsKept(sessions, sessions') /\ NamesKept(sessions, sessions')
  BY <1>2 DEF IdsKept, NamesKept
<1>5. /\ \A g \in Generations \ alive' : sessions'[g] = {}
      /\ \A g \in draining \ draining' : \A s \in sessions'[g] : ~s.given
      /\ alive' \subseteq Generations
      /\ draining' \subseteq Generations \ {Current}
  <2>1. draining \subseteq Generations \ {Current}
    BY DEF PoolInv
  <2>2. QED BY <1>0, <1>1, <1>2, <2>1
<1>6. SessionsOK(sessions', draining', alive')
  BY <1>3, <1>4, <1>5, SessionsStay DEF PoolInv
<1>7. OwnersOK(owners', sessions', draining') /\ ReaperOK(reaper', sessions')
  <2>1. DOMAIN owners' = {}
    BY <1>1
  <2>2. QED BY <1>1, <1>5, <2>1 DEF OwnersOK, ReaperOK, Asleep
<1>8. \A r \in overdue' : Shape(r) /\ r.at = "send"
  <2>1. \A r \in Range(task) : \E k \in Tasks : r = task[k]
    BY <1>0 DEF Range
  <2>2. QED BY <1>0, <1>1, <2>1 DEF Unheard
<1>9. /\ task' \in [Tasks -> Request]
      /\ \A k \in Tasks : RequestOK(task'[k], sessions', draining')
      /\ createLock' \in Tasks \cup {Nobody}
      /\ \A k \in Tasks : createLock' = k <=> task'[k].op \in Locking
  BY <1>1, IdleIsOK, PoolAssumption
<1>10. QED BY <1>5, <1>6, <1>7, <1>8, <1>9 DEF PoolInv

LEMMA PoolStarts == PoolInit => PoolInv
<1>1. SUFFICES ASSUME PoolInit PROVE PoolInv
  OBVIOUS
<1>2. /\ alive = Generations /\ draining = Generations \ {Current}
      /\ owners = <<>> /\ createLock = Nobody /\ overdue = {}
      /\ task = [k \in Tasks |-> Idle]
      /\ reaper = [Asleep EXCEPT !.at = "asking", !.todo = draining]
      /\ \A g, f \in Generations : g # f =>
            Ids(sessions[g]) \cap Ids(sessions[f]) = {}
  BY <1>1 DEF PoolInit
<1>3. /\ sessions \in [Generations -> SUBSET Session]
      /\ \A g \in Generations : \A s \in sessions[g] : s.given = FALSE
  <2> DEFINE ones == {{[id |-> t, name |-> n, given |-> FALSE]} :
                         t \in PoolTerminals, n \in Names}
  <2>1. \A S \in ones : S \subseteq Session /\ \A s \in S : s.given = FALSE
    <3>1. ASSUME NEW t \in PoolTerminals, NEW n \in Names
          PROVE  /\ [id |-> t, name |-> n, given |-> FALSE] \in Session
                 /\ [id |-> t, name |-> n, given |-> FALSE].given = FALSE
      BY DEF Session
    <3>2. ASSUME NEW S \in ones
          PROVE  \E t \in PoolTerminals, n \in Names :
                    S = {[id |-> t, name |-> n, given |-> FALSE]}
      OBVIOUS
    <3>3. QED BY <3>1, <3>2
  <2> HIDE DEF ones
  <2>2. sessions \in [Generations -> {{}} \cup ones]
    BY <1>1 DEF PoolInit, ones
  <2>3. QED BY <2>1, <2>2
<1>4. SessionsOK(sessions, draining, alive)
  <2>1. ASSUME NEW g \in Generations, NEW h \in Generations,
               NEW s \in sessions[g], NEW z \in sessions[h], s.id = z.id
        PROVE  g = h
    <3>1. s.id \in Ids(sessions[g]) /\ z.id \in Ids(sessions[h])
      BY DEF Ids
    <3>2. QED BY <1>2, <2>1, <3>1
  <2>2. QED BY <1>2, <1>3, <2>1 DEF SessionsOK
<1>5. OwnersOK(owners, sessions, draining) /\ ReaperOK(reaper, sessions)
  <2>1. DOMAIN owners = {}
    BY <1>2
  <2>2. QED BY <1>2, <2>1 DEF OwnersOK, ReaperOK, Asleep
<1>6. QED BY <1>2, <1>4, <1>5, IdleIsOK, PoolAssumption DEF PoolInv

LEMMA PoolStep ==
  ASSUME PoolInv, [PoolNext]_poolVars
  PROVE  PoolInv'
<1>1. CASE UNCHANGED poolVars
  BY <1>1 DEF poolVars, PoolInv
<1>2. CASE PoolNext
  BY <1>2, RequestBegins, RequestAsks, RequestListed, RequestFindsOwner,
     RequestAnswered, RequestLeaves, BrokerSteps, ReaperSteps, ServerRestarts
  DEF PoolNext, TaskNext
<1>3. QED BY <1>1, <1>2

\* The pool's state is of its type, a generation that died holds nothing, and the
\* create lock is held by exactly the request that creates or renames.
THEOREM PoolTypesHold == PoolSpec => []PoolTypeOK
<1>1. PoolInv => PoolTypeOK
  BY DEF PoolInv, PoolTypeOK, SessionsOK, OwnersOK, Range, Locking
<1>2. QED BY <1>1, PoolStarts, PoolStep, PTL DEF PoolSpec

\* A listing every generation answered shows every terminal that was there when it
\* began and still is, and two terminals never share a name that users gave them:
\* over any interleaving of requests, callers that give up, brokers that die or
\* stay silent, the retirement of generations and restarts of the server (list,
\* create, rename, retire_empty_brokers of broker.rs).
THEOREM PoolStaysSound == PoolSpec => []PoolSound
<1>1. PoolInv => ListingComplete
  <2>1. SUFFICES ASSUME PoolInv, NEW k \in Tasks, task[k].at = "listing",
                        task[k].todo = {}, ~task[k].missed,
                        NEW t \in task[k].expect \cap Held
                 PROVE  t \in Ids(task[k].listed)
    BY DEF ListingComplete
  <2>2. PICK g \in Generations : \E s \in sessions[g] : s.id = t
    BY <2>1 DEF Held, Ids, SessionsIn
  <2>3. ListingOK(task[k], sessions, draining)
    BY <2>1 DEF PoolInv, RequestOK
  <2>4. \E e \in task[k].listed : e.id = t
    BY <2>1, <2>2, <2>3 DEF ListingOK
  <2>5. QED BY <2>4 DEF Ids
<1>2. PoolInv => GivenNamesUnique
  BY DEF PoolInv, SessionsOK, GivenNamesUnique, SessionsIn
<1>3. QED BY <1>1, <1>2, PoolStarts, PoolStep, PTL DEF PoolSpec, PoolSound

(***************************************************************************)
(* Login attempts. A client that is told to wait is told at least what is  *)
(* left of its window, and both run down together.                         *)
(***************************************************************************)
LimiterInv ==
    /\ \A c \in DOMAIN windows :
          /\ windows[c] = [attempts |-> windows[c].attempts,
                           left |-> windows[c].left]
          /\ windows[c].attempts \in Nat /\ windows[c].left \in Nat
    /\ \A c \in DOMAIN wait : wait[c] \in Nat
    /\ \A c \in DOMAIN windows \cap DOMAIN wait : windows[c].left <= wait[c]

\* WaitIsEnough, of one step.
Waited == \A c \in DOMAIN wait \cap DOMAIN wait' : wait[c] = 0 => wait'[c] = 0

LEMMA LimiterStarts == LimiterInit => LimiterInv
  BY DEF LimiterInit, LimiterInv

LEMMA LimiterStep ==
  ASSUME LimiterInv, [LimiterNext]_limiterVars
  PROVE  LimiterInv' /\ Waited
<1>0. /\ Window \in Nat \ {0} /\ Allowed \in Nat \ {0}
      /\ Widest \in Nat /\ Widest > Allowed
      /\ \A n \in Nat : Counted(n) \in Nat
      /\ Counted(0) = 1
  BY LimiterAssumption DEF Counted
<1>1. CASE UNCHANGED limiterVars
  BY <1>1 DEF limiterVars, LimiterInv, Waited
<1>2. CASE Tick
  BY <1>2 DEF Tick, LimiterInv, Waited
<1>3. ASSUME NEW c \in Clients, Reset(c)
      PROVE  LimiterInv' /\ Waited
  BY <1>3 DEF Reset, LimiterInv, Waited, Restrict
<1>4. ASSUME NEW c \in Clients, Consume(c)
      PROVE  LimiterInv' /\ Waited
  <2>1. PICK evicted \in Evicted(c) :
        LET kept == Restrict(windows, Open \ evicted)
            before == IF c \in Open THEN windows[c]
                                    ELSE [attempts |-> 0, left |-> Window]
            after == [before EXCEPT !.attempts = Counted(@)]
            admitted == after.attempts <= Allowed IN
        /\ windows' = [x \in DOMAIN kept \cup {c} |->
                          IF x = c THEN after ELSE kept[x]]
        /\ wait' = IF admitted THEN Restrict(wait, DOMAIN wait \ {c})
                   ELSE [x \in DOMAIN wait \cup {c} |->
                            IF x # c THEN wait[x]
                            ELSE IF after.left > 1 THEN after.left ELSE 1]
    BY <1>4 DEF Consume
  <2> DEFINE before == IF c \in Open THEN windows[c]
                                    ELSE [attempts |-> 0, left |-> Window]
             after == [before EXCEPT !.attempts = Counted(@)]
  <2>2. /\ after = [attempts |-> after.attempts, left |-> after.left]
        /\ after.attempts \in Nat /\ after.left \in Nat
        /\ c \notin Open => after.attempts = 1
    <3>1. /\ before = [attempts |-> before.attempts, left |-> before.left]
          /\ before.attempts \in Nat /\ before.left \in Nat
          /\ c \notin Open => before.attempts = 0
      BY <1>0 DEF LimiterInv, Open
    <3> HIDE DEF before
    <3>2. after = [attempts |-> Counted(before.attempts), left |-> before.left]
      BY <3>1
    <3>3. QED BY <1>0, <3>1, <3>2
  <2>3. /\ DOMAIN windows' = (Open \ evicted) \cup {c} /\ windows'[c] = after
        /\ \A x \in (Open \ evicted) \ {c} : windows'[x] = windows[x]
        /\ Open \subseteq DOMAIN windows
    BY <2>1 DEF Restrict, Open
  <2> HIDE DEF after
  <2>4. /\ DOMAIN wait' \subseteq DOMAIN wait \cup {c}
        /\ \A x \in DOMAIN wait' \ {c} : wait'[x] = wait[x]
        /\ c \in DOMAIN wait' =>
             /\ after.attempts > Allowed
             /\ wait'[c] = IF after.left > 1 THEN after.left ELSE 1
    <3>1. CASE after.attempts <= Allowed
      <4>1. wait' = Restrict(wait, DOMAIN wait \ {c})
        BY <2>1, <3>1 DEF after
      <4>2. QED BY <4>1 DEF Restrict
    <3>2. CASE ~(after.attempts <= Allowed)
      <4>1. wait' = [x \in DOMAIN wait \cup {c} |->
                            IF x # c THEN wait[x]
                            ELSE IF after.left > 1 THEN after.left ELSE 1]
        BY <2>1, <3>2 DEF after
      <4>2. QED BY <1>0, <2>2, <3>2, <4>1
    <3>3. QED BY <3>1, <3>2
  <2>5. LimiterInv'
    BY <2>2, <2>3, <2>4 DEF LimiterInv
  <2>6. Waited
    <3>1. c \in DOMAIN wait' => c \in Open
      BY <1>0, <2>2, <2>4
    <3>2. c \in Open => windows[c].left > 0
      BY DEF Open
    <3>3. c \in DOMAIN wait \cap DOMAIN wait' => wait[c] # 0
      BY <3>1, <3>2, <2>3 DEF LimiterInv
    <3>4. QED BY <2>4, <3>3 DEF Waited
  <2>7. QED BY <2>5, <2>6
<1>5. QED BY <1>1, <1>2, <1>3, <1>4 DEF LimiterNext

\* A client that was refused, and waits as long as it was told, is admitted, for
\* any number of clients, attempts and evictions (LoginLimiter::consume).
THEOREM LimiterAdmits == LimiterSpec => WaitIsEnough
  BY LimiterStarts, LimiterStep, PTL DEF LimiterSpec, WaitIsEnough, Waited

(***************************************************************************)
(* Settings. The age retain keeps of a missing terminal is never more than *)
(* the time since a listing had it.                                        *)
(***************************************************************************)
RetainState ==
    [at : {"idle", "called", "observing", "ages", "observations", "settings",
           "missing"},
     live : SUBSET Terminals, known : SUBSET Terminals,
     expired : SUBSET Terminals]
Missing == UNION {[D -> 0..Grace] : D \in SUBSET Terminals}

SettingsTypes ==
    /\ present \subseteq born /\ born \subseteq Terminals
    /\ observations \subseteq born
    /\ settings \in Settings /\ disk \in Settings /\ rogue \in Settings
    /\ missing \in Missing
    /\ seen \in [Terminals -> 0..Grace]
    /\ checked \in born \cup {NoTarget}
    /\ agent \in [Agents -> born \cup {NoTarget}]
    /\ retain \in [Threads -> RetainState]
    /\ \A k \in Threads :
          IF retain[k].at \in {"idle", "called", "observing", "ages"}
          THEN retain[k].expired = {}
          ELSE retain[k].expired \subseteq retain[k].known

AgesTrue == \A t \in DOMAIN missing : missing[t] <= seen[t]

SettingsInv == SettingsTypes /\ FileMatches /\ AgesTrue

\* GraceKept, of one step.
GivesUpLate ==
    \A k \in Threads :
        retain[k].at = "ages" /\ retain'[k].at = "observations" =>
            \A t \in retain'[k].expired : seen[t] >= Grace

LEMMA MissingShape ==
  /\ \A f \in Missing : DOMAIN f \subseteq Terminals
                        /\ \A t \in DOMAIN f : f[t] \in 0..Grace
  /\ \A D \in SUBSET Terminals : [D -> 0..Grace] \subseteq Missing
BY DEF Missing

LEMMA SettingsShape ==
  /\ \A f \in Settings : DOMAIN f \subseteq Terminals
                         /\ \A t \in DOMAIN f : f[t] \in Choices
  /\ \A D \in SUBSET Terminals : [D -> Choices] \subseteq Settings
BY DEF Settings

LEMMA ChosenIsSettings ==
  ASSUME NEW f \in Settings, NEW t \in Terminals, NEW c \in Choices \cup {Default}
  PROVE  Chosen(t, c, f) \in Settings
<1> DEFINE D == IF c = Default THEN DOMAIN f \ {t} ELSE DOMAIN f \cup {t}
<1>1. D \in SUBSET Terminals
  BY SettingsShape
<1>2. \A x \in D : (IF x = t THEN c ELSE f[x]) \in Choices
  BY SettingsShape
<1>3. Chosen(t, c, f) \in [D -> Choices]
  BY <1>2 DEF Chosen
<1>4. QED BY <1>1, <1>3, SettingsShape

\* What a change leaves of memory and file, whether its write succeeds, fails, or
\* fails after the file was replaced.
LEMMA Modifies ==
  ASSUME NEW f \in Settings, SettingsInv, Modify(f)
  PROVE  /\ settings' \in Settings /\ disk' \in Settings /\ rogue' \in Settings
         /\ FileMatches'
BY DEF Modify, Store, SettingsInv, SettingsTypes, FileMatches

LEMMA SettingsStarts == SettingsInit => SettingsInv
<1>1. SUFFICES ASSUME SettingsInit PROVE SettingsInv
  OBVIOUS
<1>2. <<>> \in [{} -> Choices] /\ <<>> \in [{} -> 0..Grace] /\ DOMAIN <<>> = {}
  OBVIOUS
<1>3. <<>> \in Settings /\ <<>> \in Missing
  BY <1>2, SettingsShape, MissingShape
<1>4. QED
  BY <1>1, <1>2, <1>3, SettingsAssumption
  DEF SettingsInit, SettingsInv, SettingsTypes, FileMatches, AgesTrue,
      RetainState, NotRetaining

\* What a call of retain may hold in each of its states.
Consistent(r) ==
    /\ r \in RetainState
    /\ IF r.at \in {"idle", "called", "observing", "ages"} THEN r.expired = {}
       ELSE r.expired \subseteq r.known

LEMMA RetainGoesOn ==
  ASSUME SettingsInv, NEW k \in Threads, NEW r, Consistent(r), Retaining(k, r)
  PROVE  /\ retain' \in [Threads -> RetainState]
         /\ \A j \in Threads : Consistent(retain'[j])
         /\ r.at # "observations" => GivesUpLate
BY DEF Retaining, SettingsInv, SettingsTypes, GivesUpLate, Consistent

\* A call of retain, but for its look at the ages.
LEMMA RetainMoves ==
  ASSUME SettingsInv, NEW k \in Threads,
         \/ Lists(k) \/ ReadsSettings(k) \/ ReadsObservations(k)
         \/ DropObservations(k) \/ DropSettings(k) \/ DropMissing(k)
  PROVE  SettingsInv' /\ GivesUpLate
<1>0. Consistent(retain[k])
  BY DEF SettingsInv, SettingsTypes, Consistent, RetainState
<1>1. Consistent(NotRetaining) /\ NotRetaining.at = "idle"
  BY DEF Consistent, RetainState, NotRetaining
<1>2. ASSUME NEW r, Consistent(r), r.at # "observations", Retaining(k, r),
             UNCHANGED <<present, born, settings, observations, missing, disk,
                         rogue, checked, agent, seen>>
      PROVE  SettingsInv' /\ GivesUpLate
  BY <1>2, RetainGoesOn
  DEF SettingsInv, SettingsTypes, FileMatches, AgesTrue, Consistent
<1>3. ASSUME Lists(k)
      PROVE  SettingsInv' /\ GivesUpLate
  <2>1. PICK S \in SUBSET (Drained \cap present) :
           Retaining(k, [NotRetaining EXCEPT !.at = "called",
                                             !.live = present \ S])
    BY <1>3 DEF Lists
  <2> DEFINE r == [NotRetaining EXCEPT !.at = "called", !.live = present \ S]
  <2>2. Consistent(r) /\ r.at # "observations"
    BY DEF SettingsInv, SettingsTypes, RetainState, NotRetaining, Consistent
  <2>3. QED BY <1>2, <1>3, <2>1, <2>2 DEF Lists
<1>4. ASSUME ReadsSettings(k)
      PROVE  SettingsInv' /\ GivesUpLate
  <2> DEFINE r == [retain[k] EXCEPT !.at = "observing",
                                    !.known = DOMAIN settings \ retain[k].live]
  <2>1. retain[k].at = "called" /\ Retaining(k, r)
    BY <1>4 DEF ReadsSettings
  <2>2. Consistent(r) /\ r.at # "observations"
    BY <1>0, <2>1, SettingsShape
    DEF SettingsInv, SettingsTypes, RetainState, Consistent
  <2>3. QED BY <1>2, <1>4, <2>1, <2>2 DEF ReadsSettings
<1>5. ASSUME ReadsObservations(k)
      PROVE  SettingsInv' /\ GivesUpLate
  <2> DEFINE r == [retain[k] EXCEPT
                      !.at = "ages",
                      !.known = @ \cup Observed(retain[k].live)]
  <2>1. retain[k].at = "observing" /\ Retaining(k, r)
    BY <1>5 DEF ReadsObservations
  <2>2. Consistent(r) /\ r.at # "observations"
    BY <1>0, <2>1
    DEF SettingsInv, SettingsTypes, RetainState, Consistent, Observed
  <2>3. QED BY <1>2, <1>5, <2>1, <2>2 DEF ReadsObservations
<1>6. ASSUME DropObservations(k)
      PROVE  SettingsInv' /\ GivesUpLate
  <2> DEFINE r == [retain[k] EXCEPT !.at = "settings"]
  <2>1. retain[k].at = "observations" /\ Retaining(k, r)
    BY <1>6 DEF DropObservations
  <2>2. Consistent(r) /\ r.at # "observations"
    BY <1>0, <2>1 DEF RetainState, Consistent
  <2>3. QED
    BY <1>6, <2>1, <2>2, RetainGoesOn
    DEF DropObservations, SettingsInv, SettingsTypes, FileMatches, AgesTrue,
        Consistent
<1>7. ASSUME DropSettings(k)
      PROVE  SettingsInv' /\ GivesUpLate
  <2> DEFINE f == Restrict(settings, DOMAIN settings \ retain[k].expired)
             r == IF Saved(f) THEN [retain[k] EXCEPT !.at = "missing"]
                  ELSE NotRetaining
  <2>1. retain[k].at = "settings" /\ Modify(f) /\ Retaining(k, r)
    BY <1>7 DEF DropSettings
  <2>2. Consistent(r) /\ r.at # "observations"
    BY <1>0, <1>1, <2>1 DEF RetainState, Consistent
  <2>3. f \in Settings
    <3>1. f \in [DOMAIN settings \ retain[k].expired -> Choices]
      BY SettingsShape DEF SettingsInv, SettingsTypes, Restrict
    <3>2. QED BY <3>1, SettingsShape DEF SettingsInv, SettingsTypes
  <2> HIDE DEF f, r
  <2>4. QED
    BY <1>7, <2>1, <2>2, <2>3, RetainGoesOn, Modifies
    DEF DropSettings, SettingsInv, SettingsTypes, AgesTrue, Consistent
<1>8. ASSUME DropMissing(k)
      PROVE  SettingsInv' /\ GivesUpLate
  <2> DEFINE f == Restrict(missing, DOMAIN missing \ retain[k].expired)
  <2>1. missing' = f /\ Retaining(k, NotRetaining)
    BY <1>8 DEF DropMissing
  <2>2. /\ f \in [DOMAIN missing \ retain[k].expired -> 0..Grace]
        /\ DOMAIN f \subseteq DOMAIN missing
        /\ \A t \in DOMAIN f : f[t] = missing[t]
    BY MissingShape DEF SettingsInv, SettingsTypes, Restrict
  <2>3. f \in Missing
    BY <2>2, MissingShape DEF SettingsInv, SettingsTypes
  <2> HIDE DEF f
  <2>4. QED
    BY <1>1, <1>8, <2>1, <2>2, <2>3, RetainGoesOn
    DEF DropMissing, SettingsInv, SettingsTypes, FileMatches, AgesTrue,
        Consistent
<1>9. QED BY <1>3, <1>4, <1>5, <1>6, <1>7, <1>8

\* retain gives up on what was missing for the whole grace period: an age is of
\* a terminal no listing had since it began.
LEMMA RetainAges ==
  ASSUME SettingsInv, NEW k \in Threads, Ages(k)
  PROVE  SettingsInv' /\ GivesUpLate
<1> DEFINE r == retain[k]
           still == StillMissing(r.live)
           age == [t \in still \cup r.known |->
                      IF t \in still THEN missing[t] ELSE 0]
           expired == {t \in r.known : age[t] >= Grace}
           next == IF expired = {} THEN NotRetaining
                   ELSE [r EXCEPT !.at = "observations", !.expired = expired]
<1>1. /\ r \in RetainState /\ Grace \in Nat \ {0}
      /\ still \subseteq DOMAIN missing /\ still \cap r.live = {}
      /\ \A t \in DOMAIN missing : /\ t \in Terminals
                                   /\ missing[t] \in 0..Grace
                                   /\ missing[t] <= seen[t]
      /\ seen \in [Terminals -> 0..Grace]
  BY MissingShape, SettingsAssumption
  DEF SettingsInv, SettingsTypes, AgesTrue, StillMissing
<1>2. /\ missing' = age /\ Retaining(k, next)
      /\ seen' = [t \in Terminals |-> IF t \in r.live THEN 0 ELSE seen[t]]
      /\ UNCHANGED <<present, born, settings, observations, disk, rogue, checked,
                     agent>>
  BY DEF Ages
<1> HIDE DEF still
<1>3. /\ age \in [still \cup r.known -> 0..Grace]
      /\ still \cup r.known \in SUBSET Terminals
  BY <1>1 DEF RetainState
<1>4. missing' \in Missing /\ seen' \in [Terminals -> 0..Grace]
  BY <1>1, <1>2, <1>3, MissingShape
<1>5. AgesTrue'
  <2>1. ASSUME NEW t \in still \cup r.known
        PROVE  age[t] <= seen'[t]
    BY <1>1, <1>2, <1>3, <1>4
  <2>2. QED BY <1>2, <2>1 DEF AgesTrue
<1>6. \A t \in expired : seen[t] >= Grace
  <2>1. \A t \in expired : age[t] >= Grace /\ t \in still
    BY <1>1
  <2>2. QED BY <1>1, <2>1
<1>7. Consistent(next)
  BY <1>1 DEF Consistent, RetainState, NotRetaining
<1>8. GivesUpLate
  <2>1. \A j \in Threads \ {k} : retain'[j] = retain[j]
    BY <1>2 DEF Retaining, SettingsInv, SettingsTypes
  <2>2. retain'[k] = next
    BY <1>2 DEF Retaining, SettingsInv, SettingsTypes
  <2>3. next.at = "observations" => next.expired = expired
    BY <1>1 DEF NotRetaining, RetainState
  <2> HIDE DEF next, expired
  <2>4. QED BY <1>6, <2>1, <2>2, <2>3 DEF GivesUpLate
<1> HIDE DEF next, age
<1>9. QED
  BY <1>2, <1>4, <1>5, <1>7, <1>8, RetainGoesOn
  DEF SettingsInv, SettingsTypes, FileMatches, Consistent

\* Whatever leaves ages, listings and calls of retain alone.
LEMMA OthersMove ==
  ASSUME SettingsInv, UNCHANGED <<missing, retain, seen>>,
         present' \subseteq born', born' \subseteq Terminals,
         observations' \subseteq born',
         settings' \in Settings, disk' \in Settings, rogue' \in Settings,
         FileMatches', checked' \in born' \cup {NoTarget},
         agent' \in [Agents -> born' \cup {NoTarget}]
  PROVE  SettingsInv' /\ GivesUpLate
BY DEF SettingsInv, SettingsTypes, AgesTrue, GivesUpLate

LEMMA SettingsStep ==
  ASSUME SettingsInv, [SettingsNext]_settingsVars
  PROVE  SettingsInv' /\ GivesUpLate
<1>0. /\ present \subseteq born /\ born \subseteq Terminals
      /\ observations \subseteq born
      /\ settings \in Settings /\ disk \in Settings /\ rogue \in Settings
      /\ checked \in born \cup {NoTarget}
      /\ agent \in [Agents -> born \cup {NoTarget}]
      /\ FileMatches /\ NoTarget \notin Terminals /\ Shared \in Choices
  BY SettingsAssumption DEF SettingsInv, SettingsTypes
<1>1. CASE UNCHANGED settingsVars
  BY <1>0, <1>1, OthersMove DEF settingsVars, FileMatches
<1>2. CASE RequireTerminal
  BY <1>0, <1>2, OthersMove DEF RequireTerminal, FileMatches
<1>3. CASE UpdateSettings
  <2>1. PICK c \in Choices \cup {Default} : Modify(Chosen(checked, c, settings))
    BY <1>3 DEF UpdateSettings
  <2>2. checked \in Terminals
    BY <1>0, <1>3 DEF UpdateSettings
  <2>3. Chosen(checked, c, settings) \in Settings
    BY <1>0, <2>2, ChosenIsSettings
  <2>4. QED
    BY <1>0, <1>3, <2>1, <2>3, Modifies, OthersMove DEF UpdateSettings
<1>4. CASE Record
  BY <1>0, <1>4, OthersMove DEF Record, FileMatches
<1>5. CASE TerminalOpens
  BY <1>0, <1>5, OthersMove DEF TerminalOpens, FileMatches
<1>6. CASE Passes
  <2>1. /\ seen \in [Terminals -> 0..Grace] /\ Grace \in Nat
        /\ \A t \in DOMAIN missing : /\ t \in Terminals
                                     /\ missing[t] \in 0..Grace
                                     /\ missing[t] <= seen[t]
    BY MissingShape, SettingsAssumption DEF SettingsInv, SettingsTypes, AgesTrue
  <2>2. \A a, b \in 0..Grace : /\ Older(a) \in 0..Grace
                               /\ a <= b => Older(a) <= Older(b)
    BY <2>1 DEF Older
  <2>3. /\ missing' = [t \in DOMAIN missing |-> Older(missing[t])]
        /\ seen' = [t \in Terminals |-> Older(seen[t])]
    BY <1>6 DEF Passes
  <2>4. /\ missing' \in [DOMAIN missing -> 0..Grace]
        /\ seen' \in [Terminals -> 0..Grace] /\ AgesTrue'
    BY <2>1, <2>2, <2>3 DEF AgesTrue
  <2>5. missing' \in Missing
    BY <2>1, <2>4, MissingShape
  <2>6. QED
    BY <1>6, <2>4, <2>5
    DEF Passes, SettingsInv, SettingsTypes, FileMatches, GivesUpLate
<1>7. CASE Restarts
  <2>1. missing' \in Missing /\ DOMAIN missing' = {}
    <3>1. <<>> \in [{} -> 0..Grace] /\ DOMAIN <<>> = {}
      OBVIOUS
    <3>2. QED BY <1>7, <3>1, MissingShape DEF Restarts
  <2>2. retain' = [k \in Threads |-> NotRetaining]
    BY <1>7 DEF Restarts
  <2>3. NotRetaining \in RetainState /\ NotRetaining.at = "idle"
        /\ NotRetaining.expired = {}
    BY DEF NotRetaining, RetainState
  <2>4. QED
    BY <1>0, <1>7, <2>1, <2>2, <2>3
    DEF Restarts, SettingsInv, SettingsTypes, FileMatches, GivesUpLate, AgesTrue
<1>8. ASSUME NEW a \in Agents, AgentCreates(a)
      PROVE  SettingsInv' /\ GivesUpLate
  BY <1>0, <1>8, OthersMove DEF AgentCreates, FileMatches
<1>9. ASSUME NEW a \in Agents, AgentShares(a)
      PROVE  SettingsInv' /\ GivesUpLate
  <2>1. agent[a] \in Terminals /\ agent[a] \in born
    BY <1>0, <1>9 DEF AgentShares
  <2>2. Chosen(agent[a], Shared, settings) \in Settings
    BY <1>0, <2>1, ChosenIsSettings
  <2>3. QED
    BY <1>0, <1>9, <2>1, <2>2, Modifies, OthersMove DEF AgentShares
<1>10. ASSUME NEW t \in Terminals, RemoveTerminal(t) \/ Vanishes(t)
       PROVE  SettingsInv' /\ GivesUpLate
  <2>1. CASE Vanishes(t)
    BY <1>0, <2>1, OthersMove DEF Vanishes, FileMatches
  <2>2. CASE RemoveTerminal(t)
    <3>1. Chosen(t, Default, settings) \in Settings
      BY <1>0, ChosenIsSettings
    <3>2. QED BY <1>0, <2>2, <3>1, Modifies, OthersMove DEF RemoveTerminal
  <2>3. QED BY <1>10, <2>1, <2>2
<1>11. QED
  BY <1>1, <1>2, <1>3, <1>4, <1>5, <1>6, <1>7, <1>8, <1>9, <1>10, RetainMoves,
     RetainAges
  DEF SettingsNext, Retain

\* The settings' state is of its type: a terminal has a choice, an age or an
\* observation only once it was created, and a call of retain forgets only what it
\* had read of.
THEOREM SettingsTypesHold == SettingsSpec => []SettingsTypeOK
<1>1. SettingsInv => SettingsTypeOK
  BY DEF SettingsInv, SettingsTypes, SettingsTypeOK, Missing
<1>2. QED BY <1>1, SettingsStarts, SettingsStep, PTL DEF SettingsSpec

\* A restart brings back the settings that were answered, or a change that was
\* refused although it had reached the file; and retain gives up on a terminal
\* only when every listing of the whole grace period left it out: for any number
\* of calls of retain at once, changes, failed writes and restarts (modify,
\* forget and retain of terminal_control.rs).
THEOREM SettingsStaySound == SettingsSpec => SettingsSound
<1>1. SettingsInv => FileMatches
  BY DEF SettingsInv
<1>2. QED
  BY <1>1, SettingsStarts, SettingsStep, PTL
  DEF SettingsSpec, SettingsSound, GraceKept, GivesUpLate

(***************************************************************************)
(* Browser tabs. A command waits only for an agent that has not been told  *)
(* anything, and every "closed" on its way to an agent, in an              *)
(* acknowledgement or in its channel, is of a command the page has applied.*)
(***************************************************************************)
Verdicts == {"closed", "refused"}
PageState ==
    [open : SUBSET Targets, dirty : SUBSET Dirtiable,
     at : {"idle", "sent", "applying", "acking"}, sent : SUBSET Snapshots,
     commands : SUBSET Calls,
     ack : SUBSET [command : Calls, verdict : Verdicts]]
ViewRecord == [shown : Snapshots, stale : BOOLEAN, pending : SUBSET Calls]
ViewMaps == UNION {[D -> ViewRecord] : D \in SUBSET Views}
CallState ==
    [at : {"waiting", "giving up", "done"},
     answer : Verdicts \cup {"none", "dirty", "canceled", "no answer"},
     view : Views, target : Targets, told : SUBSET Verdicts]

TabTypes ==
    /\ page \in [Views -> PageState]
    /\ \A v \in Views : page[v].at = "sent" => page[v].sent # {}
    /\ late \in [Views -> SUBSET Snapshots]
    /\ views \in ViewMaps
    /\ call \in [Calls -> {NoCall} \cup CallState]
    /\ decided \in SUBSET Calls

Waits(c) == call[c] # NoCall /\ call[c].told = {}
PendingUntold == \A v \in DOMAIN views : \A c \in views[v].pending : Waits(c)
AckTrue == \A v \in Views : \A a \in page[v].ack :
               a.verdict = "closed" => a.command \in decided
ToldTrue == \A c \in Calls :
                call[c] # NoCall /\ "closed" \in call[c].told => c \in decided

TabsInv == TabTypes /\ TabsSound /\ PendingUntold /\ AckTrue /\ ToldTrue

LEMMA SnapshotShape ==
    Snapshots = [open : SUBSET Targets, dirty : SUBSET Dirtiable]
  <1>1. ASSUME NEW s \in Snapshots
        PROVE  s \in [open : SUBSET Targets, dirty : SUBSET Dirtiable]
    BY DEF Snapshots
  <1>2. ASSUME NEW s \in [open : SUBSET Targets, dirty : SUBSET Dirtiable]
        PROVE  s \in Snapshots
    <2>1. s = [open |-> s.open, dirty |-> s.dirty]  OBVIOUS
    <2> QED  BY <2>1 DEF Snapshots
  <1> QED  BY <1>1, <1>2

LEMMA ShownShape == ASSUME NEW p \in PageState PROVE Shown(p) \in Snapshots
  BY SnapshotShape DEF Shown, PageState

LEMMA PrunedShape ==
    ASSUME views \in ViewMaps
    PROVE  /\ Pruned \in ViewMaps /\ DOMAIN Pruned \subseteq DOMAIN views
           /\ \A v \in DOMAIN Pruned : Pruned[v] = views[v]
  <1>1. PICK D \in SUBSET Views : views \in [D -> ViewRecord]  BY DEF ViewMaps
  <1> DEFINE E == {v \in DOMAIN views : ~views[v].stale}
  <1>2. Pruned = [v \in E |-> views[v]]  BY DEF Pruned, Restrict
  <1>3. Pruned \in [E -> ViewRecord] /\ E \in SUBSET Views  BY <1>1, <1>2
  <1>4. Pruned \in ViewMaps  BY <1>3 DEF ViewMaps
  <1> QED  BY <1>2, <1>4

LEMMA TabsStart == Init => TabsInv
  <1> SUFFICES ASSUME Init PROVE TabsInv  OBVIOUS
  <1>1. NewPage \in PageState  BY DEF NewPage, PageState
  <1>2. TabTypes
    <2>1. views \in ViewMaps
      <3>1. views \in [{} -> ViewRecord]  BY DEF Init
      <3> QED  BY <3>1 DEF ViewMaps
    <2> QED  BY <1>1, <2>1 DEF TabTypes, Init, NewPage
  <1> QED
    BY <1>2 DEF TabsInv, TabsSound, CommandsHaveCallers, ClosedIsTrue,
                EditsAreKept, PendingUntold, AckTrue, ToldTrue, Init, NewPage,
                NoCall

\* What the page alone does: its records and the set of applied commands.
LEMMA PageMoves ==
    ASSUME TabsInv, page' \in [Views -> PageState],
           late' \in [Views -> SUBSET Snapshots],
           \A v \in Views : page'[v].at = "sent" => page'[v].sent # {},
           UNCHANGED <<views, call>>, decided \subseteq decided',
           decided' \subseteq Calls, AckTrue', EditsAreKept'
    PROVE  TabsInv'
  <1> USE DEF TabsInv
  <1>1. TabTypes'  BY DEF TabTypes
  <1>2. CommandsHaveCallers' /\ ClosedIsTrue' /\ PendingUntold' /\ ToldTrue'
    BY DEF TabsSound, CommandsHaveCallers, ClosedIsTrue, PendingUntold, ToldTrue,
           Waits
  <1> QED  BY <1>1, <1>2 DEF TabsSound

LEMMA Applied ==
    ASSUME NEW p \in PageState, NEW C \in SUBSET Calls, NEW o \in SUBSET Targets,
           NEW a \in SUBSET [command : Calls, verdict : Verdicts]
    PROVE  [p EXCEPT !.commands = C, !.at = "acking", !.open = o, !.ack = a]
               \in PageState
  BY DEF PageState

LEMMA HeartbeatSent ==
    ASSUME NEW p \in PageState, NEW S \in SUBSET Snapshots
    PROVE  [p EXCEPT !.at = "sent", !.sent = S] \in PageState
  BY DEF PageState

LEMMA PageActs ==
    ASSUME TabsInv, NEW v \in Views,
           \/ SendHeartbeat(v) \/ Fails(v) \/ HeartbeatDone(v) \/ Reload(v)
           \/ \E t \in Targets : Opens(v, t) \/ Closes(v, t) \/ Edits(v, t)
           \/ \E c \in Calls : Apply(v, c)
    PROVE  TabsInv'
  <1> USE BrowserTabsAssumption
  <1>0. /\ page \in [Views -> PageState] /\ late \in [Views -> SUBSET Snapshots]
        /\ \A w \in Views : page[w].at = "sent" => page[w].sent # {}
        /\ decided \subseteq Calls
        /\ AckTrue
        /\ EditsAreKept
    BY DEF TabsInv, TabTypes, TabsSound
  <1>1. ASSUME NEW t \in Targets, Opens(v, t) \/ Closes(v, t) \/ Edits(v, t)
        PROVE  TabsInv'
    <2>1. page' \in [Views -> PageState]
      BY <1>0, <1>1 DEF Opens, Closes, Edits, PageState
    <2>2. \A w \in Views : /\ page'[w].at = page[w].at
                           /\ page'[w].sent = page[w].sent
                           /\ page'[w].ack = page[w].ack
      BY <1>0, <1>1 DEF Opens, Closes, Edits, PageState
    <2>3. EditsAreKept'
      BY <1>0, <1>1 DEF Opens, Closes, Edits, PageState, EditsAreKept
    <2>4. UNCHANGED <<late, views, call, decided>>
      BY <1>1 DEF Opens, Closes, Edits
    <2>5. AckTrue'  BY <1>0, <2>2, <2>4 DEF AckTrue
    <2> QED  BY <1>0, <2>1, <2>2, <2>3, <2>4, <2>5, PageMoves
  <1>2. CASE SendHeartbeat(v)
    <2>1. Shown(page[v]) \in Snapshots  BY <1>0, ShownShape
    <2>2. page' \in [Views -> PageState]
      <3> DEFINE S == {Shown(page[v])}
      <3>1. page' = [page EXCEPT ![v].at = "sent", ![v].sent = S]
        BY <1>2 DEF SendHeartbeat
      <3>2. S \in SUBSET Snapshots  BY <2>1
      <3> HIDE DEF S
      <3>3. page'[v] = [page[v] EXCEPT !.at = "sent", !.sent = S]
        BY <1>0, <3>1 DEF PageState
      <3>4. page' = [w \in Views |-> IF w = v THEN page'[v] ELSE page[w]]
        BY <1>0, <3>1
      <3>5. \A p \in PageState :
              [p EXCEPT !.at = "sent", !.sent = S] \in PageState
        BY <3>2, HeartbeatSent
      <3>6. page[v] \in PageState  BY <1>0
      <3>7. page'[v] \in PageState  BY <3>3, <3>5, <3>6
      <3> QED  BY <1>0, <3>4, <3>7
    <2>3. \A w \in Views : page'[w].at = "sent" => page'[w].sent # {}
      BY <1>0, <1>2 DEF SendHeartbeat, PageState
    <2>4. AckTrue' /\ EditsAreKept'
      BY <1>0, <1>2 DEF SendHeartbeat, PageState, AckTrue, EditsAreKept
    <2> QED  BY <1>0, <1>2, <2>2, <2>3, <2>4, PageMoves DEF SendHeartbeat
  <1>3. CASE Fails(v) \/ HeartbeatDone(v)
    <2>1. page' \in [Views -> PageState]
      BY <1>0, <1>3 DEF Fails, HeartbeatDone, PageState
    <2>2. \A w \in Views : page'[w].at = "sent" => page'[w].sent # {}
      BY <1>0, <1>3 DEF Fails, HeartbeatDone, PageState
    <2>3. AckTrue' /\ EditsAreKept'
      BY <1>0, <1>3 DEF Fails, HeartbeatDone, PageState, AckTrue, EditsAreKept
    <2> QED  BY <1>0, <1>3, <2>1, <2>2, <2>3, PageMoves DEF Fails, HeartbeatDone
  <1>4. CASE Reload(v)
    <2>1. page' \in [Views -> PageState] /\ late' \in [Views -> SUBSET Snapshots]
      BY <1>0, <1>4 DEF Reload, PageState, NewPage
    <2>2. \A w \in Views : page'[w].at = "sent" => page'[w].sent # {}
      BY <1>0, <1>4 DEF Reload, PageState, NewPage
    <2>3. AckTrue' /\ EditsAreKept'
      BY <1>0, <1>4 DEF Reload, PageState, NewPage, AckTrue, EditsAreKept
    <2> QED  BY <1>0, <1>4, <2>1, <2>2, <2>3, PageMoves DEF Reload
  <1>5. ASSUME NEW c \in Calls, Apply(v, c) PROVE TabsInv'
    <2> DEFINE t == call[c].target
               verdict == Decision(page[v], t)
    <2>0. verdict \in Verdicts  BY DEF Decision, Verdicts
    <2>1. page' = [page EXCEPT ![v].commands = @ \ {c}, ![v].at = "acking",
                      ![v].open = IF verdict = "closed" THEN @ \ {t} ELSE @,
                      ![v].ack = {[command |-> c, verdict |-> verdict]}]
          /\ decided' = (IF verdict = "closed" THEN decided \cup {c} ELSE decided)
          /\ UNCHANGED <<late, views, call>>
      BY <1>5 DEF Apply
    <2>2. verdict = "closed" => t \notin page[v].dirty  BY DEF Decision
    <2> HIDE DEF verdict, t
    <2>3. page' \in [Views -> PageState]
      <3> DEFINE a == {[command |-> c, verdict |-> verdict]}
                 o == IF verdict = "closed" THEN page[v].open \ {t}
                      ELSE page[v].open
                 C == page[v].commands \ {c}
      <3>1. a \in SUBSET [command : Calls, verdict : Verdicts]  BY <2>0
      <3>2. o \in SUBSET Targets /\ C \in SUBSET Calls /\ page[v] \in PageState
        BY <1>0 DEF PageState
      <3>3. page'[v] = [page[v] EXCEPT !.commands = C, !.at = "acking",
                                       !.open = o, !.ack = a]
        BY <1>0, <2>1 DEF PageState
      <3>4. page' = [w \in Views |-> IF w = v THEN page'[v] ELSE page[w]]
        BY <1>0, <2>1
      <3> HIDE DEF o, a, C
      <3>5. \A p \in PageState :
              [p EXCEPT !.commands = C, !.at = "acking", !.open = o, !.ack = a]
                  \in PageState
        BY <3>1, <3>2, Applied
      <3>6. page'[v] \in PageState  BY <3>2, <3>3, <3>5
      <3> QED  BY <1>0, <3>4, <3>6
    <2>4. \A w \in Views : page'[w].at = "sent" => page'[w].sent # {}
      BY <1>0, <2>1 DEF PageState
    <2>5. decided \subseteq decided' /\ decided' \subseteq Calls  BY <1>0, <2>1
    <2>6. AckTrue'
      <3> SUFFICES ASSUME NEW w \in Views, NEW a \in page'[w].ack, a.verdict = "closed"
                   PROVE  a.command \in decided'
        BY DEF AckTrue
      <3>1. CASE w = v
        <4>1. a = [command |-> c, verdict |-> verdict]
          BY <1>0, <2>1, <3>1 DEF PageState
        <4> QED  BY <2>1, <4>1
      <3>2. CASE w # v
        <4>1. page'[w] = page[w]  BY <1>0, <2>1, <3>2
        <4> QED  BY <1>0, <2>5, <4>1 DEF AckTrue
      <3> QED  BY <3>1, <3>2
    <2>7. EditsAreKept'
      <3> SUFFICES ASSUME NEW w \in Views PROVE page'[w].dirty \subseteq page'[w].open
        BY DEF EditsAreKept
      <3>1. page'[w].dirty = page[w].dirty  BY <1>0, <2>1 DEF PageState
      <3>2. page'[w].open = (IF w = v /\ verdict = "closed" THEN page[w].open \ {t}
                             ELSE page[w].open)
        BY <1>0, <2>1 DEF PageState
      <3> QED  BY <1>0, <2>2, <3>1, <3>2 DEF EditsAreKept
    <2> QED  BY <1>0, <2>1, <2>3, <2>4, <2>5, <2>6, <2>7, PageMoves
  <1> QED  BY <1>1, <1>2, <1>3, <1>4, <1>5

\* What the registry does on its own: it keeps no command it did not have.
LEMMA RegistryMoves ==
    ASSUME TabsInv, views' \in ViewMaps, UNCHANGED <<call, decided>>,
           page' \in [Views -> PageState], late' \in [Views -> SUBSET Snapshots],
           \A v \in Views : page'[v].at = "sent" => page'[v].sent # {},
           \A v \in DOMAIN views' : \A c \in views'[v].pending :
               v \in DOMAIN views /\ c \in views[v].pending,
           AckTrue', EditsAreKept'
    PROVE  TabsInv'
  <1> USE DEF TabsInv
  <1>1. TabTypes'  BY DEF TabTypes
  <1>2. CommandsHaveCallers' /\ ClosedIsTrue' /\ PendingUntold' /\ ToldTrue'
    BY DEF TabsSound, CommandsHaveCallers, ClosedIsTrue, PendingUntold, ToldTrue,
           Waits
  <1> QED  BY <1>1, <1>2 DEF TabsSound

LEMMA Beats ==
    ASSUME TabTypes, NEW v \in Views, NEW s \in Snapshots,
           Beat(v, s) \/ TooMany(v)
    PROVE  /\ views' \in ViewMaps
           /\ \A w \in DOMAIN views' : \A c \in views'[w].pending :
                  w \in DOMAIN views /\ c \in views[w].pending
           /\ Beat(v, s) => v \in DOMAIN views'
  <1>0. /\ Pruned \in ViewMaps
        /\ DOMAIN Pruned \subseteq DOMAIN views
        /\ \A w \in DOMAIN Pruned : Pruned[w] = views[w]
    BY PrunedShape DEF TabTypes
  <1>1. CASE ~Beat(v, s)  BY <1>0, <1>1 DEF TooMany
  <1>2. CASE Beat(v, s)
    <2> DEFINE kept == Pruned
               pending == IF v \in DOMAIN kept THEN kept[v].pending ELSE {}
               new == [shown |-> s, stale |-> FALSE, pending |-> pending]
    <2>1. PICK D \in SUBSET Views : kept \in [D -> ViewRecord]
      BY <1>0 DEF ViewMaps
    <2>2. new \in ViewRecord  BY <2>1 DEF ViewRecord
    <2>3. views' = [w \in D \cup {v} |-> IF w = v THEN new ELSE kept[w]]
      BY <1>2, <2>1 DEF Beat
    <2>4. \A c \in new.pending : v \in DOMAIN views /\ c \in views[v].pending
      BY <1>0
    <2>5. \A w \in D : w \in DOMAIN views /\ kept[w] = views[w]  BY <1>0, <2>1
    <2> HIDE DEF new, kept
    <2>6. views' \in [D \cup {v} -> ViewRecord]  BY <2>1, <2>2, <2>3
    <2>7. views' \in ViewMaps  BY <2>1, <2>6 DEF ViewMaps
    <2> QED  BY <2>3, <2>4, <2>5, <2>6, <2>7
  <1> QED  BY <1>1, <1>2

LEMMA HeartbeatAnswered ==
    ASSUME NEW p \in PageState, NEW C \in SUBSET Calls,
           NEW a \in {"applying", "idle"}
    PROVE  [p EXCEPT !.at = a, !.sent = {}, !.commands = C] \in PageState
  BY DEF PageState

LEMMA RegistryActs ==
    ASSUME TabsInv,
           \/ List
           \/ \E v \in Views : Lapses(v) \/ Heartbeat(v) \/ LateHeartbeat(v)
    PROVE  TabsInv'
  <1>0. /\ page \in [Views -> PageState] /\ late \in [Views -> SUBSET Snapshots]
        /\ \A w \in Views : page[w].at = "sent" => page[w].sent # {}
        /\ views \in ViewMaps
        /\ AckTrue
        /\ EditsAreKept
    BY DEF TabsInv, TabTypes, TabsSound
  <1>1. CASE List
    <2>1. UNCHANGED <<page, late, call, decided>> /\ views' = Pruned
      BY <1>1 DEF List
    <2>2. AckTrue' /\ EditsAreKept'  BY <1>0, <2>1 DEF AckTrue, EditsAreKept
    <2> QED  BY <1>0, <2>1, <2>2, PrunedShape, RegistryMoves
  <1>2. ASSUME NEW v \in Views, Lapses(v) PROVE TabsInv'
    <2>1. UNCHANGED <<page, late, call, decided>>  BY <1>2 DEF Lapses
    <2>2. AckTrue' /\ EditsAreKept'  BY <1>0, <2>1 DEF AckTrue, EditsAreKept
    <2>3. PICK D \in SUBSET Views : views \in [D -> ViewRecord]
      BY <1>0 DEF ViewMaps
    <2>4. views' \in [D -> ViewRecord]
      BY <1>2, <2>3 DEF Lapses, ViewRecord
    <2>5. \A w \in D : views'[w].pending = views[w].pending
      BY <1>2, <2>3 DEF Lapses, ViewRecord
    <2>6. views' \in ViewMaps  BY <2>4 DEF ViewMaps
    <2> QED  BY <1>0, <2>1, <2>2, <2>3, <2>4, <2>5, <2>6, RegistryMoves
  <1>3. ASSUME NEW v \in Views, Heartbeat(v) PROVE TabsInv'
    <2>0. page[v].at = "sent" /\ UNCHANGED <<late, call, decided>>
      BY <1>3 DEF Heartbeat
    <2> DEFINE s == CHOOSE x \in page[v].sent : TRUE
    <2>1. s \in Snapshots  BY <1>0, <2>0 DEF PageState
    <2>2. PICK a \in {"applying", "idle"}, C \in SUBSET Calls :
              /\ page' = [page EXCEPT ![v].at = a, ![v].sent = {},
                                      ![v].commands = C]
              /\ Beat(v, s) \/ TooMany(v)
      <3>1. CASE /\ Beat(v, s)
                 /\ page' = [page EXCEPT ![v].at = "applying", ![v].sent = {},
                                         ![v].commands = views'[v].pending]
        <4>1. views' \in ViewMaps /\ v \in DOMAIN views'
          BY <2>1, <3>1, Beats DEF TabsInv
        <4>2. views'[v].pending \in SUBSET Calls
          BY <4>1 DEF ViewMaps, ViewRecord
        <4> QED  BY <3>1, <4>2
      <3>2. CASE /\ Beat(v, s) \/ TooMany(v)
                 /\ page' = [page EXCEPT ![v].at = "idle", ![v].sent = {}]
        <4>1. page[v].commands \in SUBSET Calls  BY <1>0 DEF PageState
        <4>2. page' = [page EXCEPT ![v].at = "idle", ![v].sent = {},
                                   ![v].commands = page[v].commands]
          BY <1>0, <3>2 DEF PageState
        <4> QED  BY <3>2, <4>1, <4>2
      <3> QED  BY <1>3, <3>1, <3>2 DEF Heartbeat
    <2> HIDE DEF s
    <2>3. page' \in [Views -> PageState]
      <3>1. page'[v] = [page[v] EXCEPT !.at = a, !.sent = {}, !.commands = C]
        BY <1>0, <2>2 DEF PageState
      <3>2. page' = [w \in Views |-> IF w = v THEN page'[v] ELSE page[w]]
        BY <1>0, <2>2
      <3>3. \A p \in PageState :
              [p EXCEPT !.at = a, !.sent = {}, !.commands = C] \in PageState
        BY HeartbeatAnswered
      <3>4. page[v] \in PageState  BY <1>0
      <3>5. page'[v] \in PageState  BY <3>1, <3>3, <3>4
      <3> QED  BY <1>0, <3>2, <3>5
    <2>4. \A w \in Views : page'[w].at = "sent" => page'[w].sent # {}
      BY <1>0, <2>2 DEF PageState
    <2>5. AckTrue' /\ EditsAreKept'
      BY <1>0, <2>0, <2>2 DEF AckTrue, EditsAreKept, PageState
    <2>6. /\ views' \in ViewMaps
          /\ \A w \in DOMAIN views' : \A c \in views'[w].pending :
                 w \in DOMAIN views /\ c \in views[w].pending
      BY <2>1, <2>2, Beats DEF TabsInv
    <2> QED  BY <1>0, <2>0, <2>3, <2>4, <2>5, <2>6, RegistryMoves
  <1>4. ASSUME NEW v \in Views, LateHeartbeat(v) PROVE TabsInv'
    <2>1. /\ UNCHANGED <<page, call, decided>>
          /\ late' = [late EXCEPT ![v] = {}]
      BY <1>4 DEF LateHeartbeat
    <2>2. PICK s \in late[v] : Beat(v, s) \/ TooMany(v)
      BY <1>4 DEF LateHeartbeat
    <2>3. AckTrue' /\ EditsAreKept'  BY <1>0, <2>1 DEF AckTrue, EditsAreKept
    <2>4. late' \in [Views -> SUBSET Snapshots] /\ s \in Snapshots
      BY <1>0, <2>1, <2>2
    <2>5. /\ views' \in ViewMaps
          /\ \A w \in DOMAIN views' : \A c \in views'[w].pending :
                 w \in DOMAIN views /\ c \in views[w].pending
      BY <2>2, <2>4, Beats DEF TabsInv
    <2> QED  BY <1>0, <2>1, <2>3, <2>4, <2>5, RegistryMoves
  <1> QED  BY <1>1, <1>2, <1>3, <1>4

LEMMA AcknowledgeSound ==
    ASSUME TabsInv, NEW v \in Views, Acknowledge(v) PROVE TabsInv'
  <1>0. /\ page \in [Views -> PageState] /\ late \in [Views -> SUBSET Snapshots]
        /\ \A w \in Views : page[w].at = "sent" => page[w].sent # {}
        /\ views \in ViewMaps
        /\ call \in [Calls -> {NoCall} \cup CallState]
        /\ decided \in SUBSET Calls
        /\ AckTrue
        /\ EditsAreKept
    BY DEF TabsInv, TabTypes, TabsSound
  <1>1. /\ page' = [page EXCEPT ![v].at = "applying", ![v].ack = {}]
        /\ UNCHANGED <<late, decided>>
    BY DEF Acknowledge
  <1>2. page' \in [Views -> PageState]
    <2>1. page'[v] = [page[v] EXCEPT !.at = "applying", !.ack = {}]
      BY <1>0, <1>1 DEF PageState
    <2>2. page' = [w \in Views |-> IF w = v THEN page'[v] ELSE page[w]]
      BY <1>0, <1>1
    <2>3. \A p \in PageState :
            [p EXCEPT !.at = "applying", !.ack = {}] \in PageState
      BY DEF PageState
    <2>4. page[v] \in PageState  BY <1>0
    <2>5. page'[v] \in PageState  BY <2>1, <2>3, <2>4
    <2> QED  BY <1>0, <2>2, <2>5
  <1>3. \A w \in Views : page'[w].at = "sent" => page'[w].sent # {}
    BY <1>0, <1>1 DEF PageState
  <1>4. AckTrue' /\ EditsAreKept'
    BY <1>0, <1>1 DEF AckTrue, EditsAreKept, PageState
  <1>5. PICK a \in page[v].ack :
           IF v \in DOMAIN views /\ a.command \in views[v].pending
           THEN /\ views' = [views EXCEPT ![v].pending = @ \ {a.command}]
                /\ call' = [call EXCEPT ![a.command].told = {a.verdict}]
           ELSE UNCHANGED <<views, call>>
    BY DEF Acknowledge
  <1>6. CASE UNCHANGED <<views, call>>
    BY <1>0, <1>1, <1>2, <1>3, <1>4, <1>6, PageMoves
  <1>7. CASE v \in DOMAIN views /\ a.command \in views[v].pending
    <2> DEFINE c == a.command
    <2>0. c \in Calls /\ a.verdict \in Verdicts
      BY <1>0, <1>5 DEF PageState
    <2>1. a.verdict = "closed" => c \in decided  BY <1>0, <1>5 DEF AckTrue
    <2>2. PICK D \in SUBSET Views : views \in [D -> ViewRecord]
      BY <1>0 DEF ViewMaps
    <2>3. /\ views' = [views EXCEPT ![v].pending = @ \ {c}]
          /\ call' = [call EXCEPT ![c].told = {a.verdict}]
      BY <1>5, <1>7
    <2>4. /\ call[c].at \in {"waiting", "giving up"} /\ call[c].view = v
          /\ call[c] # NoCall
          /\ call[c].told = {}
      BY <1>7 DEF TabsInv, TabsSound, CommandsHaveCallers, PendingUntold, Waits
    <2>5. call[c] \in CallState  BY <1>0, <2>0, <2>4
    <2> HIDE DEF c
    <2>6. views' \in [D -> ViewRecord]  BY <1>7, <2>2, <2>3 DEF ViewRecord
    <2>7. views' \in ViewMaps  BY <2>6 DEF ViewMaps
    <2>8. \A w \in D : views'[w].pending = (IF w = v THEN views[w].pending \ {c}
                                            ELSE views[w].pending)
      BY <1>7, <2>2, <2>3 DEF ViewRecord
    <2>9. /\ call' \in [Calls -> {NoCall} \cup CallState]
          /\ \A d \in Calls \ {c} : call'[d] = call[d]
          /\ call'[c] # NoCall
          /\ call'[c].at = call[c].at
          /\ call'[c].told = {a.verdict}
      <3>1. [call[c] EXCEPT !.told = {a.verdict}] \in CallState
        BY <2>0, <2>5 DEF CallState
      <3>2. call' = [call EXCEPT ![c] = [call[c] EXCEPT !.told = {a.verdict}]]
        BY <2>3
      <3>3. call'[c] = [call[c] EXCEPT !.told = {a.verdict}]
        BY <1>0, <2>0, <3>2
      <3>4. call'[c].at = call[c].at /\ call'[c].told = {a.verdict}
        BY <2>5, <3>3 DEF CallState
      <3>5. call'[c] # NoCall
        <4>1. NoCall.at = "none" /\ call'[c].at # "none"
          BY <2>4, <3>4 DEF NoCall
        <4> QED  BY <4>1
      <3> QED  BY <1>0, <2>0, <3>1, <3>2, <3>4, <3>5
    <2>10. TabTypes'  BY <1>0, <1>1, <1>2, <1>3, <2>7, <2>9 DEF TabTypes
    <2>11. CommandsHaveCallers' /\ PendingUntold'
      <3> SUFFICES ASSUME NEW w \in DOMAIN views', NEW d \in views'[w].pending
                   PROVE  /\ call'[d].at \in {"waiting", "giving up"}
                          /\ call'[d].view = w /\ Waits(d)'
        BY DEF CommandsHaveCallers, PendingUntold
      <3>1. w \in D /\ d \in views[w].pending  BY <2>2, <2>6, <2>8
      <3>2. d \in Calls  BY <2>2, <3>1 DEF ViewRecord
      <3>3. call[d].at \in {"waiting", "giving up"} /\ call[d].view = w /\ Waits(d)
        BY <2>2, <3>1 DEF TabsInv, TabsSound, CommandsHaveCallers, PendingUntold
      <3>4. d # c  BY <2>4, <2>6, <2>8, <3>3
      <3> QED  BY <2>9, <3>2, <3>3, <3>4 DEF Waits
    <2>12. ClosedIsTrue'
      <3>1. ClosedIsTrue  BY DEF TabsInv, TabsSound
      <3> QED  BY <1>1, <2>0, <2>4, <2>9, <3>1 DEF ClosedIsTrue
    <2>13. ToldTrue'
      <3>1. ToldTrue  BY DEF TabsInv
      <3> QED  BY <1>1, <2>0, <2>1, <2>9, <3>1 DEF ToldTrue
    <2> QED  BY <1>4, <2>10, <2>11, <2>12, <2>13 DEF TabsInv, TabsSound
  <1> QED  BY <1>5, <1>6, <1>7

\* What an agent's call does: it starts, or moves on while it waits.
LEMMA CallMoves ==
    ASSUME TabsInv, NEW c \in Calls, NEW r \in CallState,
           call' = [call EXCEPT ![c] = r],
           UNCHANGED <<page, late, decided>>, views' \in ViewMaps,
           \A v \in DOMAIN views' : \A d \in views'[v].pending :
               \/ /\ d = c
                  /\ r.told = {} /\ r.at # "done" /\ r.view = v
               \/ d # c /\ v \in DOMAIN views /\ d \in views[v].pending,
           r.at = "done" /\ r.answer = "closed" => c \in decided,
           "closed" \in r.told => c \in decided
    PROVE  TabsInv'
  <1>0. /\ call \in [Calls -> {NoCall} \cup CallState]
        /\ views \in ViewMaps
        /\ AckTrue
        /\ EditsAreKept
        /\ ToldTrue
        /\ ClosedIsTrue
        /\ CommandsHaveCallers
        /\ PendingUntold
        /\ TabTypes
    BY DEF TabsInv, TabTypes, TabsSound
  <1>1. call'[c] = r /\ \A d \in Calls \ {c} : call'[d] = call[d]  BY <1>0
  <1>2. r # NoCall
    <2>1. r.at # "none"  BY DEF CallState
    <2> QED  BY <2>1 DEF NoCall
  <1>3. TabTypes'  BY <1>0 DEF TabTypes
  <1>4. AckTrue' /\ EditsAreKept'  BY <1>0 DEF AckTrue, EditsAreKept
  <1>5. ClosedIsTrue' /\ ToldTrue'  BY <1>0, <1>1 DEF ClosedIsTrue, ToldTrue
  <1>6. CommandsHaveCallers' /\ PendingUntold'
    <2> SUFFICES ASSUME NEW v \in DOMAIN views', NEW d \in views'[v].pending
                 PROVE  /\ call'[d].at \in {"waiting", "giving up"}
                        /\ call'[d].view = v /\ Waits(d)'
      BY DEF CommandsHaveCallers, PendingUntold
    <2>1. CASE d = c  BY <1>1, <1>2, <2>1 DEF Waits, CallState
    <2>2. CASE d # c
      <3>1. v \in DOMAIN views /\ d \in views[v].pending  BY <2>2
      <3>2. d \in Calls  BY <1>0, <3>1 DEF ViewMaps, ViewRecord
      <3>3. call[d].at \in {"waiting", "giving up"} /\ call[d].view = v /\ Waits(d)
        BY <1>0, <3>1 DEF CommandsHaveCallers, PendingUntold
      <3> QED  BY <1>1, <2>2, <3>2, <3>3 DEF Waits
    <2> QED  BY <2>1, <2>2
  <1> QED  BY <1>3, <1>4, <1>5, <1>6 DEF TabsInv, TabsSound

LEMMA CallActs ==
    ASSUME TabsInv, NEW c \in Calls,
           Close(c) \/ Wake(c) \/ Timeout(c) \/ GiveUp(c)
    PROVE  TabsInv'
  <1>0. /\ call \in [Calls -> {NoCall} \cup CallState]
        /\ views \in ViewMaps
        /\ CommandsHaveCallers
        /\ PendingUntold
        /\ ToldTrue
        /\ NoCall.at = "none"
    BY DEF TabsInv, TabTypes, TabsSound, NoCall
  <1>1. CASE Close(c)
    <2>1. /\ call[c] = NoCall
          /\ UNCHANGED <<page, late, decided>>
      BY <1>1 DEF Close
    <2>2. /\ Pruned \in ViewMaps
          /\ DOMAIN Pruned \subseteq DOMAIN views
          /\ \A w \in DOMAIN Pruned : Pruned[w] = views[w]
      BY <1>0, PrunedShape
    <2>3. PICK D \in SUBSET Views : Pruned \in [D -> ViewRecord]
      BY <2>2 DEF ViewMaps
    <2>4. PICK v \in D, t \in Targets :
            LET r(at, answer) == [at |-> at, answer |-> answer, view |-> v,
                                  target |-> t, told |-> {}] IN
            \/ /\ views' = Pruned
               /\ call' = [call EXCEPT ![c] = r("done", "dirty")]
            \/ /\ views' = [Pruned EXCEPT ![v].pending = @ \cup {c}]
               /\ call' = [call EXCEPT ![c] = r("waiting", "none")]
      <3>1. PICK tab \in Tabs :
              IF tab[2] \in Pruned[tab[1]].shown.dirty
              THEN /\ views' = Pruned
                   /\ call' = [call EXCEPT ![c] =
                         [at |-> "done", answer |-> "dirty", view |-> tab[1],
                          target |-> tab[2], told |-> {}]]
              ELSE /\ views' = [Pruned EXCEPT ![tab[1]].pending = @ \cup {c}]
                   /\ call' = [call EXCEPT ![c] =
                         [at |-> "waiting", answer |-> "none", view |-> tab[1],
                          target |-> tab[2], told |-> {}]]
        BY <1>1 DEF Close
      <3>2. PICK v \in D : tab \in {<<v, t>> : t \in Pruned[v].shown.open}
        BY <2>3 DEF Tabs
      <3>3. PICK t \in Pruned[v].shown.open : tab = <<v, t>>  BY <3>2
      <3>4. Pruned[v].shown.open \subseteq Targets
        BY <2>3, SnapshotShape DEF ViewRecord
      <3> QED  BY <3>1, <3>3, <3>4
    <2> DEFINE r(at, answer) == [at |-> at, answer |-> answer, view |-> v,
                                 target |-> t, told |-> {}]
    <2>5. r("done", "dirty") \in CallState /\ r("waiting", "none") \in CallState
      BY DEF CallState, Verdicts
    <2>6. \A w \in D : \A d \in Pruned[w].pending :
              d # c /\ w \in DOMAIN views /\ d \in views[w].pending
      BY <1>0, <2>1, <2>2, <2>3 DEF PendingUntold, Waits
    <2>7. CASE /\ views' = Pruned
               /\ call' = [call EXCEPT ![c] = r("done", "dirty")]
      BY <2>1, <2>2, <2>3, <2>5, <2>6, <2>7, CallMoves
    <2>8. CASE /\ views' = [Pruned EXCEPT ![v].pending = @ \cup {c}]
               /\ call' = [call EXCEPT ![c] = r("waiting", "none")]
      <3>1. views' \in [D -> ViewRecord]  BY <2>3, <2>8 DEF ViewRecord
      <3>2. views' \in ViewMaps  BY <3>1 DEF ViewMaps
      <3>3. \A w \in D : views'[w].pending = (IF w = v THEN Pruned[w].pending \cup {c}
                                              ELSE Pruned[w].pending)
        BY <2>3, <2>8 DEF ViewRecord
      <3>4. \A w \in DOMAIN views' : \A d \in views'[w].pending :
              \/ /\ d = c
                 /\ w = v
              \/ d # c /\ w \in DOMAIN views /\ d \in views[w].pending
        BY <2>6, <3>1, <3>3
      <3>5. r("waiting", "none").told = {} /\ r("waiting", "none").at = "waiting"
            /\ r("waiting", "none").view = v
        OBVIOUS
      <3> HIDE DEF r
      <3> QED  BY <2>1, <2>5, <2>8, <3>2, <3>4, <3>5, CallMoves
    <2> QED  BY <2>4, <2>7, <2>8
  <1>2. ASSUME call[c].at \in {"waiting", "giving up"},
               NEW at \in {"giving up", "done"},
               NEW answer \in Verdicts \cup {"none", "dirty", "canceled", "no answer"},
               call' = [call EXCEPT ![c].at = at, ![c].answer = answer],
               UNCHANGED <<page, late, decided>>, views' \in ViewMaps,
               \A v \in DOMAIN views' : \A d \in views'[v].pending :
                   v \in DOMAIN views /\ d \in views[v].pending,
               at = "done" => \A v \in DOMAIN views' : c \notin views'[v].pending,
               at = "done" /\ answer = "closed" => c \in decided
        PROVE  TabsInv'
    <2> DEFINE r == [call[c] EXCEPT !.at = at, !.answer = answer]
    <2>1. call[c] \in CallState /\ call[c] # NoCall  BY <1>0, <1>2
    <2>2. r \in CallState  BY <2>1 DEF CallState
    <2>3. call' = [call EXCEPT ![c] = r]  BY <1>0, <1>2, <2>1 DEF CallState
    <2>4. r.told = call[c].told /\ r.at = at /\ r.view = call[c].view
          /\ r.answer = answer
      BY <2>1 DEF CallState
    <2>5. "closed" \in r.told => c \in decided  BY <1>0, <2>1, <2>4 DEF ToldTrue
    <2>6. \A v \in DOMAIN views' : \A d \in views'[v].pending :
              \/ /\ d = c
                 /\ r.told = {} /\ r.at # "done" /\ r.view = v
              \/ d # c /\ v \in DOMAIN views /\ d \in views[v].pending
      <3> SUFFICES ASSUME NEW v \in DOMAIN views', c \in views'[v].pending
                   PROVE  /\ call[c].told = {}
                          /\ at # "done"
                          /\ call[c].view = v
        BY <1>2, <2>4
      <3>1. v \in DOMAIN views /\ c \in views[v].pending  BY <1>2
      <3>2. call[c].told = {}  BY <1>0, <3>1 DEF PendingUntold, Waits
      <3>3. call[c].view = v  BY <1>0, <3>1 DEF CommandsHaveCallers
      <3>4. at # "done"  BY <1>2
      <3> QED  BY <3>2, <3>3, <3>4
    <2>7. r.at = "done" /\ r.answer = "closed" => c \in decided
      BY <1>2, <2>4
    <2>8. UNCHANGED <<page, late, decided>> /\ views' \in ViewMaps  BY <1>2
    <2> HIDE DEF r
    <2> QED  BY <2>2, <2>3, <2>5, <2>6, <2>7, <2>8, CallMoves
  <1>3. ASSUME NEW at \in {"giving up", "done"},
               call[c].at = "waiting", call' = [call EXCEPT ![c].at = at]
        PROVE  /\ call' = [call EXCEPT ![c].at = at, ![c].answer = call[c].answer]
               /\ call[c] \in CallState /\ call[c] # NoCall
    <2>1. call[c] \in CallState /\ call[c] # NoCall  BY <1>0, <1>3
    <2> QED  BY <1>0, <1>3, <2>1 DEF CallState
  <1>4. \A v \in DOMAIN views : c \in views[v].pending =>
            Pending(c) /\ call[c].told = {} /\ v = call[c].view
    BY <1>0 DEF Pending, CommandsHaveCallers, PendingUntold, Waits
  <1>5. CASE Wake(c)
    <2>1. /\ call[c].at = "waiting" /\ call[c] \in CallState
          /\ UNCHANGED <<page, late, views, decided>>
      BY <1>0, <1>5 DEF Wake
    <2>2. PICK a \in Verdicts \cup {"canceled"} :
            /\ call' = [call EXCEPT ![c].at = "done", ![c].answer = a]
            /\ a = "closed" => a \in call[c].told
            /\ call[c].told # {} \/ ~Pending(c)
      <3>1. CASE \E a \in call[c].told :
                    call' = [call EXCEPT ![c].at = "done", ![c].answer = a]
        BY <2>1, <3>1 DEF CallState
      <3>2. CASE /\ call[c].told = {} /\ ~Pending(c)
                 /\ call' = [call EXCEPT ![c].at = "done", ![c].answer = "canceled"]
        BY <3>2
      <3> QED  BY <1>5, <3>1, <3>2 DEF Wake
    <2>3. a = "closed" => c \in decided
      BY <1>0, <2>1, <2>2 DEF ToldTrue
    <2>4. \A v \in DOMAIN views : c \notin views[v].pending  BY <1>4, <2>2
    <2> QED  BY <1>0, <1>2, <2>1, <2>2, <2>3, <2>4
  <1>6. CASE Timeout(c)
    <2>1. /\ call[c].at = "waiting" /\ call[c] \in CallState
          /\ UNCHANGED <<page, late, views, decided>>
          /\ call' = [call EXCEPT ![c].at = "giving up",
                                  ![c].answer = call[c].answer]
      BY <1>3, <1>6, <1>0 DEF Timeout
    <2>2. call[c].answer \in Verdicts \cup {"none", "dirty", "canceled", "no answer"}
      BY <2>1 DEF CallState
    <2> QED  BY <1>0, <1>2, <2>1, <2>2
  <1>7. CASE GiveUp(c)
    <2>1. /\ call[c].at = "giving up"
          /\ views' = Withdrawn(c)
          /\ UNCHANGED <<page, late, decided>>
          /\ call' = [call EXCEPT ![c].at = "done", ![c].answer = "no answer"]
      BY <1>7 DEF GiveUp
    <2>2. PICK D \in SUBSET Views : views \in [D -> ViewRecord]
      BY <1>0 DEF ViewMaps
    <2>3. /\ views' \in [D -> ViewRecord]
          /\ \A v \in D : views'[v].pending \subseteq views[v].pending \ {c}
      <3>1. CASE Pending(c)
        <4>1. views' = [views EXCEPT ![call[c].view].pending = @ \ {c}]
          BY <2>1, <3>1 DEF Withdrawn
        <4>2. \A v \in D : c \in views[v].pending => v = call[c].view
          BY <1>4, <2>2
        <4> QED  BY <2>2, <4>1, <4>2 DEF ViewRecord
      <3>2. CASE ~Pending(c)
        <4>1. views' = views  BY <2>1, <3>2 DEF Withdrawn
        <4> QED  BY <1>4, <2>2, <3>2, <4>1
      <3> QED  BY <3>1, <3>2
    <2>4. views' \in ViewMaps  BY <2>3 DEF ViewMaps
    <2> QED  BY <1>2, <2>1, <2>2, <2>3, <2>4
  <1> QED  BY <1>1, <1>5, <1>6, <1>7

LEMMA TabsStep == TabsInv /\ [Next]_vars => TabsInv'
  <1> SUFFICES ASSUME TabsInv, [Next]_vars PROVE TabsInv'  OBVIOUS
  <1>1. CASE UNCHANGED vars
    <2>1. UNCHANGED <<page, late, views, call, decided>>  BY <1>1 DEF vars
    <2>2. TabTypes'  BY <2>1 DEF TabsInv, TabTypes
    <2> QED  BY <2>1, <2>2 DEF TabsInv, TabsSound, CommandsHaveCallers, ClosedIsTrue,
                 EditsAreKept, PendingUntold, AckTrue, ToldTrue, Waits
  <1>2. CASE Next
    BY <1>2, PageActs, RegistryActs, AcknowledgeSound, CallActs DEF Next
  <1> QED  BY <1>1, <1>2

(***************************************************************************)
(* Whatever is lost or late between a page and the server, no page is      *)
(* handed a command nobody waits for any more, no agent is told of a tab   *)
(* closed that was not, and no unsaved edit is closed (heartbeat, close,   *)
(* acknowledge, applyBrowserTabCommand).                                   *)
(***************************************************************************)
THEOREM TabsStaySound == Spec => []TabsSound
  <1>1. TabsInv => TabsSound  BY DEF TabsInv
  <1> QED  BY <1>1, TabsStart, TabsStep, PTL DEF Spec
=============================================================================
