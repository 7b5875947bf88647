------------------------- MODULE UpdateInstallProofs -------------------------
(***************************************************************************)
(* Proofs about UpdateInstall, for every set of commits, channels and      *)
(* installers, every limit and every version: an installation is whole or  *)
(* taken back, a release is looked at before it is believed, and versions  *)
(* are in a total order.                                                   *)
(***************************************************************************)
EXTENDS UpdateInstall, NaturalsInduction, WellFoundedInduction, SequenceTheorems, TLAPS

-----------------------------------------------------------------------------
(* The swap of an installation.                                            *)

\* Nobody installs, and nothing is not a release.
Distinct == None \notin Commits /\ Nobody \notin Installers

PartSet == {"client", "skills", "binary"}

\* There are three parts.
LEMMA PartsAre ==
    /\ Range(Parts) = PartSet /\ Len(Parts) = 3
    /\ Parts[1] = "client" /\ Parts[2] = "skills" /\ Parts[3] = "binary"
<1>1. Parts[1] = "client" /\ Parts[2] = "skills" /\ Parts[3] = "binary" /\ DOMAIN Parts = 1..3
  BY DEF Parts
<1>2. Range(Parts) = PartSet
  BY <1>1 DEF Range, PartSet
<1> QED  BY <1>1, <1>2 DEF Parts

Fresh(e, p)    == /\ at[<<"place", p>>] = before[p] /\ at[<<"previous", p>>] = None
                  /\ at[<<"candidate", p>>] = e
TakenOut(e, p) == /\ at[<<"place", p>>] = None /\ at[<<"previous", p>>] = before[p]
                  /\ at[<<"candidate", p>>] = e
Swapped(e, p)  == /\ at[<<"place", p>>] = e /\ at[<<"previous", p>>] = before[p]
                  /\ at[<<"candidate", p>>] = None

\* The parts before the n-th are swapped, the others are not.
Swapping(e, n) ==
    \A k \in 1..3 : IF k < n THEN Swapped(e, Parts[k]) ELSE Fresh(e, Parts[k])
\* The same, and the n-th is between.
Halfway(e, n) ==
    \A k \in 1..3 : \/ k < n /\ Swapped(e, Parts[k])
                    \/ k = n /\ TakenOut(e, Parts[k])
                    \/ k > n /\ Fresh(e, Parts[k])

AtType == at \in [Locations \X PartSet -> Contents]

\* What a rename changes.
LEMMA MovedMeans ==
    ASSUME AtType, NEW n \in 1..3, NEW from \in Locations, NEW to \in Locations, from # to,
           at' = Moved(Move(Parts[n], from, to))
    PROVE  /\ AtType'
           /\ at'[<<to, Parts[n]>>] = at[<<from, Parts[n]>>]
           /\ at'[<<from, Parts[n]>>] = None
           /\ \A l \in Locations \ {from, to} : at'[<<l, Parts[n]>>] = at[<<l, Parts[n]>>]
           /\ \A k \in (1..3) \ {n}, l \in Locations : at'[<<l, Parts[k]>>] = at[<<l, Parts[k]>>]
<1>1. \A k \in 1..3 : Parts[k] \in PartSet
  BY PartsAre DEF PartSet
<1>2. \A k, j \in 1..3 : k # j => Parts[k] # Parts[j]
  BY PartsAre
<1>3. <<to, Parts[n]>> \in Locations \X PartSet /\ <<from, Parts[n]>> \in Locations \X PartSet
      /\ <<to, Parts[n]>> # <<from, Parts[n]>>
  BY <1>1
<1>4. at' = [at EXCEPT ![<<to, Parts[n]>>] = at[<<from, Parts[n]>>], ![<<from, Parts[n]>>] = None]
  BY DEF Moved, Move
<1>5. at[<<from, Parts[n]>>] \in Contents /\ None \in Contents
  BY <1>3 DEF AtType, Contents
<1>6. AtType'
  BY <1>4, <1>5 DEF AtType
<1>7. \A x \in Locations \X PartSet :
         at'[x] = IF x = <<from, Parts[n]>> THEN None
                  ELSE IF x = <<to, Parts[n]>> THEN at[<<from, Parts[n]>>] ELSE at[x]
  BY <1>3, <1>4 DEF AtType
<1>8. \A l \in Locations \ {from, to} : at'[<<l, Parts[n]>>] = at[<<l, Parts[n]>>]
  <2> TAKE l \in Locations \ {from, to}
  <2>1. <<l, Parts[n]>> \in Locations \X PartSet /\ <<l, Parts[n]>> # <<from, Parts[n]>>
        /\ <<l, Parts[n]>> # <<to, Parts[n]>>
    BY <1>1
  <2> QED  BY <2>1, <1>7
<1>9. \A k \in (1..3) \ {n}, l \in Locations : at'[<<l, Parts[k]>>] = at[<<l, Parts[k]>>]
  <2> TAKE k \in (1..3) \ {n}, l \in Locations
  <2>1. <<l, Parts[k]>> \in Locations \X PartSet /\ <<l, Parts[k]>> # <<from, Parts[n]>>
        /\ <<l, Parts[k]>> # <<to, Parts[n]>>
    BY <1>1, <1>2
  <2> QED  BY <2>1, <1>7
<1> QED  BY <1>3, <1>6, <1>7, <1>8, <1>9

\* Nothing else changes about the other parts.
LEMMA OthersStay ==
    ASSUME AtType, NEW n \in 1..3, NEW from \in Locations, NEW to \in Locations, from # to,
           at' = Moved(Move(Parts[n], from, to)), before' = before, NEW e
    PROVE  \A k \in (1..3) \ {n} : /\ Fresh(e, Parts[k]) => Fresh(e, Parts[k])'
                                   /\ Swapped(e, Parts[k]) => Swapped(e, Parts[k])'
<1>1. \A k \in (1..3) \ {n}, l \in Locations : at'[<<l, Parts[k]>>] = at[<<l, Parts[k]>>]
  BY MovedMeans
<1>2. "place" \in Locations /\ "previous" \in Locations /\ "candidate" \in Locations
  BY DEF Locations
<1> QED  BY <1>1, <1>2 DEF Fresh, Swapped

LEMMA MoveOut ==
    ASSUME AtType, NEW n \in 1..3, NEW e, Swapping(e, n),
           at' = Moved(Move(Parts[n], "place", "previous")), before' = before
    PROVE  AtType' /\ Halfway(e, n)'
<1>1. /\ "place" \in Locations /\ "previous" \in Locations
      /\ "candidate" \in Locations \ {"place", "previous"}
  BY DEF Locations
<1>2. TakenOut(e, Parts[n])' /\ AtType'
  <2>1. Fresh(e, Parts[n])
    BY DEF Swapping
  <2> QED  BY <1>1, <2>1, MovedMeans DEF Fresh, TakenOut
<1>3. \A k \in (1..3) \ {n} : /\ Fresh(e, Parts[k]) => Fresh(e, Parts[k])'
                              /\ Swapped(e, Parts[k]) => Swapped(e, Parts[k])'
  BY <1>1, OthersStay
<1> QED  BY <1>2, <1>3 DEF Swapping, Halfway

LEMMA MoveIn ==
    ASSUME AtType, NEW n \in 1..3, NEW e, Halfway(e, n),
           at' = Moved(Move(Parts[n], "candidate", "place")), before' = before
    PROVE  AtType' /\ Swapping(e, n + 1)'
<1>1. /\ "candidate" \in Locations /\ "place" \in Locations
      /\ "previous" \in Locations \ {"candidate", "place"}
  BY DEF Locations
<1>2. Swapped(e, Parts[n])' /\ AtType'
  <2>1. TakenOut(e, Parts[n])
    BY DEF Halfway
  <2> QED  BY <1>1, <2>1, MovedMeans DEF Swapped, TakenOut
<1>3. \A k \in (1..3) \ {n} : /\ Fresh(e, Parts[k]) => Fresh(e, Parts[k])'
                              /\ Swapped(e, Parts[k]) => Swapped(e, Parts[k])'
  BY <1>1, OthersStay
<1> QED  BY <1>2, <1>3 DEF Swapping, Halfway

LEMMA MoveBack ==
    ASSUME AtType, NEW n \in 1..3, NEW e, Halfway(e, n),
           at' = Moved(Move(Parts[n], "previous", "place")), before' = before
    PROVE  AtType' /\ Swapping(e, n)'
<1>1. /\ "previous" \in Locations /\ "place" \in Locations
      /\ "candidate" \in Locations \ {"previous", "place"}
  BY DEF Locations
<1>2. Fresh(e, Parts[n])' /\ AtType'
  <2>1. TakenOut(e, Parts[n])
    BY DEF Halfway
  <2> QED  BY <1>1, <2>1, MovedMeans DEF Fresh, TakenOut
<1>3. \A k \in (1..3) \ {n} : /\ Fresh(e, Parts[k]) => Fresh(e, Parts[k])'
                              /\ Swapped(e, Parts[k]) => Swapped(e, Parts[k])'
  BY <1>1, OthersStay
<1> QED  BY <1>2, <1>3 DEF Swapping, Halfway

LEMMA MoveAway ==
    ASSUME AtType, NEW n \in 1..3, NEW e, Swapping(e, n + 1),
           at' = Moved(Move(Parts[n], "place", "candidate")), before' = before
    PROVE  AtType' /\ Halfway(e, n)'
<1>1. /\ "place" \in Locations /\ "candidate" \in Locations
      /\ "previous" \in Locations \ {"place", "candidate"}
  BY DEF Locations
<1>2. TakenOut(e, Parts[n])' /\ AtType'
  <2>1. Swapped(e, Parts[n])
    BY DEF Swapping
  <2> QED  BY <1>1, <2>1, MovedMeans DEF Swapped, TakenOut
<1>3. \A k \in (1..3) \ {n} : /\ Fresh(e, Parts[k]) => Fresh(e, Parts[k])'
                              /\ Swapped(e, Parts[k]) => Swapped(e, Parts[k])'
  BY <1>1, OthersStay
<1> QED  BY <1>2, <1>3 DEF Swapping, Halfway

-----------------------------------------------------------------------------
(***************************************************************************)
(* The invariant of an installation.  While a call swaps, each part has one*)
(* of three shapes (Fresh, TakenOut, Swapped), those before the n-th are   *)
(* swapped and those after it untouched; a rollback is always at one of    *)
(* these points, and what is left of it is told by what was installed      *)
(* before (Undoing).  A second failure may be that of a rollback, after    *)
(* which nothing is said but where things are.                             *)
(***************************************************************************)

Fetches == [at : {"fetching", "downloading"}, expected : Commits, channel : Channels]
Swaps   == [at : {"out", "in", "undoing", "installed"}, n : 1..3,
            expected : Commits, channel : Channels]
Calls   == {Idle} \cup Fetches \cup Swaps

Moves   == [part : PartSet, from : Locations, to : Locations]

Types ==
    /\ published \in [Channels -> Commits] /\ channel \in Channels /\ stored \in Channels
    /\ running \in Commits /\ lock \in Installers \cup {Nobody}
    /\ install \in [Installers -> Calls] /\ failures \in Nat
    /\ AtType /\ before \in [PartSet -> Contents] /\ undo \in Seq(Moves)

Locked == \A i \in Installers : install[i].at # "idle" => lock = i /\ install[i].channel = channel

\* What is left to take back, told by what was installed before.
BackOf(k) == <<Move(Parts[k], "place", "candidate")>>
                 \o IF before[Parts[k]] # None THEN <<Move(Parts[k], "previous", "place")>>
                    ELSE <<>>
Back(k) == CASE k = 1 -> <<>>
             [] k = 2 -> BackOf(1)
             [] k = 3 -> BackOf(2) \o BackOf(1)
Undoing(e) ==
    \E k \in 1..3 :
        \/ undo = Back(k) /\ Swapping(e, k)
        \/ /\ undo = <<Move(Parts[k], "previous", "place")>> \o Back(k)
           /\ Halfway(e, k) /\ before[Parts[k]] # None

Shape(i) ==
    LET e == install[i].expected IN
    /\ install[i].at = "out" => Swapping(e, install[i].n)
    /\ install[i].at = "in" => Halfway(e, install[i].n)
    /\ install[i].at = "installed" => Swapping(e, 4)
    /\ install[i].at = "undoing" /\ failures <= 1 => failures = 1 /\ Undoing(e)

Quiet == {"idle", "fetching", "downloading"}
Resting == \A i \in Installers : install[i].at \in Quiet
WholeOf(f) == \E c \in Commits : \A p \in PartSet : f[p] = c \/ (p = "skills" /\ f[p] = None)
Kept ==
    failures <= 1 =>
        /\ Resting => /\ WholeOf(Place)
                      /\ \A p \in PartSet : Place[p] = None => p = "skills" /\ before[p] = None
        /\ ~Resting => WholeOf(before)

Inv == Types /\ Locked /\ (\A i \in Installers : Shape(i)) /\ Kept

LEMMA CallsAre ==
    ASSUME NEW c \in Calls
    PROVE  /\ c.at = "idle" => c = Idle
           /\ c.at \in {"fetching", "downloading"} => c \in Fetches
           /\ c.at \in {"out", "in", "undoing", "installed"} => c \in Swaps
           /\ c.at \in Quiet \cup {"out", "in", "undoing", "installed"}
  BY DEF Calls, Fetches, Swaps, Idle, Quiet

\* Only the call that holds the lock is under way.
LEMMA HolderOnly ==
    ASSUME Inv, NEW i \in Installers, install[i].at # "idle"
    PROVE  lock = i /\ \A j \in Installers \ {i} : install[j] = Idle
<1>1. lock = i
  BY DEF Inv, Locked
<1>2. \A j \in Installers \ {i} : install[j].at = "idle"
  BY <1>1 DEF Inv, Locked
<1>3. \A j \in Installers : install[j] \in Calls
  BY DEF Inv, Types
<1> QED  BY <1>1, <1>2, <1>3, CallsAre

\* A step of one call leaves the others idle.
LEMMA OneSteps ==
    ASSUME Inv, NEW i \in Installers, \A j \in Installers \ {i} : install[j] = Idle,
           NEW r \in Calls, install' = [install EXCEPT ![i] = r],
           r.at # "idle" => lock' = i /\ r.channel = channel'
    PROVE  /\ install' \in [Installers -> Calls] /\ install'[i] = r
           /\ Locked'
           /\ \A j \in Installers \ {i} : install'[j] = Idle /\ Shape(j)'
           /\ Resting' <=> r.at \in Quiet
<1>1. install \in [Installers -> Calls]
  BY DEF Inv, Types
<1>2. install' \in [Installers -> Calls] /\ install'[i] = r
      /\ \A j \in Installers \ {i} : install'[j] = Idle
  BY <1>1
<1>3. Idle.at = "idle" /\ "idle" \in Quiet
  BY DEF Idle, Quiet
<1>4. Locked'
  BY <1>2, <1>3 DEF Locked
<1>5. \A j \in Installers \ {i} : Shape(j)'
  BY <1>2, <1>3 DEF Shape
<1>6. Resting' <=> r.at \in Quiet
  BY <1>2, <1>3 DEF Resting
<1> QED  BY <1>2, <1>4, <1>5, <1>6

LEMMA PlaceIs == Place = [p \in PartSet |-> at[<<"place", p>>]]
  BY PartsAre DEF Place

LEMMA InstallInit ==
    ASSUME Distinct, Init PROVE Inv
<1>1. PICK c \in Commits, ch \in Channels :
        /\ published = [x \in Channels |-> c]
        /\ channel = ch /\ stored = ch /\ running = c
        /\ lock = Nobody /\ install = [i \in Installers |-> Idle]
        /\ \E s \in {c, None} :
             at = [l \in Locations \X Range(Parts) |->
                      IF l[1] # "place" THEN None
                      ELSE IF l[2] = "skills" THEN s ELSE c]
        /\ failures = 0 /\ before = Place
  BY DEF Init
<1>2. PICK s \in {c, None} :
         at = [l \in Locations \X PartSet |->
                  IF l[1] # "place" THEN None ELSE IF l[2] = "skills" THEN s ELSE c]
  BY <1>1, PartsAre
<1>3. AtType
  BY <1>2 DEF AtType, Contents
<1>4. \A p \in PartSet : at[<<"place", p>>] = IF p = "skills" THEN s ELSE c
  <2> TAKE p \in PartSet
  <2>1. <<"place", p>> \in Locations \X PartSet
    BY DEF Locations
  <2> QED  BY <2>1, <1>2
<1>5. \A p \in PartSet : before[p] = IF p = "skills" THEN s ELSE c
  BY <1>1, <1>4, PlaceIs
<1>6. before \in [PartSet -> Contents]
  BY <1>1, <1>4, PlaceIs DEF Contents
<1>7. Types
  <2>1. undo = <<>>
    BY DEF Init
  <2> QED  BY <1>1, <1>3, <1>6, <2>1 DEF Types, Calls
<1>8. \A i \in Installers : install[i] = Idle
  BY <1>1
<1>9. Locked /\ \A i \in Installers : Shape(i)
  BY <1>8 DEF Locked, Shape, Idle
<1>10. Resting
  BY <1>8 DEF Resting, Idle, Quiet
<1>11. WholeOf(Place) /\ \A p \in PartSet : Place[p] = None => p = "skills" /\ before[p] = None
  <2>1. c # None
    BY DEF Distinct
  <2> QED  BY <2>1, <1>1, <1>5 DEF WholeOf
<1> QED  BY <1>7, <1>9, <1>10, <1>11 DEF Inv, Kept

LEMMA NothingMoves ==
    ASSUME (\A i \in Installers : Shape(i)), Kept,
           UNCHANGED <<at, undo, failures, before, install>>
    PROVE  (\A i \in Installers : Shape(i)') /\ Kept'
<1>1. ASSUME NEW i \in Installers PROVE Shape(i)'
  <2>1. \A e, n : (Swapping(e, n) => Swapping(e, n)') /\ (Halfway(e, n) => Halfway(e, n)')
    BY DEF Swapping, Halfway, Fresh, TakenOut, Swapped
  <2>2. \A e : Undoing(e) => Undoing(e)'
    BY <2>1 DEF Undoing, Back, BackOf
  <2> QED  BY <2>1, <2>2 DEF Shape
<1>2. Resting' = Resting
  BY DEF Resting
<1>3. Place' = Place
  BY DEF Place
<1>4. WholeOf(Place) => WholeOf(Place)'
  BY <1>3 DEF WholeOf
<1>5. WholeOf(before) => WholeOf(before)'
  BY DEF WholeOf
<1>6. Kept'
  BY <1>2, <1>3, <1>4, <1>5 DEF Kept
<1> QED  BY <1>1, <1>6

\* The steps that leave the files alone.
LEMMA QuietSteps ==
    ASSUME Distinct, Inv,
           Publish \/ SetChannel \/ \E i \in Installers : Ask(i) \/ Fetch(i) \/ GiveUp(i)
    PROVE  Inv'
<1>1. UNCHANGED <<at, undo, failures, before, running>>
  BY DEF Publish, SetChannel, Ask, Fetch, GiveUp
<1>2. /\ Types /\ Locked /\ Kept /\ \A i \in Installers : Shape(i)
  BY DEF Inv
<1>a. AtType' /\ before' \in [PartSet -> Contents] /\ failures' \in Nat /\ running' \in Commits
      /\ undo' \in Seq(Moves)
  BY <1>1, <1>2 DEF Types, AtType
<1>3. CASE Publish
  <2>1. UNCHANGED <<channel, stored, lock, install>> /\ published' \in [Channels -> Commits]
    BY <1>2, <1>3 DEF Publish, Types
  <2>2. Types'
    BY <1>2, <1>a, <2>1 DEF Types
  <2>3. Locked'
    BY <2>1, <1>2 DEF Locked
  <2> QED  BY <1>1, <1>2, <2>1, <2>2, <2>3, NothingMoves DEF Inv
<1>4. CASE SetChannel
  <2>1. lock = Nobody /\ UNCHANGED <<published, lock, install>>
        /\ channel' \in Channels /\ stored' \in Channels
    BY <1>2, <1>4 DEF SetChannel, Settled, Types
  <2>2. Types'
    BY <1>2, <1>a, <2>1 DEF Types
  <2>3. Locked'
    BY <2>1, <1>2 DEF Locked, Distinct
  <2> QED  BY <1>1, <1>2, <2>1, <2>2, <2>3, NothingMoves DEF Inv
<1>5. ASSUME NEW i \in Installers, Ask(i) \/ Fetch(i) \/ GiveUp(i)
      PROVE  Inv'
  <2>1. PICK r \in {Idle} \cup Fetches :
           /\ install' = [install EXCEPT ![i] = r] /\ lock' \in Installers \cup {Nobody}
           /\ r.at # "idle" => lock' = i /\ r.channel = channel'
    <3>0. install \in [Installers -> Calls] /\ channel \in Channels
      BY <1>2 DEF Types
    <3>1. CASE Ask(i)
      <4>1. PICK c \in Commits :
               install' = [install EXCEPT ![i] =
                             [at |-> "fetching", expected |-> c, channel |-> channel]]
        BY <3>1 DEF Ask, At
      <4>2. [at |-> "fetching", expected |-> c, channel |-> channel] \in Fetches
        BY <3>0 DEF Fetches
      <4> DEFINE c1 == [at |-> "fetching", expected |-> c, channel |-> channel]
      <4>3. /\ install' = [install EXCEPT ![i] = c1] /\ lock' = i
            /\ c1.channel = channel' /\ c1 \in Fetches
        BY <3>1, <4>1, <4>2 DEF Ask
      <4> HIDE DEF c1
      <4> QED  BY <4>3
    <3>2. CASE Fetch(i)
      <4>1. install[i] \in Fetches /\ lock = i /\ install[i].channel = channel /\ channel' = channel
        BY <1>2, <3>0, <3>2, CallsAre DEF Fetch, Locked
      <4>2. CASE Release(i)
        <5>1. install' = [install EXCEPT ![i] = Idle] /\ lock' = Nobody /\ Idle.at = "idle"
          BY <4>2 DEF Release, At, Idle
        <5> QED  BY <5>1
      <4>3. CASE At(i, [install[i] EXCEPT !.at = "downloading"]) /\ UNCHANGED lock
        <5>1. [install[i] EXCEPT !.at = "downloading"] \in Fetches
              /\ [install[i] EXCEPT !.at = "downloading"].channel = channel
          BY <4>1 DEF Fetches
        <5> DEFINE c1 == [install[i] EXCEPT !.at = "downloading"]
        <5>2. /\ install' = [install EXCEPT ![i] = c1] /\ lock' = i
              /\ c1.channel = channel' /\ c1 \in Fetches
          BY <4>1, <4>3, <5>1 DEF At
        <5> HIDE DEF c1
        <5> QED  BY <5>2
      <4> QED  BY <3>2, <4>2, <4>3 DEF Fetch
    <3>3. CASE GiveUp(i)
      <4>1. install' = [install EXCEPT ![i] = Idle] /\ lock' = Nobody /\ Idle.at = "idle"
        BY <3>3 DEF GiveUp, Release, At, Idle
      <4> QED  BY <4>1
    <3> QED  BY <1>5, <3>1, <3>2, <3>3
  <2>2. r \in Calls /\ r.at \in Quiet
    BY DEF Calls, Fetches, Quiet, Idle
  <2>3. install[i].at \in Quiet /\ \A j \in Installers \ {i} : install[j] = Idle
    <3>1. CASE install[i].at = "idle"
      <4>1. lock = Nobody
        BY <1>5, <3>1 DEF Ask, Fetch, GiveUp
      <4>2. \A j \in Installers : install[j].at = "idle" /\ install[j] \in Calls
        BY <4>1, <1>2 DEF Locked, Types, Distinct
      <4> QED  BY <3>1, <4>2, CallsAre DEF Quiet
    <3>2. CASE install[i].at # "idle"
      <4>1. install[i].at \in Quiet
        BY <1>5 DEF Ask, Fetch, GiveUp, Quiet
      <4> QED  BY <3>2, <4>1, HolderOnly
    <3> QED  BY <3>1, <3>2
  <2>4. /\ install' \in [Installers -> Calls] /\ install'[i] = r /\ Locked' /\ Resting'
        /\ \A j \in Installers \ {i} : Shape(j)'
    BY <2>1, <2>2, <2>3, OneSteps
  <2>5. Shape(i)'
    BY <2>2, <2>4 DEF Shape, Quiet
  <2>6. Types'
    <3>1. published' \in [Channels -> Commits] /\ channel' \in Channels /\ stored' \in Channels
      BY <1>2, <1>5 DEF Types, Ask, Fetch, GiveUp
    <3> QED  BY <2>1, <2>4, <3>1, <1>a DEF Types
  <2>7. Resting
    BY <2>3 DEF Resting, Quiet, Idle
  <2>8. Kept'
    BY <1>1, <1>2, <2>4, <2>7 DEF Kept, Place, WholeOf
  <2> QED  BY <2>4, <2>5, <2>6, <2>8 DEF Inv
<1> QED  BY <1>3, <1>4, <1>5

-----------------------------------------------------------------------------
(* The renames.                                                            *)

LEMMA CommitsAreSomething ==
    ASSUME Distinct, NEW f, WholeOf(f), NEW p \in PartSet, f[p] = None
    PROVE  p = "skills"
  BY DEF Distinct, WholeOf

LEMMA MovesTyped ==
    ASSUME NEW n \in 1..3, NEW from \in Locations, NEW to \in Locations
    PROVE  Move(Parts[n], from, to) \in Moves
<1>1. Parts[n] \in PartSet
  BY PartsAre DEF PartSet
<1> QED  BY <1>1 DEF Move, Moves

LEMMA BackTyped ==
    /\ Back(1) = <<>> /\ Back(2) = BackOf(1) /\ Back(3) = BackOf(2) \o BackOf(1)
    /\ \A k \in 1..3 : Back(k) \in Seq(Moves)
    /\ \A k \in 1..2 : BackOf(k) \in Seq(Moves) /\ BackOf(k) # <<>>
<1>1. Back(1) = <<>> /\ Back(2) = BackOf(1) /\ Back(3) = BackOf(2) \o BackOf(1)
  BY DEF Back
<1>2. ASSUME NEW k \in 1..2 PROVE BackOf(k) \in Seq(Moves) /\ BackOf(k) # <<>>
  <2>1. "place" \in Locations /\ "previous" \in Locations /\ "candidate" \in Locations /\ k \in 1..3
    BY DEF Locations
  <2>2. /\ Move(Parts[k], "place", "candidate") \in Moves
        /\ Move(Parts[k], "previous", "place") \in Moves
    BY <2>1, MovesTyped
  <2> HIDE DEF Moves
  <2> QED  BY <2>2 DEF BackOf
<1>3. \A s, t \in Seq(Moves) : s \o t \in Seq(Moves)
  OBVIOUS
<1>4. Back(1) \in Seq(Moves) /\ Back(2) \in Seq(Moves) /\ Back(3) \in Seq(Moves)
  <2>1. BackOf(1) \in Seq(Moves) /\ BackOf(2) \in Seq(Moves)
    BY <1>2
  <2>2. BackOf(2) \o BackOf(1) \in Seq(Moves)
    BY <2>1, <1>3, Zenon
  <2>3. <<>> \in Seq(Moves)
    OBVIOUS
  <2> QED  BY <1>1, <2>1, <2>2, <2>3, Zenon
<1>5. \A k \in 1..3 : k = 1 \/ k = 2 \/ k = 3
  OBVIOUS
<1> QED  BY <1>1, <1>2, <1>4, <1>5, Zenon

\* What the code takes back is what the history says.
LEMMA RollbackIs ==
    ASSUME NEW e, NEW n \in 1..3, \A k \in 1..3 : k < n => Swapped(e, Parts[k])
    PROVE  Rollback(n) = Back(n)
<1>1. ASSUME NEW k \in 1..3, k < n PROVE RollbackOf(k) = BackOf(k)
  BY <1>1 DEF RollbackOf, BackOf, Had, Swapped
<1>2. CASE n = 1
  BY <1>2 DEF Rollback, Back
<1>3. CASE n = 2
  BY <1>1, <1>3 DEF Rollback, Back
<1>4. CASE n = 3
  BY <1>1, <1>4 DEF Rollback, Back
<1> QED  BY <1>2, <1>3, <1>4

\* A part there was nothing of is taken out as it is.
LEMMA NothingTakenOut ==
    ASSUME NEW e, NEW n \in 1..3, before[Parts[n]] = None
    PROVE  Halfway(e, n) <=> Swapping(e, n)
<1>1. Fresh(e, Parts[n]) <=> TakenOut(e, Parts[n])
  BY DEF Fresh, TakenOut
<1> QED  BY <1>1 DEF Halfway, Swapping

\* A step of a swap that is not its last.
LEMMA SwapSteps ==
    ASSUME Inv, NEW i \in Installers, install[i].at \notin Quiet,
           NEW r \in Swaps, r.channel = install[i].channel,
           install' = [install EXCEPT ![i] = r],
           UNCHANGED <<published, channel, stored, running, lock, before>>,
           AtType', undo' \in Seq(Moves), failures' \in Nat, failures <= failures',
           Shape(i)'
    PROVE  Inv'
<1>1. /\ Types /\ Locked /\ Kept /\ install[i].at # "idle"
  BY DEF Inv, Quiet
<1>2. lock = i /\ install[i].channel = channel /\ \A j \in Installers \ {i} : install[j] = Idle
  BY <1>1, HolderOnly DEF Locked
<1>3. r \in Calls /\ r.at \notin Quiet
  BY DEF Calls, Swaps, Quiet
<1>4. /\ install' \in [Installers -> Calls] /\ Locked' /\ ~Resting'
      /\ \A j \in Installers \ {i} : Shape(j)'
  BY <1>2, <1>3, OneSteps
<1>5. ~Resting
  BY DEF Resting
<1>6. Kept'
  <2>1. failures' <= 1 => failures <= 1
    BY <1>1 DEF Types
  <2>2. WholeOf(before) => WholeOf(before)'
    BY DEF WholeOf
  <2> QED  BY <1>1, <1>4, <1>5, <2>1, <2>2 DEF Kept
<1>7. Types'
  BY <1>1, <1>4 DEF Types
<1> QED  BY <1>4, <1>6, <1>7 DEF Inv

\* Where a call is in a swap.
LEMMA SwapIs ==
    ASSUME Distinct, Inv, NEW i \in Installers, install[i].at \notin Quiet
    PROVE  /\ install[i] \in Swaps /\ install[i].n \in 1..3 /\ install[i].expected \in Commits
           /\ install[i].expected # None
           /\ Parts[install[i].n] \in PartSet
           /\ failures <= 1 => \A p \in PartSet : before[p] = None => p = "skills"
<1>1. /\ Types /\ Kept /\ ~Resting
  BY DEF Inv, Resting
<1>2. install[i] \in Swaps
  BY <1>1, CallsAre DEF Types, Quiet
<1>3. failures <= 1 => \A p \in PartSet : before[p] = None => p = "skills"
  BY <1>1, CommitsAreSomething DEF Kept
<1> QED  BY <1>2, <1>3, PartsAre DEF Swaps, Distinct, PartSet

LEMMA TakeOutStep ==
    ASSUME Distinct, Inv, NEW i \in Installers, TakeOut(i)
    PROVE  Inv'
<1>1. install[i].at = "out" /\ install[i].at \notin Quiet
  BY DEF TakeOut, Quiet
<1>a. PICK n \in 1..3, e \in Commits : n = install[i].n /\ e = install[i].expected
  BY <1>1, SwapIs
<1>2. /\ install[i] \in Swaps /\ Parts[n] \in PartSet
      /\ failures <= 1 => \A p \in PartSet : before[p] = None => p = "skills"
  BY <1>1, <1>a, SwapIs
<1>3. /\ AtType /\ undo \in Seq(Moves) /\ failures \in Nat /\ install \in [Installers -> Calls]
      /\ Swapping(e, n)
  BY <1>1, <1>a DEF Inv, Types, Shape
<1>4. UNCHANGED <<published, channel, stored, running, lock, before>>
  BY DEF TakeOut
<1>5. Fresh(e, Parts[n])
  BY <1>2, <1>3 DEF Swapping
<1>6. \A l \in {"in", "undoing"} :
         LET r == [install[i] EXCEPT !.at = l] IN
         r \in Swaps /\ r.at = l /\ r.n = n /\ r.expected = e /\ r.channel = install[i].channel
  BY <1>2, <1>a DEF Swaps
<1>7. CASE /\ install' = [install EXCEPT ![i] = [install[i] EXCEPT !.at = "in"]]
           /\ AtType' /\ Halfway(e, n)' /\ UNCHANGED <<undo, failures>>
  <2> DEFINE r == [install[i] EXCEPT !.at = "in"]
  <2>1. r \in Swaps /\ r.at = "in" /\ r.n = n /\ r.expected = e /\ r.channel = install[i].channel
    BY <1>6
  <2>2. install' = [install EXCEPT ![i] = r]
    BY <1>7
  <2> HIDE DEF r
  <2>3. install'[i] = r
    BY <1>3, <2>2
  <2>4. Shape(i)'
    BY <1>7, <2>1, <2>3 DEF Shape
  <2>5. undo' \in Seq(Moves) /\ failures' \in Nat /\ failures <= failures'
    BY <1>3, <1>7
  <2> QED  BY <1>1, <1>4, <1>7, <2>1, <2>2, <2>4, <2>5, SwapSteps
<1>8. CASE /\ install' = [install EXCEPT ![i] = [install[i] EXCEPT !.at = "undoing"]]
           /\ UNCHANGED at /\ undo' = Rollback(n) /\ failures' = failures + 1
  <2> DEFINE r == [install[i] EXCEPT !.at = "undoing"]
  <2>1. r \in Swaps /\ r.at = "undoing" /\ r.expected = e /\ r.channel = install[i].channel
    BY <1>6
  <2>2. install' = [install EXCEPT ![i] = r]
    BY <1>8
  <2> HIDE DEF r
  <2>3. install'[i] = r
    BY <1>3, <2>2
  <2>4. undo' = Back(n)
    BY <1>2, <1>3, <1>8, RollbackIs DEF Swapping
  <2>5. undo' \in Seq(Moves)
    BY <1>2, <2>4, BackTyped
  <2>6. Undoing(e)'
    <3>1. Swapping(e, n)'
      BY <1>3, <1>4, <1>8 DEF Swapping, Fresh, Swapped
    <3>2. Back(n)' = Back(n)
      BY <1>4 DEF Back, BackOf
    <3> QED  BY <1>2, <2>4, <3>1, <3>2 DEF Undoing
  <2>7. failures' \in Nat /\ failures <= failures' /\ (failures' <= 1 => failures' = 1)
    BY <1>3, <1>8
  <2>8. Shape(i)'
    BY <2>1, <2>3, <2>6, <2>7 DEF Shape
  <2>9. AtType'
    BY <1>3, <1>8 DEF AtType
  <2> QED  BY <1>1, <1>3, <1>4, <1>8, <2>1, <2>2, <2>5, <2>7, <2>8, <2>9, SwapSteps
<1>9. CASE at[<<"place", Parts[n]>>] # None
  <2>1. CASE /\ at' = Moved(Move(Parts[n], "place", "previous"))
             /\ install' = [install EXCEPT ![i] = [install[i] EXCEPT !.at = "in"]]
             /\ UNCHANGED <<undo, failures>>
    BY <1>2, <1>3, <1>4, <1>7, <2>1, MoveOut
  <2> QED  BY <1>a, <1>8, <1>9, <2>1 DEF TakeOut, At, Fail
<1>10. CASE at[<<"place", Parts[n]>>] = None /\ Parts[n] = "skills"
  <2>1. before[Parts[n]] = None
    BY <1>5, <1>10 DEF Fresh
  <2>2. Halfway(e, n)
    BY <1>2, <1>3, <2>1, NothingTakenOut
  <2>3. UNCHANGED <<at, undo, failures>>
        /\ install' = [install EXCEPT ![i] = [install[i] EXCEPT !.at = "in"]]
    BY <1>a, <1>10 DEF TakeOut, At
  <2>4. Halfway(e, n)' /\ AtType'
    BY <1>3, <1>4, <2>2, <2>3 DEF Halfway, Fresh, TakenOut, Swapped, AtType
  <2> QED  BY <1>7, <2>3, <2>4
<1>11. CASE at[<<"place", Parts[n]>>] = None /\ Parts[n] # "skills"
  \* It cannot be, but after two failures.
  <2>1. before[Parts[n]] = None
    BY <1>5, <1>11 DEF Fresh
  <2>2. ~(failures <= 1)
    BY <1>2, <1>11, <2>1
  <2>3. /\ UNCHANGED <<at, failures>> /\ undo' = Rollback(n)
        /\ install' = [install EXCEPT ![i] = [install[i] EXCEPT !.at = "undoing"]]
    BY <1>a, <1>11 DEF TakeOut, At
  <2> DEFINE r == [install[i] EXCEPT !.at = "undoing"]
  <2>4. r \in Swaps /\ r.at = "undoing" /\ r.expected = e /\ r.channel = install[i].channel
    BY <1>6
  <2>5. install' = [install EXCEPT ![i] = r]
    BY <2>3
  <2> HIDE DEF r
  <2>6. install'[i] = r
    BY <1>3, <2>5
  <2>7. Shape(i)'
    BY <2>2, <2>3, <2>4, <2>6 DEF Shape
  <2>8. undo' \in Seq(Moves)
    BY <1>2, <1>3, <2>3, RollbackIs, BackTyped DEF Swapping
  <2>9. AtType'
    BY <1>3, <2>3 DEF AtType
  <2>10. failures' \in Nat /\ failures <= failures'
    BY <1>3, <2>3
  <2> QED  BY <1>1, <1>4, <2>4, <2>5, <2>7, <2>8, <2>9, <2>10, SwapSteps
<1> QED  BY <1>9, <1>10, <1>11

LEMMA PutInStep ==
    ASSUME Distinct, Inv, NEW i \in Installers, PutIn(i)
    PROVE  Inv'
<1>1. install[i].at = "in" /\ install[i].at \notin Quiet
  BY DEF PutIn, Quiet
<1>2. PICK n \in 1..3, e \in Commits : n = install[i].n /\ e = install[i].expected
  BY <1>1, SwapIs
<1>3. /\ AtType /\ undo \in Seq(Moves) /\ failures \in Nat /\ install \in [Installers -> Calls]
      /\ Halfway(e, n) /\ install[i] \in Swaps
  BY <1>1, <1>2, SwapIs DEF Inv, Types, Shape
<1>4. UNCHANGED <<published, channel, stored, running, lock, before>>
  BY DEF PutIn
<1>5. CASE /\ at' = Moved(Move(Parts[n], "candidate", "place"))
           /\ At(i, IF n = Len(Parts) THEN [install[i] EXCEPT !.at = "installed"]
                    ELSE [install[i] EXCEPT !.at = "out", !.n = n + 1])
           /\ UNCHANGED <<undo, failures>>
  <2> DEFINE r == IF n = 3 THEN [install[i] EXCEPT !.at = "installed"]
                  ELSE [install[i] EXCEPT !.at = "out", !.n = n + 1]
  <2>1. /\ r \in Swaps /\ r.expected = e /\ r.channel = install[i].channel
        /\ (n = 3 /\ r.at = "installed") \/ (r.n = n + 1 /\ r.at = "out")
    <3>1. CASE n = 3
      <4>1. r = [install[i] EXCEPT !.at = "installed"]
        BY <3>1
      <4> QED  BY <1>2, <1>3, <3>1, <4>1 DEF Swaps
    <3>2. CASE n # 3
      <4>1. r = [install[i] EXCEPT !.at = "out", !.n = n + 1] /\ n + 1 \in 1..3
        BY <3>2
      <4> QED  BY <1>2, <1>3, <4>1 DEF Swaps
    <3> QED  BY <3>1, <3>2
  <2>2. install' = [install EXCEPT ![i] = r]
    BY <1>5, PartsAre DEF At
  <2> HIDE DEF r
  <2>3. install'[i] = r
    BY <1>3, <2>2
  <2>4. AtType' /\ Swapping(e, n + 1)'
    BY <1>3, <1>4, <1>5, MoveIn
  <2>5. Shape(i)'
    <3>1. CASE n = 3 /\ r.at = "installed"
      <4>1. Swapping(e, 4)'
        BY <2>4, <3>1
      <4> QED  BY <2>1, <2>3, <3>1, <4>1 DEF Shape
    <3>2. CASE r.n = n + 1 /\ r.at = "out"
      BY <2>1, <2>3, <2>4, <3>2 DEF Shape
    <3> QED  BY <2>1, <3>1, <3>2
  <2>6. undo' \in Seq(Moves) /\ failures' \in Nat /\ failures <= failures'
    BY <1>3, <1>5
  <2> QED  BY <1>1, <1>4, <2>1, <2>2, <2>4, <2>5, <2>6, SwapSteps
<1>6. CASE /\ Fail
           /\ undo' = (IF Had(n) THEN <<Move(Parts[n], "previous", "place")>>
                       ELSE <<>>) \o Rollback(n)
           /\ At(i, [install[i] EXCEPT !.at = "undoing"]) /\ UNCHANGED at
  <2> DEFINE r == [install[i] EXCEPT !.at = "undoing"]
  <2>1. r \in Swaps /\ r.at = "undoing" /\ r.expected = e /\ r.channel = install[i].channel
    BY <1>2, <1>3 DEF Swaps
  <2>2. install' = [install EXCEPT ![i] = r]
    BY <1>6 DEF At
  <2> HIDE DEF r
  <2>3. install'[i] = r
    BY <1>3, <2>2
  <2>4. Rollback(n) = Back(n) /\ Back(n) \in Seq(Moves)
    <3>1. \A k \in 1..3 : k < n => Swapped(e, Parts[k])
      BY <1>3 DEF Halfway
    <3> QED  BY <3>1, RollbackIs, BackTyped
  <2>5. TakenOut(e, Parts[n])
    BY <1>3 DEF Halfway
  <2>6. Back(n)' = Back(n)
    BY <1>4 DEF Back, BackOf
  <2>7. undo' \in Seq(Moves) /\ Undoing(e)'
    <3>1. CASE before[Parts[n]] = None
      <4>1. undo' = Back(n)
        <5>1. undo' = <<>> \o Back(n)
          BY <1>6, <2>4, <2>5, <3>1 DEF Had, TakenOut
        <5> QED  BY <2>4, <5>1
      <4>2. Swapping(e, n)
        BY <1>3, <3>1, NothingTakenOut
      <4>3. Swapping(e, n)'
        BY <1>4, <1>6, <4>2 DEF Swapping, Fresh, Swapped
      <4> QED  BY <2>4, <2>6, <4>1, <4>3 DEF Undoing
    <3>2. CASE before[Parts[n]] # None
      <4>1. undo' = <<Move(Parts[n], "previous", "place")>> \o Back(n)
        BY <1>6, <2>4, <2>5, <3>2 DEF Had, TakenOut
      <4>2. Halfway(e, n)'
        BY <1>3, <1>4, <1>6 DEF Halfway, Fresh, TakenOut, Swapped
      <4>3. Move(Parts[n], "previous", "place") \in Moves
        BY MovesTyped DEF Locations
      <4>4. <<Move(Parts[n], "previous", "place")>> \o Back(n) \in Seq(Moves)
        BY <2>4, <4>3
      <4>5. Move(Parts[n], "previous", "place")' = Move(Parts[n], "previous", "place")
        BY DEF Move
      <4>6. (before[Parts[n]] # None)'
        BY <1>4, <3>2
      <4> QED  BY <2>6, <4>1, <4>2, <4>4, <4>5, <4>6 DEF Undoing
    <3> QED  BY <3>1, <3>2
  <2>8. failures' \in Nat /\ failures <= failures' /\ (failures' <= 1 => failures' = 1)
    BY <1>3, <1>6 DEF Fail
  <2>9. Shape(i)'
    BY <2>1, <2>3, <2>7, <2>8 DEF Shape
  <2>10. AtType'
    BY <1>3, <1>6 DEF AtType
  <2> QED  BY <1>1, <1>4, <2>1, <2>2, <2>7, <2>8, <2>9, <2>10, SwapSteps
<1> QED  BY <1>2, <1>5, <1>6 DEF PutIn

\* What is taken back first of what is left, and what is left then.
LEMMA BackSteps ==
    ASSUME NEW j \in 1..2
    PROVE  LET m == Move(Parts[j], "place", "candidate") IN
           /\ Back(j + 1) # <<>> /\ Head(Back(j + 1)) = m
           /\ before[Parts[j]] = None => Tail(Back(j + 1)) = Back(j)
           /\ before[Parts[j]] # None =>
                  Tail(Back(j + 1)) = <<Move(Parts[j], "previous", "place")>> \o Back(j)
<1> DEFINE m == Move(Parts[j], "place", "candidate")
           q == Move(Parts[j], "previous", "place")
<1>1. m \in Moves /\ q \in Moves /\ Back(j) \in Seq(Moves)
  BY MovesTyped, BackTyped DEF Locations
<1>2. Back(j + 1) = BackOf(j) \o Back(j)
  <2>1. BackOf(1) \in Seq(Moves)
    BY BackTyped
  <2>2. CASE j = 1
    BY <2>1, <2>2, BackTyped
  <2>3. CASE j = 2
    BY <2>3, BackTyped
  <2> QED  BY <2>2, <2>3
<1>3. BackOf(j) = IF before[Parts[j]] # None THEN <<m>> \o <<q>> ELSE <<m>> \o <<>>
  BY DEF BackOf
<1> HIDE DEF m, q, Moves
<1>4. \A s \in Seq(Moves) : <<m>> \o s # <<>> /\ Head(<<m>> \o s) = m /\ Tail(<<m>> \o s) = s
  BY <1>1
<1>5. CASE before[Parts[j]] = None
  <2>1. BackOf(j) = <<m>>
    BY <1>1, <1>3, <1>5
  <2>2. Back(j + 1) = <<m>> \o Back(j)
    BY <1>2, <2>1
  <2> QED  BY <1>1, <1>4, <1>5, <2>2 DEF m
<1>6. CASE before[Parts[j]] # None
  <2>1. BackOf(j) = <<m>> \o <<q>>
    BY <1>3, <1>6
  <2>2. Back(j + 1) = (<<m>> \o <<q>>) \o Back(j)
    BY <1>2, <2>1
  <2>3. (<<m>> \o <<q>>) \o Back(j) = <<m>> \o (<<q>> \o Back(j)) /\ <<q>> \o Back(j) \in Seq(Moves)
    BY <1>1
  <2>4. Back(j + 1) = <<m>> \o (<<q>> \o Back(j))
    BY <2>2, <2>3
  <2> QED  BY <1>4, <1>6, <2>3, <2>4 DEF m, q
<1> QED  BY <1>5, <1>6 DEF m

LEMMA MovedTyped ==
    ASSUME AtType, NEW m \in Moves
    PROVE  Moved(m) \in [Locations \X PartSet -> Contents]
<1>1. <<m.from, m.part>> \in Locations \X PartSet /\ None \in Contents
  BY DEF Moves, Contents
<1>2. at[<<m.from, m.part>>] \in Contents
  BY <1>1 DEF AtType
<1> QED  BY <1>1, <1>2 DEF Moved, AtType

\* One rename of the rollback, done.
LEMMA TakenBack ==
    ASSUME AtType, NEW e, e # None, Undoing(e), undo # <<>>,
           before' = before, undo' = Tail(undo),
           at' = IF Possible(Head(undo)) THEN Moved(Head(undo)) ELSE at
    PROVE  Undoing(e)'
<1>1. PICK k \in 1..3 :
        \/ undo = Back(k) /\ Swapping(e, k)
        \/ /\ undo = <<Move(Parts[k], "previous", "place")>> \o Back(k)
           /\ Halfway(e, k) /\ before[Parts[k]] # None
  BY DEF Undoing
<1>2. \A j \in 1..3 : Back(j)' = Back(j)
  BY DEF Back, BackOf
<1>3. \A j \in 1..3 : (before[Parts[j]] # None)' <=> before[Parts[j]] # None
  OBVIOUS
<1>4. CASE undo = Back(k) /\ Swapping(e, k)
  <2>1. PICK j \in 1..2 : k = j + 1
    <3>1. k # 1
      BY <1>4, BackTyped
    <3>2. k - 1 \in 1..2 /\ k = (k - 1) + 1
      BY <3>1
    <3> QED  BY <3>2
  <2>2. Swapped(e, Parts[j]) /\ j \in 1..3
    BY <1>4, <2>1 DEF Swapping
  <2>3. Head(undo) = Move(Parts[j], "place", "candidate")
    BY <1>4, <2>1, BackSteps
  <2>4. Possible(Head(undo))
    <3>1. at[<<"place", Parts[j]>>] # None /\ at[<<"candidate", Parts[j]>>] = None
      BY <2>2 DEF Swapped
    <3>2. LET m == Head(undo) IN m.part = Parts[j] /\ m.from = "place" /\ m.to = "candidate"
      BY <2>3 DEF Move
    <3> QED  BY <3>1, <3>2 DEF Possible
  <2>5. Halfway(e, j)'
    BY <1>4, <2>1, <2>2, <2>3, <2>4, MoveAway
  <2>6. CASE before[Parts[j]] = None
    <3>1. undo' = Back(j)
      BY <1>4, <2>1, <2>6, BackSteps
    <3>2. Swapping(e, j)'
      <4>1. \A p : (Fresh(e, p)' <=> TakenOut(e, p)') \/ before'[p] # None
        BY DEF Fresh, TakenOut
      <4> QED  BY <2>2, <2>5, <2>6, <4>1 DEF Halfway, Swapping
    <3> QED  BY <1>2, <2>2, <3>1, <3>2 DEF Undoing
  <2>7. CASE before[Parts[j]] # None
    <3>1. undo' = <<Move(Parts[j], "previous", "place")>> \o Back(j)
      BY <1>4, <2>1, <2>7, BackSteps
    <3>2. Move(Parts[j], "previous", "place")' = Move(Parts[j], "previous", "place")
      BY DEF Move
    <3> QED  BY <1>2, <1>3, <2>2, <2>5, <2>7, <3>1, <3>2 DEF Undoing
  <2> QED  BY <2>6, <2>7
<1>5. CASE /\ undo = <<Move(Parts[k], "previous", "place")>> \o Back(k)
           /\ Halfway(e, k) /\ before[Parts[k]] # None
  <2> DEFINE q == Move(Parts[k], "previous", "place")
  <2>1. q \in Moves /\ Back(k) \in Seq(Moves)
    BY MovesTyped, BackTyped DEF Locations
  <2>2. Head(undo) = q /\ undo' = Back(k)
    <3> HIDE DEF q, Moves
    <3>1. undo = <<q>> \o Back(k)
      BY <1>5 DEF q
    <3> QED  BY <2>1, <3>1
  <2>3. TakenOut(e, Parts[k])
    BY <1>5 DEF Halfway
  <2>4. Possible(Head(undo))
    BY <1>5, <2>2, <2>3 DEF Possible, Move, TakenOut
  <2>5. Swapping(e, k)'
    BY <1>5, <2>2, <2>4, MoveBack
  <2> QED  BY <1>2, <2>2, <2>5 DEF Undoing
<1> QED  BY <1>1, <1>4, <1>5

LEMMA UndoStep ==
    ASSUME Distinct, Inv, NEW i \in Installers, Undo(i)
    PROVE  Inv'
<1>1. install[i].at = "undoing" /\ install[i].at \notin Quiet
  BY DEF Undo, Quiet
<1>2. PICK e \in Commits : e = install[i].expected /\ e # None
  BY <1>1, SwapIs
<1>3. /\ AtType /\ undo \in Seq(Moves) /\ failures \in Nat /\ install \in [Installers -> Calls]
      /\ install[i] \in Swaps /\ (failures <= 1 => failures = 1 /\ Undoing(e))
  BY <1>1, <1>2, SwapIs DEF Inv, Types, Shape
<1>4. /\ UNCHANGED <<published, channel, stored, running, lock, install, before>>
      /\ undo # <<>> /\ undo' = Tail(undo)
  BY DEF Undo
<1>5. install' = [install EXCEPT ![i] = install[i]] /\ install'[i] = install[i]
  BY <1>3, <1>4
<1>6. undo' \in Seq(Moves) /\ Head(undo) \in Moves
  <2> HIDE DEF Moves
  <2> QED  BY <1>3, <1>4
<1>7. CASE /\ at' = IF Possible(Head(undo)) THEN Moved(Head(undo)) ELSE at
           /\ UNCHANGED failures
  <2>1. AtType'
    <3>1. at' \in [Locations \X PartSet -> Contents]
      BY <1>3, <1>6, <1>7, MovedTyped DEF AtType
    <3> QED  BY <3>1 DEF AtType
  <2>2. failures <= 1 => Undoing(e)'
    BY <1>2, <1>3, <1>4, <1>7, TakenBack
  <2>3. Shape(i)'
    BY <1>1, <1>2, <1>3, <1>5, <1>7, <2>2 DEF Shape
  <2>4. failures' \in Nat /\ failures <= failures'
    BY <1>3, <1>7
  <2> QED  BY <1>1, <1>3, <1>4, <1>5, <1>6, <2>1, <2>3, <2>4, SwapSteps
<1>8. CASE Fail /\ UNCHANGED at
  <2>1. failures' \in Nat /\ failures <= failures' /\ ~(failures' <= 1)
    BY <1>3, <1>8 DEF Fail
  <2>2. Shape(i)'
    BY <1>1, <1>5, <2>1 DEF Shape
  <2>3. AtType'
    BY <1>3, <1>8 DEF AtType
  <2> QED  BY <1>1, <1>3, <1>4, <1>5, <1>6, <2>1, <2>2, <2>3, SwapSteps
<1> QED  BY <1>7, <1>8 DEF Undo

\* The package is ready beside what is installed.
LEMMA UnpackedStep ==
    ASSUME Distinct, Inv, NEW i \in Installers, Unpacked(i)
    PROVE  Inv'
<1>1. install[i].at = "downloading" /\ install[i].at \in Quiet /\ install[i].at # "idle"
  BY DEF Unpacked, Quiet
<1>2. /\ Types /\ Locked /\ Kept /\ AtType /\ install \in [Installers -> Calls]
      /\ lock = i /\ install[i].channel = channel /\ \A j \in Installers \ {i} : install[j] = Idle
  BY <1>1, HolderOnly DEF Inv, Locked, Types
<1>3. PICK e \in Commits : e = install[i].expected
  BY <1>1, <1>2, CallsAre DEF Fetches
<1>4. UNCHANGED <<published, channel, stored, running, lock, undo, failures>>
  BY DEF Unpacked
<1> DEFINE r == [at |-> "out", n |-> 1, expected |-> e, channel |-> install[i].channel]
<1>5. install' = [install EXCEPT ![i] = r]
  BY <1>3 DEF Unpacked, At
<1>6. r \in Swaps /\ r \in Calls /\ r.at = "out" /\ r.n = 1 /\ r.expected = e
      /\ r.channel = install[i].channel
  BY <1>2 DEF Swaps, Calls, Types
<1> HIDE DEF r
<1>7. /\ install' \in [Installers -> Calls] /\ install'[i] = r /\ Locked' /\ ~Resting'
      /\ \A j \in Installers \ {i} : Shape(j)'
  BY <1>2, <1>4, <1>5, <1>6, OneSteps DEF Quiet
<1>8. \A l \in Locations, p \in PartSet :
         at'[<<l, p>>] = IF l = "candidate" THEN e
                         ELSE IF l = "previous" THEN None ELSE at[<<l, p>>]
  <2>1. DOMAIN at = Locations \X PartSet
    BY <1>2 DEF AtType
  <2>2. at' = [l \in Locations \X PartSet |->
                 IF l[1] = "candidate" THEN e ELSE IF l[1] = "previous" THEN None ELSE at[l]]
    BY <1>3, <2>1 DEF Unpacked
  <2> QED  BY <2>2
<1>9. AtType'
  <2>1. at' = [l \in Locations \X PartSet |->
                 IF l[1] = "candidate" THEN e ELSE IF l[1] = "previous" THEN None ELSE at[l]]
    BY <1>2, <1>3 DEF Unpacked, AtType
  <2> QED  BY <1>2, <2>1 DEF AtType, Contents
<1>10. before' = Place /\ before' \in [PartSet -> Contents]
       /\ \A p \in PartSet : before'[p] = at[<<"place", p>>]
  <2>1. before' = [p \in PartSet |-> at[<<"place", p>>]]
    BY PlaceIs DEF Unpacked
  <2>2. \A p \in PartSet : <<"place", p>> \in Locations \X PartSet
    BY DEF Locations
  <2> QED  BY <1>2, <2>1, <2>2, PlaceIs DEF AtType
<1>11. Swapping(e, 1)'
  <2>1. \A k \in 1..3 : Parts[k] \in PartSet /\ ~(k < 1)
    BY PartsAre DEF PartSet
  <2>2. \A p \in PartSet : Fresh(e, p)'
    BY <1>8, <1>10 DEF Fresh, Locations
  <2> QED  BY <2>1, <2>2 DEF Swapping
<1>12. Shape(i)'
  BY <1>6, <1>7, <1>11 DEF Shape
<1>13. Kept'
  <2>1. Resting
    BY <1>1, <1>2 DEF Resting, Quiet, Idle
  <2>2. WholeOf(Place) => WholeOf(before)'
    BY <1>10 DEF WholeOf
  <2> QED  BY <1>2, <1>4, <1>7, <2>1, <2>2 DEF Kept
<1>14. Types'
  BY <1>2, <1>4, <1>7, <1>9, <1>10 DEF Types
<1> QED  BY <1>7, <1>12, <1>13, <1>14 DEF Inv

-----------------------------------------------------------------------------
(* The end of a swap.                                                      *)

LEMMA EmptiedIs ==
    ASSUME AtType, at' = Emptied
    PROVE  AtType' /\ Place' = Place
<1>1. at' = [l \in Locations \X PartSet |-> IF l[1] = "place" THEN at[l] ELSE None]
  BY DEF Emptied, AtType
<1>2. AtType'
  BY <1>1 DEF AtType, Contents
<1>3. \A p \in PartSet : at'[<<"place", p>>] = at[<<"place", p>>]
  <2> TAKE p \in PartSet
  <2>1. <<"place", p>> \in Locations \X PartSet
    BY DEF Locations
  <2> QED  BY <1>1, <2>1
<1>4. Place' = [p \in PartSet |-> at'[<<"place", p>>]]
  BY PartsAre DEF Place
<1> QED  BY <1>2, <1>3, <1>4, PlaceIs

\* Every part of a release that is in is of that release.
LEMMA AllIn ==
    ASSUME Distinct, Inv, NEW i \in Installers, install[i].at = "installed"
    PROVE  /\ \A p \in PartSet : Place[p] = install[i].expected /\ Place[p] # None
           /\ WholeOf(Place)
<1>1. PICK e \in Commits : e = install[i].expected /\ e # None
  BY SwapIs DEF Quiet
<1>2. Swapping(e, 4)
  BY <1>1 DEF Inv, Shape
<1>3. \A k \in 1..3 : at[<<"place", Parts[k]>>] = e
  BY <1>2 DEF Swapping, Swapped
<1>4. \A p \in PartSet : Place[p] = e
  BY <1>3, PartsAre, PlaceIs DEF PartSet
<1> QED  BY <1>1, <1>4 DEF WholeOf

\* Every part that was taken out is back.
LEMMA AllBack ==
    ASSUME Distinct, Inv, NEW i \in Installers, install[i].at = "undoing", undo = <<>>,
           failures <= 1
    PROVE  /\ Place = before /\ WholeOf(Place)
           /\ \A p \in PartSet : Place[p] = None => p = "skills" /\ before[p] = None
<1>1. PICK e \in Commits : e = install[i].expected /\ e # None
  BY SwapIs DEF Quiet
<1>2. Undoing(e)
  BY <1>1 DEF Inv, Shape
<1>3. PICK k \in 1..3 :
        \/ undo = Back(k) /\ Swapping(e, k)
        \/ undo = <<Move(Parts[k], "previous", "place")>> \o Back(k)
  BY <1>2 DEF Undoing
<1>4. <<Move(Parts[k], "previous", "place")>> \o Back(k) # <<>>
  BY BackTyped
<1>5. k = 1
  <2>1. \A j \in 1..2 : Back(j + 1) # <<>>
    BY BackSteps
  <2>2. k # 1 => k - 1 \in 1..2 /\ k = (k - 1) + 1
    OBVIOUS
  <2>3. undo = Back(k)
    BY <1>3, <1>4
  <2> QED  BY <2>1, <2>2, <2>3
<1>6. \A j \in 1..3 : at[<<"place", Parts[j]>>] = before[Parts[j]]
  <2>1. Swapping(e, 1)
    BY <1>3, <1>4, <1>5
  <2>2. \A j \in 1..3 : ~(j < 1)
    OBVIOUS
  <2> QED  BY <2>1, <2>2 DEF Swapping, Fresh
<1>7. \A p \in PartSet : Place[p] = before[p]
  BY <1>6, PartsAre, PlaceIs DEF PartSet
<1>8. Place = before
  BY <1>7, PlaceIs DEF Inv, Types
<1>9. WholeOf(before)
  <2>1. ~Resting
    BY DEF Resting, Quiet
  <2> QED  BY <2>1 DEF Inv, Kept
<1>10. \A p \in PartSet : before[p] = None => p = "skills"
  BY <1>9, CommitsAreSomething
<1> QED  BY <1>8, <1>9, <1>10

\* A step after which nobody installs.
LEMMA RestSteps ==
    ASSUME Distinct, Inv, at' = Emptied, \A i \in Installers : install'[i] = Idle,
           install' \in [Installers -> Calls], lock' = Nobody,
           UNCHANGED <<published, stored, undo, failures, before>>,
           channel' \in Channels, running' \in Commits,
           failures <= 1 =>
               /\ WholeOf(Place)
               /\ \A p \in PartSet : Place[p] = None => p = "skills" /\ before[p] = None
    PROVE  Inv'
<1>1. AtType' /\ Place' = Place
  BY EmptiedIs DEF Inv, Types
<1>2. Types'
  BY <1>1 DEF Inv, Types
<1>3. Resting' /\ Locked' /\ \A i \in Installers : Shape(i)'
  BY DEF Resting, Locked, Shape, Idle, Quiet
<1>4. WholeOf(Place) => WholeOf(Place)'
  BY <1>1 DEF WholeOf
<1>5. Kept'
  BY <1>1, <1>3, <1>4 DEF Kept
<1> QED  BY <1>2, <1>3, <1>5 DEF Inv

LEMMA EndSteps ==
    ASSUME Distinct, Inv, NEW i \in Installers, Refused(i) \/ Finish(i)
    PROVE  Inv'
<1>1. install[i].at # "idle"
  BY DEF Refused, Finish
<1>2. /\ install' = [install EXCEPT ![i] = Idle] /\ lock' = Nobody /\ at' = Emptied
      /\ UNCHANGED <<published, channel, stored, running, undo, failures, before>>
  BY DEF Refused, Finish, Release, At
<1>3. /\ install \in [Installers -> Calls] /\ channel \in Channels /\ running \in Commits
      /\ \A j \in Installers \ {i} : install[j] = Idle
  BY <1>1, HolderOnly DEF Inv, Types
<1>4. (\A j \in Installers : install'[j] = Idle) /\ install' \in [Installers -> Calls]
  BY <1>2, <1>3 DEF Calls
<1>5. failures <= 1 =>
          /\ WholeOf(Place)
          /\ \A p \in PartSet : Place[p] = None => p = "skills" /\ before[p] = None
  BY AllBack, AllIn DEF Refused, Finish
<1> QED  BY <1>2, <1>3, <1>4, <1>5, RestSteps

LEMMA RestartStep ==
    ASSUME Distinct, Inv, Restart
    PROVE  Inv'
<1>1. /\ install' = [j \in Installers |-> Idle] /\ lock' = Nobody /\ at' = Emptied
      /\ UNCHANGED <<published, stored, undo, failures, before>>
      /\ channel' = stored /\ running' = Place["binary"] /\ Place["binary"] # None
  BY DEF Restart
<1>2. channel' \in Channels
  BY <1>1 DEF Inv, Types
<1>3. running' \in Commits
  <2>1. <<"place", "binary">> \in Locations \X PartSet /\ "binary" \in PartSet
    BY DEF Locations, PartSet
  <2>2. Place["binary"] \in Contents
    BY <2>1, PlaceIs DEF Inv, Types, AtType
  <2> QED  BY <1>1, <2>2 DEF Contents
<1>4. failures <= 1 =>
          /\ WholeOf(Place)
          /\ \A p \in PartSet : Place[p] = None => p = "skills" /\ before[p] = None
  <2>1. CASE Resting
    BY <2>1 DEF Inv, Kept
  <2>2. CASE ~Resting
    <3>1. PICK i \in Installers : install[i].at \notin Quiet
      BY <2>2 DEF Resting
    <3>2. install[i] \in Calls /\ install[i].at \notin Renaming \cup {"undoing"}
      BY DEF Restart, Inv, Types
    <3>3. install[i].at = "installed"
      BY <3>1, <3>2, CallsAre DEF Renaming
    <3> QED  BY <3>3, AllIn
  <2> QED  BY <2>1, <2>2
<1> QED  BY <1>1, <1>2, <1>3, <1>4, RestSteps DEF Calls

-----------------------------------------------------------------------------
(* The theorem.                                                            *)

LEMMA InstallInvariant ==
    ASSUME Distinct PROVE Spec => []Inv
<1>1. Init => Inv
  BY InstallInit
<1>2. Inv /\ [Next]_vars => Inv'
  <2> SUFFICES ASSUME Inv, [Next]_vars PROVE Inv'
    OBVIOUS
  <2>1. CASE UNCHANGED vars
    <3>1. UNCHANGED <<published, channel, stored, running, lock, install, at, undo,
                      failures, before>>
      BY <2>1 DEF vars
    <3>2. Types' /\ Locked'
      BY <3>1 DEF Inv, Types, Locked, AtType
    <3> QED  BY <3>1, <3>2, NothingMoves DEF Inv
  <2>2. CASE Publish \/ SetChannel \/ \E i \in Installers : Ask(i) \/ Fetch(i) \/ GiveUp(i)
    BY <2>2, QuietSteps
  <2>3. CASE Restart
    BY <2>3, RestartStep
  <2>4. ASSUME NEW i \in Installers,
               \/ Unpacked(i) \/ TakeOut(i) \/ PutIn(i) \/ Undo(i) \/ Refused(i) \/ Finish(i)
        PROVE  Inv'
    BY <2>4, UnpackedStep, TakeOutStep, PutInStep, UndoStep, EndSteps
  <2> QED  BY <2>1, <2>2, <2>3, <2>4 DEF Next
<1> QED  BY <1>1, <1>2, PTL DEF Spec

\* In the middle of a swap each part is where it was, in place or out of it.
LEMMA PartsInSwap ==
    ASSUME Distinct, Inv, NEW i \in Installers, install[i].at \notin Quiet,
           NEW e, e = install[i].expected, NEW p \in PartSet,
           install[i].at = "undoing" => failures <= 1
    PROVE  Fresh(e, p) \/ TakenOut(e, p) \/ Swapped(e, p)
<1>1. install[i] \in Swaps /\ \E k \in 1..3 : p = Parts[k]
  BY SwapIs, PartsAre DEF PartSet
<1>2. \A n \in 1..4 : Swapping(e, n) => Fresh(e, p) \/ Swapped(e, p)
  BY <1>1 DEF Swapping
<1>3. \A n \in 1..3 : Halfway(e, n) => Fresh(e, p) \/ TakenOut(e, p) \/ Swapped(e, p)
  BY <1>1 DEF Halfway
<1>4. install[i].n \in 1..3
  BY SwapIs
<1>5. \A n \in 1..3 : n \in 1..4
  OBVIOUS
<1>6. CASE install[i].at = "undoing"
  BY <1>2, <1>3, <1>5, <1>6 DEF Inv, Shape, Undoing
<1>7. CASE install[i].at # "undoing"
  <2>1. install[i].at \in {"out", "in", "installed"}
    BY <1>1, <1>7 DEF Swaps
  <2> QED  BY <1>2, <1>3, <1>4, <1>5, <2>1 DEF Inv, Shape
<1> QED  BY <1>6, <1>7

LEMMA SoundWhenInv ==
    ASSUME Distinct, Inv PROVE TypeOK /\ InstallSound
<1>1. TypeOK
  BY PartsAre DEF Inv, Types, AtType, Locked, TypeOK
<1>2. InstallAtomic
  <2> SUFFICES ASSUME failures <= 1
               PROVE  /\ lock = Nobody => Whole
                      /\ \A i \in Installers :
                           /\ install[i].at = "installed" =>
                                  \A p \in PartSet : Place[p] = install[i].expected
                           /\ install[i].at = "undoing" /\ undo = <<>> => Place = before
                      /\ \A p \in PartSet :
                           Place[p] = None => \/ at[<<"previous", p>>] # None
                                              \/ p = "skills" /\ before[p] = None
    BY PartsAre DEF InstallAtomic
  <2>1. lock = Nobody => Whole
    <3> SUFFICES ASSUME lock = Nobody PROVE Whole
      OBVIOUS
    <3>1. Resting
      BY DEF Inv, Locked, Distinct, Resting, Quiet
    <3> QED  BY <3>1, PartsAre DEF Inv, Kept, WholeOf, Whole
  <2>2. \A i \in Installers :
           /\ install[i].at = "installed" => \A p \in PartSet : Place[p] = install[i].expected
           /\ install[i].at = "undoing" /\ undo = <<>> => Place = before
    BY AllIn, AllBack
  <2>3. ASSUME NEW p \in PartSet, Place[p] = None
        PROVE  at[<<"previous", p>>] # None \/ (p = "skills" /\ before[p] = None)
    <3>1. CASE Resting
      BY <2>3, <3>1 DEF Inv, Kept
    <3>2. CASE ~Resting
      <4>1. PICK i \in Installers : install[i].at \notin Quiet
        BY <3>2 DEF Resting
      <4>2. PICK e \in Commits : e = install[i].expected /\ e # None
        BY <4>1, SwapIs
      <4>3. Fresh(e, p) \/ TakenOut(e, p) \/ Swapped(e, p)
        BY <4>1, <4>2, PartsInSwap
      <4>4. at[<<"place", p>>] = None
        BY <2>3, PlaceIs
      <4>5. before[p] = None => p = "skills"
        BY <4>1, SwapIs
      <4> QED  BY <4>2, <4>3, <4>4, <4>5 DEF Fresh, TakenOut, Swapped
    <3> QED  BY <3>1, <3>2
  <2> QED  BY <2>1, <2>2, <2>3
<1>3. InstalledAsAsked
  <2> SUFFICES ASSUME NEW i \in Installers, install[i].at \in Renaming \cup {"installed"}
               PROVE  /\ install[i].channel = channel
                      /\ \A p \in PartSet : Place[p] \in {None, before[p], install[i].expected}
    BY PartsAre DEF InstalledAsAsked
  <2>1. install[i].at \notin Quiet /\ install[i].at # "undoing"
    BY DEF Renaming, Quiet
  <2>2. install[i].channel = channel
    BY <2>1 DEF Inv, Locked, Quiet
  <2>3. PICK e \in Commits : e = install[i].expected
    BY <2>1, SwapIs
  <2>4. \A p \in PartSet : Fresh(e, p) \/ TakenOut(e, p) \/ Swapped(e, p)
    BY <2>1, <2>3, PartsInSwap
  <2>5. \A p \in PartSet : Place[p] = at[<<"place", p>>]
    BY PlaceIs
  <2> QED  BY <2>2, <2>3, <2>4, <2>5 DEF Fresh, TakenOut, Swapped
<1> QED  BY <1>1, <1>2, <1>3 DEF InstallSound

\* What an installation may assume of its configuration: a release is not nothing,
\* and an installer is not nobody.  Then, whatever is published, whichever browsers
\* ask and change the channel, whichever of the renames of replace_installation and
\* of its rollback fail and whenever the server is started again: with at most one
\* failure a call ends with the release that was asked for in place, whole, or with
\* everything as it was, no part is ever without a copy, and what goes in is the
\* release the user was shown, of the channel the user has chosen.
THEOREM InstallsAreSound ==
    ASSUME Distinct PROVE Spec => []InstallSound
<1>1. Inv => InstallSound
  BY SoundWhenInv
<1> QED  BY <1>1, InstallInvariant, PTL

\* Where an installation and its files can be: a call that is under way is the one
\* that holds install_lock, and each part's places hold a release or nothing.
THEOREM InstallTypeCorrect ==
    ASSUME Distinct PROVE Spec => []TypeOK
<1>1. Inv => TypeOK
  BY SoundWhenInv
<1> QED  BY <1>1, InstallInvariant, PTL

-----------------------------------------------------------------------------
(***************************************************************************)
(* What a release must be.  Each step that reads on has checked what it    *)
(* read: the limit is that of the body being read (Received), nothing of   *)
(* an archive is read but under an acceptable, signed manifest (Signed).   *)
(***************************************************************************)

\* The limits are numbers.
Limits == MaxMetadata \in Nat /\ MaxArchive \in Nat /\ MaxExtracted \in Nat /\ MaxExcess \in Nat

Kinds == {"manifest", "signature", "archive", "entries"}
Received == /\ body \in [of : Kinds, received : Nat]
            /\ body.of # "entries" => body.received <= BodyLimit
Signed   == body.of \in {"archive", "entries"} =>
                manifest.signer = "publisher" /\ Acceptable(manifest)
Written  == /\ unpacked \in [paths : SUBSET Required, bytes : Nat] /\ unpacked.bytes <= MaxExtracted
Verdict  == judged = "verified" => body.of = "entries" /\ unpacked.paths = Required
ReleaseInv == Received /\ Signed /\ Written /\ Verdict

LEMMA ReleaseStarts ==
    ASSUME Limits, ReleaseInit PROVE ReleaseInv
  BY DEF Limits, ReleaseInit, ReleaseInv, Received, Signed, Written, Verdict, Body, BodyLimit, Kinds

LEMMA ReleaseSteps ==
    ASSUME Limits, ReleaseInv, [ReleaseNext]_releaseVars PROVE ReleaseInv'
<1>1. /\ body \in [of : Kinds, received : Nat]
      /\ body.of # "entries" => body.received <= BodyLimit
      /\ unpacked \in [paths : SUBSET Required, bytes : Nat] /\ unpacked.bytes <= MaxExtracted
      /\ Signed /\ Verdict
  BY DEF ReleaseInv, Received, Written
<1>2. CASE UNCHANGED <<asked, body, manifest, unpacked>> /\ judged' \in {judged, "refused"}
  BY <1>1, <1>2 DEF ReleaseInv, Received, Signed, Written, Verdict, BodyLimit, Acceptable
<1>3. CASE ReadChunk
  <2>1. PICK n \in 1..(1 + MaxExcess) :
          IF Fits(n) THEN /\ body' = [body EXCEPT !.received = @ + n]
                          /\ UNCHANGED <<manifest, unpacked, judged>>
          ELSE RefuseRelease
    BY <1>3 DEF ReadChunk
  <2>2. CASE Fits(n)
    <3>1. /\ body' = [body EXCEPT !.received = @ + n]
          /\ UNCHANGED <<asked, manifest, unpacked, judged>>
      BY <1>3, <2>1, <2>2 DEF ReadChunk
    <3>2. n \in Nat
      BY DEF Limits
    <3>3. body' \in [of : Kinds, received : Nat] /\ body'.of = body.of
          /\ body'.received = body.received + n
      BY <1>1, <3>1, <3>2
    <3>4. BodyLimit' = BodyLimit
      BY <3>1, <3>3 DEF BodyLimit
    <3>5. Received'
      BY <2>2, <3>3, <3>4 DEF Received, Fits
    <3>6. Signed' /\ Written' /\ Verdict'
      BY <1>1, <3>1, <3>3 DEF Signed, Acceptable, Written, Verdict
    <3> QED  BY <3>5, <3>6 DEF ReleaseInv
  <2>3. CASE ~Fits(n)
    BY <1>2, <1>3, <2>1, <2>3 DEF ReadChunk, RefuseRelease
  <2> QED  BY <2>2, <2>3
<1>4. CASE BodyFails
  BY <1>2, <1>4 DEF BodyFails, RefuseRelease
<1>5. CASE ManifestEnds
  <2>1. /\ body' = Body("signature") /\ UNCHANGED <<asked, unpacked, judged>>
        /\ judged = "open"
    BY <1>5 DEF ManifestEnds, Reading
  <2>2. Received'
    BY <2>1 DEF Received, Body, BodyLimit, Kinds
  <2> QED  BY <1>1, <2>1, <2>2 DEF ReleaseInv, Signed, Written, Verdict, Body
<1>6. CASE SignatureEnds
  <2>1. CASE manifest.signer = "publisher" /\ Acceptable(manifest)
    <3>1. /\ body' = Body("archive") /\ UNCHANGED <<asked, manifest, unpacked, judged>>
          /\ judged = "open"
      BY <1>6, <2>1 DEF SignatureEnds, Reading
    <3>2. manifest.artifacts[1].size \in 1..MaxArchive
      BY <2>1 DEF Acceptable
    <3>3. BodyLimit' = Least(manifest.artifacts[1].size, MaxArchive)
      BY <3>1 DEF BodyLimit, Body
    <3>4. BodyLimit' >= 0
      BY <3>2, <3>3 DEF Least, Limits
    <3>5. Received'
      BY <3>1, <3>4 DEF Received, Body, Kinds
    <3>6. Signed'
      BY <2>1, <3>1 DEF Signed, Acceptable
    <3> QED  BY <1>1, <3>1, <3>5, <3>6 DEF ReleaseInv, Written, Verdict
  <2>2. CASE ~(manifest.signer = "publisher" /\ Acceptable(manifest))
    BY <1>2, <1>6, <2>2 DEF SignatureEnds, RefuseRelease
  <2> QED  BY <2>1, <2>2
<1>7. CASE ArchiveEnds
  <2>1. CASE body' = Body("entries") /\ UNCHANGED <<manifest, unpacked, judged>>
    <3>1. UNCHANGED asked /\ judged = "open" /\ body.of = "archive"
      BY <1>7 DEF ArchiveEnds, Reading
    <3>2. Received'
      BY <2>1 DEF Received, Body, Kinds
    <3>3. Signed'
      BY <1>1, <2>1, <3>1 DEF Signed, Acceptable
    <3> QED  BY <1>1, <2>1, <3>1, <3>2, <3>3 DEF ReleaseInv, Written, Verdict
  <2>2. CASE RefuseRelease
    BY <1>2, <1>7, <2>2 DEF ArchiveEnds, RefuseRelease
  <2> QED  BY <1>7, <2>1, <2>2 DEF ArchiveEnds
<1>8. CASE ReadEntry
  <2>1. PICK e \in [path : Required \cup {"outside"}, kind : {"file", "directory", "link"},
                    size : 0..1] :
          IF EntryAllowed(e)
          THEN /\ unpacked' =
                      [paths |-> unpacked.paths \cup IF e.kind = "file" THEN {e.path} ELSE {},
                       bytes |-> unpacked.bytes + e.size]
               /\ UNCHANGED <<body, manifest, judged>>
          ELSE RefuseRelease
    BY <1>8 DEF ReadEntry
  <2>2. CASE EntryAllowed(e)
    <3>1. /\ unpacked' = [paths |-> unpacked.paths \cup IF e.kind = "file" THEN {e.path} ELSE {},
                          bytes |-> unpacked.bytes + e.size]
          /\ UNCHANGED <<asked, body, manifest, judged>> /\ judged = "open"
      BY <1>8, <2>1, <2>2 DEF ReadEntry, Reading
    <3>2. e.path \in Required /\ unpacked.bytes + e.size <= MaxExtracted
      BY <2>2 DEF EntryAllowed
    <3>3. Written'
      BY <1>1, <3>1, <3>2 DEF Written
    <3>4. Received' /\ Signed' /\ Verdict'
      BY <1>1, <3>1 DEF Received, BodyLimit, Signed, Acceptable, Verdict
    <3> QED  BY <3>3, <3>4 DEF ReleaseInv
  <2>3. CASE ~EntryAllowed(e)
    BY <1>2, <1>8, <2>1, <2>3 DEF ReadEntry, RefuseRelease
  <2> QED  BY <2>2, <2>3
<1>9. CASE Verify
  <2>1. CASE RefuseRelease
    BY <1>2, <1>9, <2>1 DEF Verify, RefuseRelease
  <2>2. CASE /\ judged' = "verified" /\ UNCHANGED <<body, manifest, unpacked>>
             /\ Required = unpacked.paths
    <3>1. UNCHANGED asked /\ body.of = "entries"
      BY <1>9 DEF Verify, Reading
    <3> QED  BY <1>1, <2>2, <3>1
             DEF ReleaseInv, Received, BodyLimit, Signed, Acceptable, Written, Verdict
  <2> QED  BY <1>9, <2>1, <2>2 DEF Verify
<1> QED  BY <1>2, <1>3, <1>4, <1>5, <1>6, <1>7, <1>8, <1>9 DEF ReleaseNext, releaseVars

\* The limits are the MAX_..._BYTES of update.rs.  Whatever the host of the channel
\* serves, however it cuts it up and wherever it stops: no body grows past its limit,
\* nothing but a package's own files is written and no more of it than the limit, no
\* archive is downloaded but on the publisher's word for this channel, and a release
\* that is verified is whole and of the size that word gives it.
THEOREM ReleasesAreChecked ==
    ASSUME Limits PROVE ReleaseSpec => []ReleaseChecked
<1>1. ReleaseInit => ReleaseInv
  BY ReleaseStarts
<1>2. ReleaseInv /\ [ReleaseNext]_releaseVars => ReleaseInv'
  BY ReleaseSteps
<1>3. ReleaseInv => ReleaseChecked
  BY DEF ReleaseInv, Received, Signed, Written, Verdict, Acceptable, ReleaseChecked, Limits
<1> QED  BY <1>1, <1>2, <1>3, PTL DEF ReleaseSpec

-----------------------------------------------------------------------------
(***************************************************************************)
(* The order of versions.  Two lists of identifiers differ somewhere first,*)
(* or one begins with the other (FirstDifference); the order of lists is   *)
(* strict, total and transitive by that, and so is the order of versions.  *)
(***************************************************************************)

\* A core is three numbers; an identifier is a number or a name with a rank.
VersionParts == /\ Cores \subseteq [1..3 -> Nat] /\ Identifiers \subseteq (0..1) \X Nat
                /\ Longest \in Nat
Items == (0..1) \X Nat

LEMMA LeastNumber ==
    ASSUME NEW S \in SUBSET Nat, S # {}
    PROVE  \E m \in S : \A n \in S : m <= n
<1>1. PICK m \in S : \A n \in S : <<n, m>> \notin OpToRel(<, Nat)
  BY WFMin, NatLessThanWellFounded, Zenon
<1>2. \A n \in S : ~(n < m)
  BY <1>1, Zenon DEF OpToRel
<1> QED  BY <1>2

LEMMA ItemsOrdered ==
    ASSUME NEW a \in Items, NEW b \in Items
    PROVE  /\ IdentifierBelow(a, b) \/ IdentifierBelow(b, a) \/ a = b
           /\ ~(IdentifierBelow(a, b) /\ IdentifierBelow(b, a)) /\ ~IdentifierBelow(a, a)
           /\ \A c \in Items :
                 IdentifierBelow(a, b) /\ IdentifierBelow(b, c) => IdentifierBelow(a, c)
  BY DEF Items, IdentifierBelow

\* Two lists differ somewhere first, or one begins with the other.
LEMMA FirstDifference ==
    ASSUME NEW s \in Seq(Items), NEW t \in Seq(Items)
    PROVE  \/ \E n \in (1..Len(s)) \cap (1..Len(t)) : Agree(s, t, n - 1) /\ s[n] # t[n]
           \/ \A k \in (1..Len(s)) \cap (1..Len(t)) : s[k] = t[k]
<1> DEFINE D == {k \in (1..Len(s)) \cap (1..Len(t)) : s[k] # t[k]}
<1>1. CASE D = {}
  BY <1>1
<1>2. CASE D # {}
  <2>1. D \in SUBSET Nat
    OBVIOUS
  <2>2. PICK n \in D : \A k \in D : n <= k
    BY <1>2, <2>1, LeastNumber
  <2>3. n \in (1..Len(s)) \cap (1..Len(t)) /\ s[n] # t[n]
    BY <2>2
  <2>4. \A k \in 1..(n - 1) : k \in (1..Len(s)) \cap (1..Len(t)) /\ ~(n <= k)
    BY <2>3
  <2>5. Agree(s, t, n - 1)
    BY <2>2, <2>4 DEF Agree
  <2> QED  BY <2>3, <2>5
<1> QED  BY <1>1, <1>2

LEMMA AgreeBack ==
    ASSUME NEW s, NEW t, NEW n
    PROVE  Agree(s, t, n) <=> Agree(t, s, n)
  BY DEF Agree

LEMMA LexicographicMeans ==
    ASSUME NEW s \in Seq(Items), NEW t \in Seq(Items)
    PROVE  Lexicographic(s, t) <=>
               \/ \E n \in (1..Len(s)) \cap (1..Len(t)) :
                      Agree(s, t, n - 1) /\ IdentifierBelow(s[n], t[n])
               \/ Len(s) < Len(t) /\ \A k \in 1..Len(s) : s[k] = t[k]
<1>1. DOMAIN s = 1..Len(s) /\ DOMAIN t = 1..Len(t)
  OBVIOUS
<1>2. Len(s) < Len(t) => DOMAIN s \cap DOMAIN t = 1..Len(s)
  BY <1>1
<1> QED  BY <1>2 DEF Lexicographic, PrefixOrder

LEMMA ListsComparable ==
    ASSUME NEW s \in Seq(Items), NEW t \in Seq(Items)
    PROVE  Lexicographic(s, t) \/ Lexicographic(t, s) \/ s = t
<1>1. CASE \E n \in (1..Len(s)) \cap (1..Len(t)) : Agree(s, t, n - 1) /\ s[n] # t[n]
  <2>1. PICK n \in (1..Len(s)) \cap (1..Len(t)) : Agree(s, t, n - 1) /\ s[n] # t[n]
    BY <1>1
  <2>2. s[n] \in Items /\ t[n] \in Items
    BY <2>1 DEF Items
  <2>3. IdentifierBelow(s[n], t[n]) \/ IdentifierBelow(t[n], s[n])
    BY <2>1, <2>2, ItemsOrdered
  <2>4. Agree(t, s, n - 1)
    BY <2>1, AgreeBack
  <2> QED  BY <2>1, <2>3, <2>4, LexicographicMeans
<1>2. CASE \A k \in (1..Len(s)) \cap (1..Len(t)) : s[k] = t[k]
  <2>1. CASE Len(s) < Len(t)
    <3>1. \A k \in 1..Len(s) : s[k] = t[k]
      BY <1>2, <2>1
    <3> QED  BY <2>1, <3>1, LexicographicMeans
  <2>2. CASE Len(t) < Len(s)
    <3>1. \A k \in 1..Len(t) : t[k] = s[k]
      BY <1>2, <2>2
    <3> QED  BY <2>2, <3>1, LexicographicMeans
  <2>3. CASE Len(s) = Len(t)
    <3>1. s = t
      <4>1. \A k \in 1..Len(s) : s[k] = t[k]
        BY <1>2, <2>3
      <4> QED  BY <2>3, <4>1, SeqEqual, Zenon
    <3> QED  BY <3>1
  <2> QED  BY <2>1, <2>2, <2>3
<1> QED  BY <1>1, <1>2, FirstDifference

LEMMA ListsStrict ==
    ASSUME NEW s \in Seq(Items), NEW t \in Seq(Items), Lexicographic(s, t)
    PROVE  ~Lexicographic(t, s) /\ s # t
<1>1. \A k \in 1..Len(s) : s[k] \in Items
  BY DEF Items
<1>2. \A k \in 1..Len(t) : t[k] \in Items
  BY DEF Items
<1>3. CASE \E n \in (1..Len(s)) \cap (1..Len(t)) :
               Agree(s, t, n - 1) /\ IdentifierBelow(s[n], t[n])
  <2>1. PICK n \in (1..Len(s)) \cap (1..Len(t)) :
               Agree(s, t, n - 1) /\ IdentifierBelow(s[n], t[n])
    BY <1>3
  <2>2. s[n] # t[n] /\ ~IdentifierBelow(t[n], s[n])
    BY <1>1, <1>2, <2>1, ItemsOrdered
  <2>3. ~(Len(t) < Len(s) /\ \A k \in 1..Len(t) : t[k] = s[k])
    BY <2>1, <2>2
  <2>4. ASSUME NEW m \in (1..Len(s)) \cap (1..Len(t)), Agree(t, s, m - 1),
               IdentifierBelow(t[m], s[m])
        PROVE  FALSE
    <3>1. t[m] # s[m]
      BY <1>1, <1>2, <2>4, ItemsOrdered
    <3>2. m # n
      BY <2>2, <2>4
    <3>3. m < n => m \in 1..(n - 1)
      OBVIOUS
    <3>4. n < m => n \in 1..(m - 1)
      OBVIOUS
    <3> QED  BY <2>1, <2>2, <2>4, <3>1, <3>2, <3>3, <3>4 DEF Agree
  <2> QED  BY <2>2, <2>3, <2>4, LexicographicMeans
<1>4. CASE Len(s) < Len(t) /\ \A k \in 1..Len(s) : s[k] = t[k]
  <2>1. ASSUME NEW m \in (1..Len(s)) \cap (1..Len(t)), IdentifierBelow(t[m], s[m])
        PROVE  FALSE
    BY <1>1, <1>4, <2>1, ItemsOrdered
  <2> QED  BY <1>4, <2>1, LexicographicMeans
<1> QED  BY <1>3, <1>4, LexicographicMeans

LEMMA ListsTransitive ==
    ASSUME NEW s \in Seq(Items), NEW t \in Seq(Items), NEW u \in Seq(Items),
           Lexicographic(s, t), Lexicographic(t, u)
    PROVE  Lexicographic(s, u)
<1>1. /\ \A k \in 1..Len(s) : s[k] \in Items
      /\ \A k \in 1..Len(t) : t[k] \in Items
      /\ \A k \in 1..Len(u) : u[k] \in Items
      /\ Len(s) \in Nat /\ Len(t) \in Nat /\ Len(u) \in Nat
  BY DEF Items
<1>2. ASSUME NEW n \in (1..Len(s)) \cap (1..Len(u)), Agree(s, u, n - 1), IdentifierBelow(s[n], u[n])
      PROVE  Lexicographic(s, u)
  BY <1>2, LexicographicMeans
<1>3. CASE \E n \in (1..Len(s)) \cap (1..Len(t)) :
               Agree(s, t, n - 1) /\ IdentifierBelow(s[n], t[n])
  <2>1. PICK n \in (1..Len(s)) \cap (1..Len(t)) :
               Agree(s, t, n - 1) /\ IdentifierBelow(s[n], t[n])
    BY <1>3
  <2>2. CASE \E m \in (1..Len(t)) \cap (1..Len(u)) :
                 Agree(t, u, m - 1) /\ IdentifierBelow(t[m], u[m])
    <3>1. PICK m \in (1..Len(t)) \cap (1..Len(u)) :
                 Agree(t, u, m - 1) /\ IdentifierBelow(t[m], u[m])
      BY <2>2
    <3>2. CASE n < m
      <4>1. n \in (1..Len(s)) \cap (1..Len(u)) /\ n \in 1..(m - 1)
        BY <1>1, <3>2
      <4>2. t[n] = u[n]
        BY <3>1, <4>1 DEF Agree
      <4>3. \A k \in 1..(n - 1) : k \in 1..(m - 1)
        BY <3>2
      <4>4. Agree(s, u, n - 1)
        BY <2>1, <3>1, <4>3 DEF Agree
      <4>5. IdentifierBelow(s[n], u[n])
        BY <2>1, <4>2
      <4> QED  BY <1>2, <4>1, <4>4, <4>5
    <3>3. CASE m < n
      <4>1. m \in (1..Len(s)) \cap (1..Len(u)) /\ m \in 1..(n - 1)
        BY <1>1, <3>3
      <4>2. s[m] = t[m]
        BY <2>1, <4>1 DEF Agree
      <4>3. \A k \in 1..(m - 1) : k \in 1..(n - 1)
        BY <3>3
      <4>4. Agree(s, u, m - 1)
        BY <2>1, <3>1, <4>3 DEF Agree
      <4>5. IdentifierBelow(s[m], u[m])
        BY <3>1, <4>2
      <4> QED  BY <1>2, <4>1, <4>4, <4>5
    <3>4. CASE n = m
      <4>1. n \in (1..Len(s)) \cap (1..Len(u))
        BY <3>4
      <4>2. Agree(s, u, n - 1)
        BY <2>1, <3>1, <3>4 DEF Agree
      <4>3. s[n] \in Items /\ t[n] \in Items /\ u[n] \in Items
        BY <1>1, <4>1
      <4>4. IdentifierBelow(s[n], u[n])
        BY <2>1, <3>1, <3>4, <4>3, ItemsOrdered
      <4> QED  BY <1>2, <4>1, <4>2, <4>4
    <3> QED  BY <3>2, <3>3, <3>4
  <2>3. CASE Len(t) < Len(u) /\ \A k \in 1..Len(t) : t[k] = u[k]
    <3>1. n \in (1..Len(s)) \cap (1..Len(u))
      BY <1>1, <2>3
    <3>2. \A k \in 1..(n - 1) : k \in 1..Len(t)
      BY <1>1
    <3>3. Agree(s, u, n - 1)
      BY <2>1, <2>3, <3>2 DEF Agree
    <3>4. IdentifierBelow(s[n], u[n])
      BY <2>1, <2>3
    <3> QED  BY <1>2, <3>1, <3>3, <3>4
  <2> QED  BY <2>2, <2>3, LexicographicMeans
<1>4. CASE Len(s) < Len(t) /\ \A k \in 1..Len(s) : s[k] = t[k]
  <2>1. CASE \E m \in (1..Len(t)) \cap (1..Len(u)) :
                 Agree(t, u, m - 1) /\ IdentifierBelow(t[m], u[m])
    <3>1. PICK m \in (1..Len(t)) \cap (1..Len(u)) :
                 Agree(t, u, m - 1) /\ IdentifierBelow(t[m], u[m])
      BY <2>1
    <3>2. CASE m <= Len(s)
      <4>1. m \in (1..Len(s)) \cap (1..Len(u)) /\ s[m] = t[m]
        BY <1>1, <1>4, <3>2
      <4>2. \A k \in 1..(m - 1) : k \in 1..Len(s)
        BY <1>1, <3>2
      <4>3. Agree(s, u, m - 1)
        BY <1>4, <3>1, <4>2 DEF Agree
      <4>4. IdentifierBelow(s[m], u[m])
        BY <3>1, <4>1
      <4> QED  BY <1>2, <4>1, <4>3, <4>4
    <3>3. CASE Len(s) < m
      <4>1. Len(s) < Len(u) /\ \A k \in 1..Len(s) : k \in 1..(m - 1)
        BY <1>1, <3>3
      <4>2. \A k \in 1..Len(s) : s[k] = u[k]
        BY <1>4, <3>1, <4>1 DEF Agree
      <4> QED  BY <4>1, <4>2, LexicographicMeans
    <3> QED  BY <1>1, <3>2, <3>3
  <2>2. CASE Len(t) < Len(u) /\ \A k \in 1..Len(t) : t[k] = u[k]
    <3>1. Len(s) < Len(u) /\ \A k \in 1..Len(s) : k \in 1..Len(t)
      BY <1>1, <1>4, <2>2
    <3>2. \A k \in 1..Len(s) : s[k] = u[k]
      BY <1>4, <2>2, <3>1
    <3> QED  BY <3>1, <3>2, LexicographicMeans
  <2> QED  BY <2>1, <2>2, LexicographicMeans
<1> QED  BY <1>3, <1>4, LexicographicMeans

-----------------------------------------------------------------------------
(* Versions.                                                               *)

LEMMA VersionsAre ==
    ASSUME VersionParts, NEW v \in Versions
    PROVE  /\ Numbered(v.core) \in Seq(Items) /\ v.pre \in Seq(Items)
           /\ v.core \in Cores /\ v.core \in [1..3 -> Nat] /\ v.pre \in Seq(Identifiers)
           /\ v = [core |-> v.core, pre |-> v.pre]
<1>1. /\ v.core \in Cores /\ v = [core |-> v.core, pre |-> v.pre]
      /\ v.pre \in UNION {[1..n -> Identifiers] : n \in 0..Longest}
  BY DEF Versions
<1>2. v.core \in [1..3 -> Nat]
  BY <1>1 DEF VersionParts
<1>3. Numbered(v.core) = [k \in 1..3 |-> <<0, v.core[k]>>]
  BY <1>2 DEF Numbered
<1>4. Numbered(v.core) \in [1..3 -> Items]
  BY <1>2, <1>3 DEF Items
<1>5. Numbered(v.core) \in Seq(Items)
  <2>1. \A n \in Nat : [1..n -> Items] \subseteq Seq(Items)
    OBVIOUS
  <2> QED  BY <1>4, <2>1
<1>6. PICK n \in 0..Longest : v.pre \in [1..n -> Identifiers]
  BY <1>1
<1>7. n \in Nat
  BY DEF VersionParts
<1>8. v.pre \in Seq(Identifiers)
  BY <1>6, <1>7
<1>9. v.pre \in Seq(Items)
  BY <1>6, <1>7 DEF VersionParts, Items
<1> QED  BY <1>1, <1>2, <1>5, <1>8, <1>9

LEMMA NumberedIs ==
    ASSUME NEW c \in [1..3 -> Nat], NEW d \in [1..3 -> Nat], Numbered(c) = Numbered(d)
    PROVE  c = d
<1>1. \A k \in 1..3 : Numbered(c)[k] = <<0, c[k]>> /\ Numbered(d)[k] = <<0, d[k]>>
  BY DEF Numbered
<1>2. \A k \in 1..3 : c[k] = d[k]
  BY <1>1
<1> QED  BY <1>2

\* ReleaseVersion::cmp is a strict total order.
LEMMA VersionsComparable ==
    ASSUME VersionParts, NEW v \in Versions, NEW w \in Versions
    PROVE  Below(v, w) \/ Below(w, v) \/ v = w
<1>1. /\ Numbered(v.core) \in Seq(Items) /\ v.pre \in Seq(Items) /\ v.core \in [1..3 -> Nat]
      /\ Numbered(w.core) \in Seq(Items) /\ w.pre \in Seq(Items) /\ w.core \in [1..3 -> Nat]
      /\ v = [core |-> v.core, pre |-> v.pre] /\ w = [core |-> w.core, pre |-> w.pre]
  BY VersionsAre
<1>2. CASE v.core # w.core
  <2>1. Numbered(v.core) # Numbered(w.core)
    BY <1>1, <1>2, NumberedIs
  <2>2. \/ Lexicographic(Numbered(v.core), Numbered(w.core))
        \/ Lexicographic(Numbered(w.core), Numbered(v.core))
    BY <1>1, <2>1, ListsComparable
  <2> QED  BY <2>2 DEF Below
<1>3. CASE v.core = w.core
  <2>1. CASE v.pre = w.pre
    BY <1>1, <1>3, <2>1
  <2>2. CASE v.pre # w.pre
    <3>1. Lexicographic(v.pre, w.pre) \/ Lexicographic(w.pre, v.pre)
      BY <1>1, <2>2, ListsComparable
    <3> QED  BY <1>3, <2>2, <3>1 DEF Below
  <2> QED  BY <2>1, <2>2
<1> QED  BY <1>2, <1>3

LEMMA VersionsStrict ==
    ASSUME VersionParts, NEW v \in Versions, NEW w \in Versions, Below(v, w)
    PROVE  ~Below(w, v) /\ v # w
<1>1. /\ Numbered(v.core) \in Seq(Items) /\ v.pre \in Seq(Items)
      /\ Numbered(w.core) \in Seq(Items) /\ w.pre \in Seq(Items)
  BY VersionsAre
<1>2. CASE Lexicographic(Numbered(v.core), Numbered(w.core))
  <2>1. /\ ~Lexicographic(Numbered(w.core), Numbered(v.core))
        /\ Numbered(v.core) # Numbered(w.core)
    BY <1>1, <1>2, ListsStrict
  <2>2. v.core # w.core
    BY <2>1
  <2> QED  BY <2>1, <2>2 DEF Below
<1>3. CASE ~Lexicographic(Numbered(v.core), Numbered(w.core))
  <2>1. v.core = w.core
    BY <1>3 DEF Below
  <2>2. ~Lexicographic(Numbered(w.core), Numbered(v.core))
    BY <1>3, <2>1
  <2>3. CASE v.pre # <<>> /\ w.pre = <<>>
    BY <2>1, <2>2, <2>3 DEF Below
  <2>4. CASE v.pre # <<>> /\ w.pre # <<>> /\ Lexicographic(v.pre, w.pre)
    <3>1. ~Lexicographic(w.pre, v.pre) /\ v.pre # w.pre
      BY <1>1, <2>4, ListsStrict
    <3> QED  BY <2>2, <2>4, <3>1 DEF Below
  <2> QED  BY <1>3, <2>3, <2>4 DEF Below
<1> QED  BY <1>2, <1>3

LEMMA VersionsTransitive ==
    ASSUME VersionParts, NEW u \in Versions, NEW v \in Versions, NEW w \in Versions,
           Below(u, v), Below(v, w)
    PROVE  Below(u, w)
<1> DEFINE Core(x) == Numbered(x.core)
<1>1. /\ Core(u) \in Seq(Items) /\ u.pre \in Seq(Items)
      /\ Core(v) \in Seq(Items) /\ v.pre \in Seq(Items)
      /\ Core(w) \in Seq(Items) /\ w.pre \in Seq(Items)
  BY VersionsAre
<1>2. CASE Lexicographic(Core(u), Core(v)) /\ Lexicographic(Core(v), Core(w))
  <2>1. Lexicographic(Core(u), Core(w))
    BY <1>1, <1>2, ListsTransitive
  <2> QED  BY <2>1 DEF Below
<1>3. CASE Lexicographic(Core(u), Core(v)) /\ ~Lexicographic(Core(v), Core(w))
  <2>1. v.core = w.core
    BY <1>3 DEF Below
  <2> QED  BY <1>3, <2>1 DEF Below
<1>4. CASE ~Lexicographic(Core(u), Core(v)) /\ Lexicographic(Core(v), Core(w))
  <2>1. u.core = v.core
    BY <1>4 DEF Below
  <2> QED  BY <1>4, <2>1 DEF Below
<1>5. CASE ~Lexicographic(Core(u), Core(v)) /\ ~Lexicographic(Core(v), Core(w))
  <2>1. /\ u.core = v.core /\ v.core = w.core
        /\ u.pre # <<>> /\ v.pre # <<>>
        /\ (v.pre = <<>> \/ Lexicographic(u.pre, v.pre))
    BY <1>5 DEF Below
  <2>2. u.pre # <<>> /\ Lexicographic(u.pre, v.pre)
    BY <2>1
  <2>3. CASE w.pre = <<>>
    BY <2>1, <2>2, <2>3 DEF Below
  <2>4. CASE w.pre # <<>>
    <3>1. Lexicographic(v.pre, w.pre)
      BY <1>5, <2>4 DEF Below
    <3>2. Lexicographic(u.pre, w.pre)
      BY <1>1, <2>2, <3>1, ListsTransitive
    <3> QED  BY <2>1, <2>2, <2>4, <3>2 DEF Below
  <2> QED  BY <2>3, <2>4
<1> QED  BY <1>2, <1>3, <1>4, <1>5

\* A longer list of identifiers is above the shorter one, and a release above all.
LEMMA LongerIsAbove ==
    ASSUME VersionParts, NEW v \in Versions, NEW i \in Identifiers
    PROVE  /\ Below([v EXCEPT !.pre = Append(@, i)],
                    [v EXCEPT !.pre = IF @ = <<>> THEN @ ELSE Append(Append(@, i), i)])
           /\ v.pre = <<>> => Below([v EXCEPT !.pre = <<i>>], v)
<1> DEFINE p == Append(v.pre, i)
           q == Append(p, i)
<1>1. v.pre \in Seq(Identifiers) /\ v = [core |-> v.core, pre |-> v.pre]
  BY VersionsAre
<1>2. /\ p \in Seq(Identifiers) /\ q \in Seq(Identifiers) /\ p # <<>> /\ q # <<>>
      /\ Len(p) < Len(q) /\ \A k \in 1..Len(p) : p[k] = q[k]
  BY <1>1
<1>3. Lexicographic(p, q)
  <2>1. DOMAIN p \cap DOMAIN q \subseteq 1..Len(p)
    BY <1>2
  <2> QED  BY <1>2, <2>1 DEF Lexicographic, PrefixOrder
<1>4. [v EXCEPT !.pre = Append(@, i)] = [core |-> v.core, pre |-> p]
  BY <1>1
<1> HIDE DEF p, q
<1>5. CASE v.pre = <<>>
  <2>1. [v EXCEPT !.pre = IF @ = <<>> THEN @ ELSE Append(Append(@, i), i)] = v
    BY <1>1, <1>5
  <2>2. [v EXCEPT !.pre = <<i>>] = [core |-> v.core, pre |-> <<i>>] /\ <<i>> # <<>>
    BY <1>1
  <2> QED  BY <1>2, <1>4, <1>5, <2>1, <2>2 DEF Below
<1>6. CASE v.pre # <<>>
  <2>1. [v EXCEPT !.pre = IF @ = <<>> THEN @ ELSE Append(Append(@, i), i)]
            = [core |-> v.core, pre |-> q]
    BY <1>1, <1>6 DEF p, q
  <2> QED  BY <1>2, <1>3, <1>4, <1>6, <2>1 DEF Below
<1> QED  BY <1>5, <1>6

LEMMA OrderedWhenVersions ==
    ASSUME VersionParts, compared \in Versions \X Versions \X Versions
    PROVE  VersionsOrdered
<1>1. PICK u \in Versions, v \in Versions, w \in Versions : compared = <<u, v, w>>
  OBVIOUS
<1>2. compared[1] = u /\ compared[2] = v /\ compared[3] = w
  BY <1>1
<1>3. (u = v) = (~Below(u, v) /\ ~Below(v, u))
  BY VersionsComparable, VersionsStrict
<1>4. ~(Below(u, v) /\ Below(v, u))
  BY VersionsStrict
<1>5. Below(u, v) /\ Below(v, w) => Below(u, w)
  BY VersionsTransitive
<1>6. State(u, v) = "older" => State(v, u) = "available"
  BY <1>4 DEF State
<1>7. \A i \in Identifiers :
         /\ Below([v EXCEPT !.pre = Append(@, i)],
                  [v EXCEPT !.pre = IF @ = <<>> THEN @ ELSE Append(Append(@, i), i)])
         /\ v.pre = <<>> => Below([v EXCEPT !.pre = <<i>>], v)
  BY LongerIsAbove
<1> QED  BY <1>2, <1>3, <1>4, <1>5, <1>6, <1>7 DEF VersionsOrdered

\* A version's core is three numbers, and an identifier a number or a name, which
\* has its rank among the names.  Whatever versions are published, in whatever
\* order, and however many identifiers they have: the order in which ReleaseVersion
\* puts them is total and strict, so of two releases of different versions exactly
\* one is an update of the other.
THEOREM VersionsAreOrdered ==
    ASSUME VersionParts PROVE VersionSpec => []VersionsOrdered
<1> DEFINE Three == compared \in Versions \X Versions \X Versions
<1>1. VersionInit => Three
  BY DEF VersionInit
<1>2. Three /\ [VersionNext]_versionVars => Three'
  BY DEF VersionNext, versionVars
<1>3. Three => VersionsOrdered
  BY OrderedWhenVersions
<1> QED  BY <1>1, <1>2, <1>3, PTL DEF VersionSpec
=============================================================================
