---------------------------- MODULE UpdateInstall ----------------------------
(***************************************************************************)
(* Updates (update.rs; install_update in api.rs).  A release is its commit.*)
(* What is fetched is looked at in a state machine of its own, below: in   *)
(* this one it comes or fails.  The installation's three parts are swapped *)
(* by renames, one step each, because the process may die between two.     *)
(***************************************************************************)
EXTENDS Naturals, FiniteSets, Sequences, SequencesExt

CONSTANTS Channels,      \* main and beta
          Commits,
          Installers,    \* install calls of browsers
          Nobody,
          MaxFailures,   \* bound: renames that fail
          MaxPublished   \* bound: releases published

VARIABLES
    published,   \* channel -> commit of its latest release
    releases,    \* releases published so far
    channel,     \* the channel in memory
    stored,      \* the one in update-settings.json
    running,     \* build::COMMIT of the running server
    lock,        \* install_lock: an installer
    install,     \* installer -> where its call is
    at,          \* <<location, part>> -> which commit's part is there
    undo,        \* renames a failed swap still has to take back
    failures,    \* renames that have failed
    before       \* history: what was installed when the swap began

vars == <<published, releases, channel, stored, running, lock, install, at,
          undo, failures, before>>

Parts == <<"client", "skills", "binary">>
Locations == {"place", "previous", "candidate"}
None == "none"
Idle == [at |-> "idle"]
Place == [p \in Range(Parts) |-> at[<<"place", p>>]]
Renaming == {"out", "in"}

At(i, r) == install' = [install EXCEPT ![i] = r]
Release(i) == At(i, Idle) /\ lock' = Nobody

(***************************************************************************)
(* Up to the swap.                                                         *)
(***************************************************************************)
Publish ==
    /\ releases < MaxPublished /\ releases' = releases + 1
    /\ \E ch \in Channels, c \in Commits : published' = [published EXCEPT ![ch] = c]
    /\ UNCHANGED <<channel, stored, running, lock, install, at, undo, failures, before>>

\* set_channel: refused while an installation runs; the file first.
\* Mutant: it does not look at the installation.
FaultySettled == TRUE
Settled == lock = Nobody
SetChannel ==
    /\ Settled
    /\ \E ch \in Channels \ {channel} :
         \/ stored' = ch /\ channel' = ch
         \/ stored' = ch /\ UNCHANGED channel   \* only the last flush failed
    /\ UNCHANGED <<published, releases, running, lock, install, at, undo, failures,
                   before>>

\* A check showed the user a release; the user asks for that one.
Ask(i) ==
    /\ install[i].at = "idle" /\ lock = Nobody /\ lock' = i
    /\ \E c \in Commits : At(i, [at |-> "fetching", expected |-> c, channel |-> channel])
    /\ UNCHANGED <<published, releases, channel, stored, running, at, undo,
                   failures, before>>
Fetch(i) ==
    /\ install[i].at = "fetching"
    /\ LET c == published[install[i].channel] IN
         IF c # install[i].expected \/ c = running THEN Release(i)
         ELSE /\ At(i, [install[i] EXCEPT !.at = "downloading"])
              /\ UNCHANGED lock
    /\ UNCHANGED <<published, releases, channel, stored, running, at, undo,
                   failures, before>>
\* The download fails, or the browser hangs up.
GiveUp(i) ==
    /\ install[i].at \in {"fetching", "downloading"} /\ Release(i)
    /\ UNCHANGED <<published, releases, channel, stored, running, at, undo,
                   failures, before>>
Unpacked(i) ==
    /\ install[i].at = "downloading"
    /\ At(i, [at |-> "out", n |-> 1, expected |-> install[i].expected,
              channel |-> install[i].channel])
    /\ at' = [l \in DOMAIN at |-> IF l[1] = "candidate" THEN install[i].expected
                                  ELSE IF l[1] = "previous" THEN None ELSE at[l]]
    /\ before' = Place
    /\ UNCHANGED <<published, releases, channel, stored, running, lock, undo, failures>>

(***************************************************************************)
(* replace_installation.                                                   *)
(***************************************************************************)
Move(part, from, to) == [part |-> part, from |-> from, to |-> to]
Moved(m) == [at EXCEPT ![<<m.to, m.part>>] = at[<<m.from, m.part>>],
                       ![<<m.from, m.part>>] = None]
Had(n) == at[<<"previous", Parts[n]>>] # None

\* rollback_directory of the parts before the n-th, the last first.
RollbackOf(n) ==
    <<Move(Parts[n], "place", "candidate")>>
        \o IF Had(n) THEN <<Move(Parts[n], "previous", "place")>> ELSE <<>>
\* Mutant: only the part swapped last is taken back.
FaultyRollback(n) == IF n = 1 THEN <<>> ELSE RollbackOf(n - 1)
Rollback(n) == CASE n = 1 -> <<>>
                 [] n = 2 -> RollbackOf(1)
                 [] n = 3 -> RollbackOf(2) \o RollbackOf(1)

Fail == failures < MaxFailures /\ failures' = failures + 1

TakeOut(i) ==
    LET n == install[i].n
        next == [install[i] EXCEPT !.at = "in"] IN
    /\ install[i].at = "out"
    /\ \/ /\ at[<<"place", Parts[n]>>] # None
          /\ at' = Moved(Move(Parts[n], "place", "previous"))
          /\ At(i, next) /\ UNCHANGED <<undo, failures>>
       \/ /\ at[<<"place", Parts[n]>>] = None   \* had_skills is false
          /\ Parts[n] = "skills"
          /\ At(i, next) /\ UNCHANGED <<at, undo, failures>>
       \/ /\ IF at[<<"place", Parts[n]>>] # None THEN Fail
             ELSE Parts[n] # "skills" /\ UNCHANGED failures
          /\ undo' = Rollback(n)
          /\ At(i, [install[i] EXCEPT !.at = "undoing"]) /\ UNCHANGED at
    /\ UNCHANGED <<published, releases, channel, stored, running, lock, before>>

PutIn(i) ==
    LET n == install[i].n IN
    /\ install[i].at = "in"
    /\ \/ /\ at' = Moved(Move(Parts[n], "candidate", "place"))
          /\ At(i, IF n = Len(Parts) THEN [install[i] EXCEPT !.at = "installed"]
                   ELSE [install[i] EXCEPT !.at = "out", !.n = n + 1])
          /\ UNCHANGED <<undo, failures>>
       \/ /\ Fail
          /\ undo' = (IF Had(n) THEN <<Move(Parts[n], "previous", "place")>>
                      ELSE <<>>) \o Rollback(n)
          /\ At(i, [install[i] EXCEPT !.at = "undoing"]) /\ UNCHANGED at
    /\ UNCHANGED <<published, releases, channel, stored, running, lock, before>>

\* One rename of the rollback; its own failure is ignored.  A directory is not
\* renamed over another one.
Possible(m) == /\ at[<<m.from, m.part>>] # None
               /\ m.part = "binary" \/ at[<<m.to, m.part>>] = None
Undo(i) ==
    /\ install[i].at = "undoing" /\ undo # <<>> /\ undo' = Tail(undo)
    /\ \/ /\ at' = IF Possible(Head(undo)) THEN Moved(Head(undo)) ELSE at
          /\ UNCHANGED failures
       \/ Fail /\ UNCHANGED at
    /\ UNCHANGED <<published, releases, channel, stored, running, lock, install,
                   before>>

\* The temporary directory goes with what is left in it.
Emptied == [l \in DOMAIN at |-> IF l[1] = "place" THEN at[l] ELSE None]
Refused(i) ==
    /\ install[i].at = "undoing" /\ undo = <<>>
    /\ Release(i) /\ at' = Emptied
    /\ UNCHANGED <<published, releases, channel, stored, running, undo, failures,
                   before>>
Finish(i) ==
    /\ install[i].at = "installed" /\ Release(i) /\ at' = Emptied
    /\ UNCHANGED <<published, releases, channel, stored, running, undo, failures,
                   before>>

\* The server is replaced by the one installed, on its own or by the restart
\* that follows an installation, or dies and is started again: it needs all
\* three parts in place.
Restart ==
    /\ \A i \in Installers : install[i].at \notin Renaming \cup {"undoing"}
    /\ Place["binary"] # None
    /\ running' = Place["binary"] /\ channel' = stored
    /\ lock' = Nobody /\ install' = [i \in Installers |-> Idle]
    /\ at' = Emptied
    /\ UNCHANGED <<published, releases, stored, undo, failures, before>>

Init ==
    \E c \in Commits, ch \in Channels :
        /\ published = [x \in Channels |-> c] /\ releases = 0
        /\ channel = ch /\ stored = ch /\ running = c
        /\ lock = Nobody /\ install = [i \in Installers |-> Idle]
        /\ \E s \in {c, None} :     \* a release older than the skills
             at = [l \in Locations \X Range(Parts) |->
                      IF l[1] # "place" THEN None
                      ELSE IF l[2] = "skills" THEN s ELSE c]
        /\ undo = <<>> /\ failures = 0
        /\ before = Place

Next == \/ Publish \/ SetChannel \/ Restart
        \/ \E i \in Installers :
              \/ Ask(i) \/ Fetch(i) \/ GiveUp(i) \/ Unpacked(i) \/ TakeOut(i)
              \/ PutIn(i) \/ Undo(i) \/ Refused(i) \/ Finish(i)

Spec == Init /\ [][Next]_vars

Contents == Commits \cup {None}
TypeOK ==
    /\ {channel, stored} \subseteq Channels /\ running \in Commits
    /\ lock \in Installers \cup {Nobody} /\ at \in [Locations \X Range(Parts) -> Contents]
    /\ \A i \in Installers : install[i].at # "idle" => lock = i

\* With at most one rename that fails, an installation that is not under way
\* holds one release, whole: the new one if the call succeeded, the previous
\* one if it was refused.  Until then no part is without a copy, so a server
\* killed half way leaves each part in place or in the temporary directory.
Whole == \E c \in Commits : \A p \in Range(Parts) :
             Place[p] = c \/ (p = "skills" /\ Place[p] = None)
InstallAtomic ==
    failures <= 1 =>
        /\ lock = Nobody => Whole
        /\ \A i \in Installers :
             /\ install[i].at = "installed" =>
                    \A p \in Range(Parts) : Place[p] = install[i].expected
             /\ install[i].at = "undoing" /\ undo = <<>> => Place = before
        /\ \A p \in Range(Parts) :
             Place[p] = None => \/ at[<<"previous", p>>] # None
                                \/ p = "skills" /\ before[p] = None

\* What is put in place is the release the user was shown, of the channel the
\* user has chosen, although either may be changed by another browser while the
\* release is fetched (install holds install_lock).
InstalledAsAsked ==
    \A i \in Installers :
        install[i].at \in Renaming \cup {"installed"} =>
            /\ install[i].channel = channel
            /\ \A p \in Range(Parts) :
                 Place[p] \in {None, before[p], install[i].expected}

InstallSound == InstallAtomic /\ InstalledAsAsked

-----------------------------------------------------------------------------
(***************************************************************************)
(* What a release must be (fetch_verified_release, download_artifact,      *)
(* extract_archive and verify_package, which Fetch and Unpacked call).  The*)
(* channel's host serves what it likes, in chunks, the archive entry by    *)
(* entry; a text is well formed or not, a size is a few units, and the     *)
(* bytes of an archive are told apart by whether their hash is the one in  *)
(* the manifest.                                                           *)
(***************************************************************************)

CONSTANTS MaxMetadata, MaxArchive, MaxExtracted,   \* MAX_..._BYTES
          MaxExcess       \* bound: what is served above a limit

VARIABLES asked,          \* the channel whose release is fetched
          body,           \* the response being read
          manifest,       \* as parsed, and who signed it
          unpacked,       \* what has been written of the package
          judged          \* "open", "verified" or "refused"

releaseVars == <<asked, body, manifest, unpacked, judged>>

Required == {"term-server", "client/index.html", "SKILL.md", "create_artifact.py"}
NoManifest == [signer |-> "nobody", schema |-> 1, channel |-> "none", worded |-> TRUE,
               artifacts |-> <<>>]
\* Its fields, and its artifact for the target of this server, if it has one;
\* at most one field is wrong.
ReleaseArtifact == [named |-> TRUE, hashed |-> TRUE, size |-> 2]
FlawedArtifacts == {[ReleaseArtifact EXCEPT !.named = FALSE], [ReleaseArtifact EXCEPT !.hashed = FALSE]}
                     \cup {[ReleaseArtifact EXCEPT !.size = n] : n \in 0..(MaxArchive + 1)}
Manifests ==
    LET true == [NoManifest EXCEPT !.signer = "publisher", !.channel = asked,
                                   !.artifacts = <<ReleaseArtifact>>]
    IN {true, [true EXCEPT !.schema = 2], [true EXCEPT !.worded = FALSE],
        [true EXCEPT !.artifacts = <<>>]}
         \cup {[true EXCEPT !.signer = other] : other \in {"other", "nobody"}}
         \cup {[true EXCEPT !.channel = c] : c \in Channels}
         \cup {[true EXCEPT !.artifacts = <<a>>] : a \in FlawedArtifacts}

Body(what) == [of |-> what, received |-> 0]
Reading(what) == judged = "open" /\ body.of = what
RefuseRelease == judged' = "refused" /\ UNCHANGED <<body, manifest, unpacked>>

Least(a, b) == IF a <= b THEN a ELSE b
BodyLimit == CASE body.of = "manifest"  -> MaxMetadata
               [] body.of = "signature" -> 1
               [] OTHER                 -> Least(manifest.artifacts[1].size, MaxArchive)
\* fetch_small_file, download_artifact: a length that is announced is checked
\* first, and every chunk, since none may have been.
\* Mutant: only what is announced is.
FaultyFits(n) == TRUE
Fits(n) == body.received + n <= BodyLimit
ReadChunk ==
    /\ judged = "open" /\ body.of \in {"manifest", "signature", "archive"}
    /\ \E n \in 1..(1 + MaxExcess) :
          IF Fits(n) THEN /\ body' = [body EXCEPT !.received = @ + n]
                          /\ UNCHANGED <<manifest, unpacked, judged>>
          ELSE RefuseRelease
    /\ UNCHANGED asked
BodyFails == judged = "open" /\ RefuseRelease /\ UNCHANGED asked

ManifestEnds ==
    /\ Reading("manifest") /\ body' = Body("signature")
    /\ manifest' \in Manifests
    /\ UNCHANGED <<asked, unpacked, judged>>
\* validate_manifest
Acceptable(m) ==
    /\ m.schema = 1 /\ m.channel = asked /\ m.worded /\ m.artifacts # <<>>
    /\ m.artifacts[1].named /\ m.artifacts[1].hashed
    /\ m.artifacts[1].size \in 1..MaxArchive
\* verify_signature, before anything of the manifest is looked at.
SignatureEnds ==
    /\ Reading("signature")
    /\ IF manifest.signer = "publisher" /\ Acceptable(manifest)
       THEN body' = Body("archive") /\ UNCHANGED <<manifest, unpacked, judged>>
       ELSE RefuseRelease
    /\ UNCHANGED asked
\* The archive is whole and has the signed hash; the host may have served another.
ArchiveEnds ==
    /\ Reading("archive")
    /\ \E genuine \in BOOLEAN :
          IF body.received = manifest.artifacts[1].size /\ genuine
          THEN body' = Body("entries") /\ UNCHANGED <<manifest, unpacked, judged>>
          ELSE RefuseRelease
    /\ UNCHANGED asked

\* extract_archive: validate_archive_path, the kind, the sum of the sizes; a file
\* may come twice.
EntryAllowed(e) == /\ e.path # "outside" /\ e.kind # "link"
                   /\ unpacked.bytes + e.size <= MaxExtracted
ReadEntry ==
    /\ Reading("entries")
    /\ \E e \in [path : Required \cup {"outside"}, kind : {"file", "directory", "link"},
                size : 0..1] :
          IF EntryAllowed(e)
          THEN /\ unpacked' = [paths |-> unpacked.paths \cup IF e.kind = "file" THEN {e.path} ELSE {},
                               bytes |-> unpacked.bytes + e.size]
               /\ UNCHANGED <<body, manifest, judged>>
          ELSE RefuseRelease
    /\ UNCHANGED asked
\* verify_package: the files, and what the binary says it is when it is run.
Verify ==
    /\ Reading("entries")
    /\ \E executable \in BOOLEAN, own \in BOOLEAN :
          IF Required = unpacked.paths /\ executable /\ own
          THEN judged' = "verified" /\ UNCHANGED <<body, manifest, unpacked>>
          ELSE RefuseRelease
    /\ UNCHANGED asked

ReleaseInit ==
    /\ asked \in Channels /\ body = Body("manifest") /\ manifest = NoManifest
    /\ unpacked = [paths |-> {}, bytes |-> 0] /\ judged = "open"
ReleaseNext == \/ ReadChunk \/ BodyFails \/ ManifestEnds \/ SignatureEnds \/ ArchiveEnds
               \/ ReadEntry \/ Verify
ReleaseSpec == ReleaseInit /\ [][ReleaseNext]_releaseVars

\* Whatever is served, no more is kept than the limits, nothing is written outside
\* the package and no archive is downloaded but on the publisher's word; a release
\* that goes in is the one that word describes, for the channel asked for, whole.
ReleaseChecked ==
    /\ body.of # "entries" => body.received <= BodyLimit
    /\ body.of \in {"archive", "entries"} => manifest.signer = "publisher" /\ manifest.channel = asked
    /\ unpacked.paths \subseteq Required /\ unpacked.bytes <= MaxExtracted
    /\ judged = "verified" => /\ body.of = "entries" /\ unpacked.paths = Required
                             /\ manifest.artifacts[1].size <= MaxArchive

-----------------------------------------------------------------------------
(***************************************************************************)
(* The order of release versions (ReleaseVersion in update.rs), which      *)
(* decides whether a signed release is an update or a downgrade.  A version*)
(* is its core, three numbers, and its prerelease identifiers; a numeric   *)
(* identifier is <<0, number>>, an alphanumeric one <<1, its rank>>.  The  *)
(* parsing of the text, and its build metadata, are left out.              *)
(***************************************************************************)

CONSTANTS Cores,          \* sequences of three numbers
          Identifiers,    \* prerelease identifiers
          Longest         \* bound: identifiers of a prerelease

VARIABLE compared         \* three versions, one of them running

versionVars == <<compared>>

Versions == [core : Cores,
             pre : UNION {[1..n -> Identifiers] : n \in 0..Longest}]

\* Vec's and tuples' cmp: the first difference decides, then the length.
\* Mutant: a prefix is the larger one.
FaultyPrefixOrder(s, t) == Len(s) > Len(t)
PrefixOrder(s, t) == Len(s) < Len(t)
Agree(s, t, n) == \A k \in 1..n : s[k] = t[k]
\* PrereleaseIdentifier::cmp: a number is below every name.
IdentifierBelow(a, b) == \/ a[1] = b[1] /\ a[2] < b[2]
                         \/ a[1] < b[1]
Lexicographic(s, t) ==
    \/ \E n \in 1..Len(s) \cap 1..Len(t) :
           Agree(s, t, n - 1) /\ IdentifierBelow(s[n], t[n])
    \/ PrefixOrder(s, t) /\ \A k \in DOMAIN s \cap DOMAIN t : s[k] = t[k]

\* ReleaseVersion::cmp: the core, then a release above its prereleases.
Numbered(core) == [k \in DOMAIN core |-> <<0, core[k]>>]
Below(v, w) ==
    \/ Lexicographic(Numbered(v.core), Numbered(w.core))
    \/ v.core = w.core /\ \/ v.pre # <<>> /\ w.pre = <<>>
                          \/ /\ v.pre # <<>> /\ w.pre # <<>>
                             /\ Lexicographic(v.pre, w.pre)

\* update_state, for a release of another commit.
State(release, own) == IF Below(release, own) THEN "older" ELSE "available"

VersionInit == \E u, v, w \in Versions : compared = <<u, v, w>>
VersionNext == UNCHANGED compared
VersionSpec == VersionInit /\ [][VersionNext]_versionVars

\* The order is total and transitive, so whatever way a server came to its
\* release, one that was published later under a higher version is never taken
\* for a downgrade, nor a downgrade for an update; and it is the documented one:
\* identifiers compare left to right, numbers first, a longer list is higher
\* when the shorter is its beginning, and a release is above its prereleases.
VersionsOrdered ==
    LET u == compared[1] v == compared[2] w == compared[3] IN
        /\ (u = v) = (~Below(u, v) /\ ~Below(v, u))
        /\ ~(Below(u, v) /\ Below(v, u))
        /\ Below(u, v) /\ Below(v, w) => Below(u, w)
        /\ State(u, v) = "older" => State(v, u) = "available"
        /\ \A i \in Identifiers :
             /\ Below([v EXCEPT !.pre = Append(@, i)],
                      [v EXCEPT !.pre = IF @ = <<>> THEN @ ELSE Append(Append(@, i), i)])
             /\ v.pre = <<>> => Below([v EXCEPT !.pre = <<i>>], v)
=============================================================================
