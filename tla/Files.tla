--------------------------------- MODULE Files ---------------------------------
(***************************************************************************)
(* Files of a terminal's host (files.rs, artifacts.rs): editing, uploads,  *)
(* searches and artifacts.  The four share no state.                       *)
(***************************************************************************)
EXTENDS Naturals, Sequences, FiniteSets, SequencesExt

(***************************************************************************)
(* Editing a file in the browser (client/components/ResourceWorkspace.tsx, *)
(* client/lib/resources.ts, files.rs).                                     *)
(*                                                                         *)
(* The file is read into an editor, which saves it again if the file still *)
(* has the version that it read.  An artifact is also written by its       *)
(* terminal: the listing that the page polls changes the tab's modification*)
(* time and the editor reads the file again, unless it has unsaved edits.  *)
(*                                                                         *)
(* A content is a number, and its version is itself; a modification time is*)
(* the count of the file's writes.                                         *)
(***************************************************************************)

CONSTANTS MaxEdits, MaxWrites, MaxSaves     \* bounds: edits, others' writes, saves

VARIABLES
    disk,       \* [content, at]
    buffer,     \* the editor's [content, saved, version]
    held,       \* the revisions it holds: [loaded, saved]
    tab,        \* [at, dirty]
    rendered,   \* the tab when its effects ran last
    reading,    \* {}, or {the read of the effect: [at, got]}
    saving,     \* requests: [content, version, stage, mine, got, at]
    polled,     \* {}, or {the modification time in a listing under way}
    edits, saves,
    past        \* [astray: the buffer changed or was read during a save, or the file
                \*          before its answer; raced: written between check and
                \*          replacement; blind: content replaced unseen; dropped: edits lost]

editVars == <<disk, buffer, held, tab, rendered, reading, saving, polled, edits, saves, past>>

Never == 0                  \* no modification time
Nothing == 0                \* no content
Fresh(n) == 10 + n          \* contents typed; those below are others'

ShouldReloadResource(t) == ~t.dirty /\ t.at \notin {held.loaded, held.saved}

\* The effect runs after a render that changed the tab.
Effect ==
    /\ rendered # tab
    /\ rendered' = tab
    /\ reading' = IF ShouldReloadResource(tab) THEN {[at |-> tab.at, got |-> Nothing]} ELSE {}
    /\ held' = IF ~tab.dirty /\ ~ShouldReloadResource(tab) THEN [held EXCEPT !.loaded = tab.at] ELSE held
    /\ UNCHANGED <<disk, buffer, tab, saving, polled, edits, saves, past>>

ReadDocument ==
    /\ \E r \in reading : /\ r.got = Nothing
                          /\ reading' = {[r EXCEPT !.got = disk.content]}
    /\ UNCHANGED <<disk, buffer, held, tab, rendered, saving, polled, edits, saves, past>>
Unsaved == buffer.content # buffer.saved
Loaded ==
    /\ \E r \in reading :
          /\ r.got # Nothing
          /\ IF Unsaved THEN UNCHANGED <<buffer, held, past>>
             ELSE /\ held' = [held EXCEPT !.loaded = r.at]
                  /\ buffer' = [content |-> r.got, saved |-> r.got, version |-> r.got]
                  /\ past' = [past EXCEPT !.astray = @ \/ \E s \in saving : s.mine,
                                          !.dropped = @ \/ buffer.content # buffer.saved]
    /\ reading' = {}
    /\ UNCHANGED <<disk, tab, rendered, saving, polled, edits, saves>>
ReadFails ==
    /\ reading # {} /\ reading' = {}
    /\ UNCHANGED <<disk, buffer, held, tab, rendered, saving, polled, edits, saves, past>>

\* The update listener, for what is typed and undone
Edited(content) ==
    /\ buffer.version # Nothing /\ content # buffer.content
    /\ buffer' = [buffer EXCEPT !.content = content]
    /\ tab' = [tab EXCEPT !.dirty = content # buffer.saved]
    /\ past' = [past EXCEPT !.astray = @ \/ \E s \in saving : s.mine]
    /\ UNCHANGED <<disk, held, rendered, reading, saving, polled, saves>>
Type == edits < MaxEdits /\ edits' = edits + 1 /\ Edited(Fresh(edits + 1))
Undo == Edited(buffer.saved) /\ UNCHANGED edits

Save ==
    /\ buffer.version # Nothing /\ saves < MaxSaves /\ ~\E s \in saving : s.mine
    /\ saves' = saves + 1
    /\ saving' = saving \cup {[content |-> buffer.content, version |-> buffer.version, mine |-> TRUE,
                               stage |-> "sent", got |-> Nothing, at |-> Never]}
    /\ UNCHANGED <<disk, buffer, held, tab, rendered, reading, polled, edits, past>>

\* files::save_document, while others may write between its steps
Checked(requests) == \E s \in requests : s.stage = "checked"
RequestBecomes(s, t) == saving' = (saving \ {s}) \cup {t}
BlindVersion(s) == TRUE
SameVersion(s) == disk.content = s.version
CheckVersion(s) ==
    /\ s.stage = "sent"
    /\ RequestBecomes(s, [s EXCEPT !.stage = IF SameVersion(s) THEN "checked" ELSE "refused"])
    /\ UNCHANGED <<disk, buffer, held, tab, rendered, reading, polled, edits, saves, past>>
PersistDocument(s) ==
    /\ s.stage = "checked"
    /\ RequestBecomes(s, [s EXCEPT !.stage = "stored"])
    /\ disk' = [content |-> s.content, at |-> disk.at + 1]
    /\ past' = [past EXCEPT !.blind = @ \/ disk.content # s.version, !.raced = @ \/ Checked(saving \ {s})]
    /\ UNCHANGED <<buffer, held, tab, rendered, reading, polled, edits, saves>>
StatStored(s) ==
    /\ s.stage = "stored"
    /\ RequestBecomes(s, [s EXCEPT !.stage = "found", !.at = disk.at])
    /\ UNCHANGED <<disk, buffer, held, tab, rendered, reading, polled, edits, saves, past>>
ReadStored(s) ==
    /\ s.stage = "found"
    /\ RequestBecomes(s, [s EXCEPT !.stage = "saved", !.got = disk.content])
    /\ past' = [past EXCEPT !.astray = @ \/ (s.mine /\ (disk.content # s.content \/ disk.at # s.at))]
    /\ UNCHANGED <<disk, buffer, held, tab, rendered, reading, polled, edits, saves>>

\* A render comes before the answer; a tab closed meanwhile has another editor now.
SavedDocument(s) ==
    /\ s.stage = "saved" /\ rendered = tab
    /\ saving' = saving \ {s}
    /\ IF s.mine
       THEN /\ buffer' = [buffer EXCEPT !.version = s.got, !.saved = buffer.content]
            /\ held' = [held EXCEPT !.saved = s.at]
       ELSE UNCHANGED <<buffer, held>>
    /\ tab' = [tab EXCEPT !.dirty = FALSE]
    /\ past' = [past EXCEPT !.astray = @ \/ ~s.mine \/ reading # {}]
    /\ UNCHANGED <<disk, rendered, reading, polled, edits, saves>>
SaveFails(s) ==
    /\ rendered = tab
    /\ saving' = saving \ {s}
    /\ UNCHANGED <<disk, buffer, held, tab, rendered, reading, polled, edits, saves, past>>

OthersWrite ==
    /\ disk.at <= MaxWrites
    /\ \E content \in {disk.content, disk.at + 1} : disk' = [content |-> content, at |-> disk.at + 1]
    /\ past' = [past EXCEPT !.raced = @ \/ Checked(saving)]
    /\ UNCHANGED <<buffer, held, tab, rendered, reading, saving, polled, edits, saves>>

\* The artifact poll: one request at a time, and its answer for this file
PollArtifacts ==
    /\ polled = {} /\ polled' = {disk.at}
    /\ UNCHANGED <<disk, buffer, held, tab, rendered, reading, saving, edits, saves, past>>
ReconcileArtifactResources ==
    /\ \E at \in polled : tab' = [tab EXCEPT !.at = at]
    /\ polled' = {}
    /\ UNCHANGED <<disk, buffer, held, rendered, reading, saving, edits, saves, past>>

\* The tab is closed, with its unsaved edits if the user says so, and opened again.
Reopen ==
    /\ saving # {} /\ \A s \in saving : s.mine
    /\ buffer' = [content |-> Nothing, saved |-> Nothing, version |-> Nothing]
    /\ held' = [loaded |-> Never, saved |-> Never]
    /\ tab' = [at |-> disk.at, dirty |-> FALSE] /\ rendered' = [at |-> Never, dirty |-> FALSE]
    /\ reading' = {}
    /\ saving' = {[s EXCEPT !.mine = FALSE] : s \in saving}
    /\ past' = [past EXCEPT !.astray = FALSE]
    /\ UNCHANGED <<disk, polled, edits, saves>>

EditInit ==
    /\ disk = [content |-> 1, at |-> 1]
    /\ buffer = [content |-> Nothing, saved |-> Nothing, version |-> Nothing]
    /\ held = [loaded |-> Never, saved |-> Never]
    /\ tab = [at |-> 1, dirty |-> FALSE] /\ rendered = [at |-> Never, dirty |-> FALSE]
    /\ reading = {} /\ saving = {} /\ polled = {} /\ edits = 0 /\ saves = 0
    /\ past = [astray |-> FALSE, raced |-> FALSE, blind |-> FALSE, dropped |-> FALSE]
EditNext ==
    \/ Effect \/ ReadDocument \/ Loaded \/ ReadFails \/ Type \/ Undo \/ Save
    \/ \E s \in saving : \/ CheckVersion(s) \/ PersistDocument(s) \/ StatStored(s) \/ ReadStored(s)
                         \/ SavedDocument(s) \/ SaveFails(s)
    \/ OthersWrite \/ PollArtifacts \/ ReconcileArtifactResources \/ Reopen
EditSpec == EditInit /\ [][EditNext]_editVars

-----------------------------------------------------------------------------
\* A buffer without unsaved edits is the version that its next save replaces, unless
\* it was edited while a save was under way: what was typed then counts as saved.
CleanIsStored == ~past.astray /\ ~Unsaved => buffer.content = buffer.version

\* A save never replaces content that its editor has not read, unless the file was
\* written between the check of its version and the replacement.
NoneOverwritten == past.blind => past.raced

\* Reading the file again never takes what was typed and not saved.
EditsWin == ~past.dropped

\* A clean editor that holds the file's last modification time shows the file.
ShowsTheFile ==
    (/\ ~past.astray /\ ~tab.dirty /\ rendered = tab /\ reading = {} /\ saving = {}
     /\ tab.at = disk.at /\ ~ShouldReloadResource(tab)) => buffer.content = disk.content

EditSound == CleanIsStored /\ NoneOverwritten /\ EditsWin /\ ShowsTheFile

-----------------------------------------------------------------------------
(***************************************************************************)
(* Uploads into a directory (files.rs, upload_files in api.rs).            *)
(*                                                                         *)
(* A request has file fields, one after another.  The bytes of each are    *)
(* written to a temporary file, which is linked under the requested name   *)
(* or, when that is taken, under its next free variant: <<name, 1>>,       *)
(* <<name, 2>>... Other uploads, and commands in the terminals, change the *)
(* directory at any time.  A request may be dropped, and fail, at any      *)
(* point.                                                                  *)
(***************************************************************************)

CONSTANTS Uploads, Names,       \* requests, names asked for
          NameAttempts,         \* MAX_UPLOAD_NAME_ATTEMPTS
          MaxFields, MaxChunks, MaxOthers, MaxVariant   \* bounds

VARIABLES
    directory,  \* path -> what is stored there; a dangling link "exists" not
    temporary,  \* temporary files: the uploads that hold one
    request,    \* upload -> [at, stored, name, target, tries, chunks, done]
    others,     \* number of changes by commands
    removed,    \* paths from which commands removed something
    replaced    \* a file was overwritten

uploadVars == <<directory, temporary, request, others, removed, replaced>>

Paths == Names \X (0..MaxVariant)
Free == [by |-> "nobody"]
Dangling == [by |-> "link"]
Others(n) == [by |-> "command", n |-> n]
Bytes(u, r) == [by |-> u, field |-> Len(r.stored) + 1, chunks |-> r.chunks]

Exists(path) == directory[path] \notin {Free, Dangling}
\* The first name that does not exist
UniquePath(name) == <<name, CHOOSE n \in 0..MaxVariant :
                                /\ ~Exists(<<name, n>>)
                                /\ \A m \in 0..(n - 1) : Exists(<<name, m>>)>>
Room(name) == \E n \in 0..MaxVariant : ~Exists(<<name, n>>)

Goes(u, r) == request' = [request EXCEPT ![u] = r]

\* PendingUpload::start
Start(u, name) ==
    LET r == request[u] IN
    /\ r.at = "between" /\ Len(r.stored) < MaxFields /\ Room(name)
    /\ Goes(u, [r EXCEPT !.at = "writing", !.name = name, !.target = UniquePath(name),
                         !.tries = 0, !.chunks = 0])
    /\ temporary' = temporary \cup {u}
    /\ UNCHANGED <<directory, others, removed, replaced>>
Write(u) ==
    LET r == request[u] IN
    /\ r.at = "writing" /\ r.chunks < MaxChunks
    /\ Goes(u, [r EXCEPT !.chunks = @ + 1])
    /\ UNCHANGED <<directory, temporary, others, removed, replaced>>
\* The field has ended
Finish(u) ==
    /\ request[u].at = "writing"
    /\ Goes(u, [request[u] EXCEPT !.at = "linking"])
    /\ UNCHANGED <<directory, temporary, others, removed, replaced>>

ClobberedTaken(path) == FALSE
Taken(path) == directory[path] # Free
\* persist_noclobber, and the next name when the target is taken by now
Persist(u) ==
    LET r == request[u] IN
    /\ r.at = "linking" /\ r.tries < NameAttempts
    /\ IF Taken(r.target)
       THEN /\ Room(r.name)
            /\ Goes(u, [r EXCEPT !.tries = @ + 1, !.target = UniquePath(r.name)])
            /\ UNCHANGED <<directory, temporary, replaced>>
       ELSE /\ directory' = [directory EXCEPT ![r.target] = Bytes(u, r)]
            /\ replaced' = (replaced \/ directory[r.target] # Free)
            /\ temporary' = temporary \ {u}
            /\ Goes(u, [r EXCEPT !.at = "between",
                                 !.stored = Append(@, [path |-> r.target, bytes |-> Bytes(u, r)])])
    /\ UNCHANGED <<others, removed>>

\* A dropped request, a failed read or write, or too many taken names: the temporary
\* file goes with the upload, and what the request stored before stays.
Abandon(u) ==
    /\ request[u].at \in {"between", "writing", "linking"}
    /\ Goes(u, [request[u] EXCEPT !.at = "failed"])
    /\ temporary' = temporary \ {u}
    /\ UNCHANGED <<directory, others, removed, replaced>>
Answer(u) ==
    /\ request[u].at = "between"
    /\ Goes(u, [request[u] EXCEPT !.at = "answered"])
    /\ UNCHANGED <<directory, temporary, others, removed, replaced>>

OthersChange(path) ==
    /\ others < MaxOthers /\ others' = others + 1
    /\ \/ /\ directory[path] = Free
          /\ \E made \in {Others(others), Dangling} : directory' = [directory EXCEPT ![path] = made]
          /\ UNCHANGED removed
       \/ /\ directory[path] # Free
          /\ directory' = [directory EXCEPT ![path] = Free]
          /\ removed' = removed \cup {path}
    /\ UNCHANGED <<temporary, request, replaced>>

UploadInit ==
    /\ directory = [path \in Paths |-> Free] /\ temporary = {}
    /\ request = [u \in Uploads |-> [at |-> "between", stored |-> <<>>, name |-> "none", target |-> <<>>,
                                     tries |-> 0, chunks |-> 0]]
    /\ others = 0 /\ removed = {} /\ replaced = FALSE
UploadNext ==
    \/ \E u \in Uploads : \/ \E name \in Names : Start(u, name)
                          \/ Write(u) \/ Finish(u) \/ Persist(u) \/ Abandon(u) \/ Answer(u)
    \/ \E path \in Paths : OthersChange(path)
UploadSpec == UploadInit /\ [][UploadNext]_uploadVars

-----------------------------------------------------------------------------
\* No upload replaces a file, however late its name was taken.
NothingReplaced == ~replaced

\* Every stored file that a request reports holds what its field sent, under a
\* variant of the name asked for, unless a command removed it; two never share one.
ReportsTrue ==
    \A u, v \in Uploads : \A i \in DOMAIN request[u].stored, j \in DOMAIN request[v].stored :
        LET entry == request[u].stored[i]
            other == request[v].stored[j]
        IN entry.path \notin removed => /\ directory[entry.path] = entry.bytes
                                        /\ (entry.path = other.path => u = v /\ i = j)

\* A file under a name is complete: there is none of an upload that was abandoned
\* before its field ended, and no temporary file outlives its upload.
NothingPartial ==
    /\ \A u \in temporary : request[u].at \in {"writing", "linking"}
    /\ \A path \in Paths : \A u \in Uploads :
          directory[path].by = u => \E i \in DOMAIN request[u].stored : request[u].stored[i].bytes = directory[path]

UploadsSound == NothingReplaced /\ ReportsTrue /\ NothingPartial

-----------------------------------------------------------------------------
(***************************************************************************)
(* A search for file names (files.rs, search_files in api.rs).             *)
(*                                                                         *)
(* A blocking task walks the tree, within a budget of entries and of time, *)
(* and collects matches up to a limit.  The user may type on: the request  *)
(* is dropped, and the walk stops at the next entry.  An entry is known by *)
(* whether its name matches, it can be read, and it is in a directory that *)
(* is skipped.                                                             *)
(***************************************************************************)

CONSTANTS SearchLimit, EntryBudget,
          MaxEntries            \* bound

VARIABLES
    tree,       \* the entries, in the walk's order
    walked,         \* those walked or pruned
    visited,    \* those counted
    matches,    \* positions of the matches
    truncated, over, cancelled,     \* over: the time budget
    walk        \* "on", "ended", "answered", "abandoned"

searchVars == <<tree, walked, visited, matches, truncated, over, cancelled, walk>>

Entry == [match : BOOLEAN, readable : BOOLEAN, skipped : BOOLEAN]

Ends(cut) == walk' = "ended" /\ truncated' = (truncated \/ cut)

\* Directories that are skipped, and all after a cancellation, are filtered out.
Prune ==
    /\ walk = "on" /\ walked < Len(tree)
    /\ tree[walked + 1].skipped \/ cancelled
    /\ walked' = walked + 1
    /\ UNCHANGED <<tree, visited, matches, truncated, over, cancelled, walk>>
LateLimitReached == Len(matches) > SearchLimit
LimitReached == Len(matches) = SearchLimit
Visit ==
    /\ walk = "on" /\ walked < Len(tree)
    /\ LET e == tree[walked + 1] IN
       /\ ~e.skipped
       /\ walked' = walked + 1
       /\ IF cancelled THEN Ends(TRUE) /\ UNCHANGED <<visited, matches>>
          ELSE /\ visited' = visited + 1
               /\ CASE visited' > EntryBudget \/ over -> Ends(TRUE) /\ UNCHANGED matches
                    [] visited' <= EntryBudget /\ ~over /\ e.match /\ LimitReached ->
                         Ends(TRUE) /\ UNCHANGED matches
                    [] OTHER -> /\ matches' = IF e.match /\ e.readable THEN Append(matches, walked + 1) ELSE matches
                                /\ UNCHANGED <<truncated, walk>>
    /\ UNCHANGED <<tree, over, cancelled>>
WalkEnds ==
    /\ walk = "on" /\ walked = Len(tree) /\ Ends(FALSE)
    /\ UNCHANGED <<tree, walked, visited, matches, over, cancelled>>
TimePasses ==
    /\ walk = "on" /\ ~over /\ over' = TRUE
    /\ UNCHANGED <<tree, walked, visited, matches, truncated, cancelled, walk>>
\* CancelOnDrop
RequestDropped ==
    /\ walk \in {"on", "ended"} /\ ~cancelled /\ cancelled' = TRUE
    /\ walk' = IF walk = "ended" THEN "abandoned" ELSE walk
    /\ UNCHANGED <<tree, walked, visited, matches, truncated, over>>
AnswerSearch ==
    /\ walk = "ended" /\ walk' = IF cancelled THEN "abandoned" ELSE "answered"
    /\ UNCHANGED <<tree, walked, visited, matches, truncated, over, cancelled>>

SearchInit ==
    /\ tree \in BoundedSeq(Entry, MaxEntries)
    /\ walked = 0 /\ visited = 0 /\ matches = <<>>
    /\ truncated = FALSE /\ over = FALSE /\ cancelled = FALSE /\ walk = "on"
SearchNext == Prune \/ Visit \/ WalkEnds \/ TimePasses \/ RequestDropped \/ AnswerSearch
SearchSpec == SearchInit /\ [][SearchNext]_searchVars

-----------------------------------------------------------------------------
\* An answer that is not marked truncated has every entry that matches and can be read,
\* and no answer has more than the limit; a truncated one has a reason: the time, the
\* entries, or one match too many.
Wanted == {i \in DOMAIN tree : tree[i].match /\ tree[i].readable /\ ~tree[i].skipped}
AnswerComplete ==
    walk = "answered" =>
        /\ Len(matches) <= SearchLimit /\ ToSet(matches) \subseteq Wanted /\ IsInjective(matches)
        /\ ~truncated => ToSet(matches) = Wanted
        /\ truncated => \/ over
                        \/ visited > EntryBudget
                        \/ Len(matches) = SearchLimit /\ \E i \in DOMAIN tree : tree[i].match /\ i \notin ToSet(matches)

-----------------------------------------------------------------------------
(***************************************************************************)
(* Artifacts (artifacts.rs; skills/term-server-artifacts): a command in a  *)
(* terminal fills a directory beside the others and renames it into place; *)
(* an agent goes on editing what is in it; requests list and remove.       *)
(* Artifacts are numbered as they are created, and belong to one session.  *)
(***************************************************************************)

CONSTANTS Artifacts,            \* 1..n
          MaxListed             \* MAX_ARTIFACTS

VARIABLES
    shelf,      \* artifact -> [named, meta, file, extra]: its directory's name
                \* and what is in it; `extra' is a second visible file
    shown,      \* list_in: [at, todo, reading, meta, found, steady]
    removing    \* the artifact of remove_in, or 0
artifactVars == <<shelf, shown, removing>>

NoDirectory == [named |-> "none", meta |-> FALSE, file |-> "none", extra |-> FALSE]
NotListing == [at |-> "idle", todo |-> {}, reading |-> 0, meta |-> FALSE, found |-> {},
               steady |-> {}]
ArtifactInit == /\ shelf = [a \in Artifacts |-> NoDirectory]
                /\ shown = NotListing /\ removing = 0

\* What a listing that goes on cannot be asked to show.
Disturbed(a) == shown' = [shown EXCEPT !.steady = @ \ {a}]
Becomes(a, directory_) == shelf' = [shelf EXCEPT ![a] = directory_]
Named(a, name) == shelf[a].named = name

\* create_artifact: mkdtemp, the metadata, the file.
BeginsArtifact(a) ==
    /\ Named(a, "none") /\ \A b \in Artifacts : b < a => ~Named(b, "none")
    /\ Becomes(a, [NoDirectory EXCEPT !.named = "staging"])
    /\ UNCHANGED <<shown, removing>>
FillsArtifact(a) ==
    /\ Named(a, "staging")
    /\ Becomes(a, CASE ~shelf[a].meta -> [shelf[a] EXCEPT !.meta = TRUE]
                    [] shelf[a].file = "none" -> [shelf[a] EXCEPT !.file = "part"]
                    [] OTHER -> [shelf[a] EXCEPT !.file = "whole"])
    /\ UNCHANGED <<shown, removing>>
HastyReady(a) == shelf[a].meta          \* published before it is written
Ready(a) == shelf[a].file = "whole"
PublishesArtifact(a) ==
    /\ Named(a, "staging") /\ Ready(a)
    /\ Becomes(a, [shelf[a] EXCEPT !.named = "final"])
    /\ UNCHANGED <<shown, removing>>
\* The except branch.
DropsArtifact(a) ==
    /\ Named(a, "staging") /\ Becomes(a, [NoDirectory EXCEPT !.named = "gone"])
    /\ UNCHANGED <<shown, removing>>

\* An agent edits the file by way of another.
EditsArtifact(a) ==
    /\ Named(a, "final") /\ Becomes(a, [shelf[a] EXCEPT !.extra = ~@])
    /\ Disturbed(a) /\ UNCHANGED removing

\* remove_in: remove_dir_all, which may fail part way.
RemovesArtifact(a) ==
    /\ removing = 0 /\ Named(a, "final") /\ removing' = a
    /\ Disturbed(a) /\ UNCHANGED shelf
RemovesPart ==
    LET a == removing directory_ == shelf[a] IN
    /\ removing # 0
    /\ \/ directory_.meta /\ Becomes(a, [directory_ EXCEPT !.meta = FALSE]) /\ UNCHANGED removing
       \/ /\ directory_.file # "none" /\ Becomes(a, [directory_ EXCEPT !.file = "none"])
          /\ UNCHANGED removing
       \/ /\ directory_.extra /\ Becomes(a, [directory_ EXCEPT !.extra = FALSE])
          /\ UNCHANGED removing
       \/ /\ directory_ = [NoDirectory EXCEPT !.named = "final"]
          /\ Becomes(a, [directory_ EXCEPT !.named = "gone"]) /\ removing' = 0
       \/ removing' = 0 /\ UNCHANGED shelf
    /\ UNCHANGED shown

-----------------------------------------------------------------------------
\* list_artifacts, list_in: the directories in any order.
BeginsList ==
    /\ shown.at = "idle"
    /\ shown' = [NotListing EXCEPT !.at = "listing", !.todo = Artifacts,
          !.steady = {a \in Artifacts : /\ Named(a, "final") /\ ~shelf[a].extra
                                        /\ shelf[a].meta /\ shelf[a].file = "whole"
                                        /\ a # removing}]
    /\ UNCHANGED <<shelf, removing>>
\* artifact_from_directory: a staging directory's name is not a uuid; then the
\* metadata, then the files.
ReadsMetadata(a) ==
    /\ shown.at = "listing" /\ shown.reading = 0 /\ a \in shown.todo
    /\ shown' = [shown EXCEPT !.todo = @ \ {a}, !.meta = shelf[a].meta,
                              !.reading = IF Named(a, "final") THEN a ELSE 0]
    /\ UNCHANGED <<shelf, removing>>
ReadsFiles ==
    LET a == shown.reading
        one == (shelf[a].file # "none") # shelf[a].extra
    IN /\ a # 0
       /\ shown' = [shown EXCEPT !.reading = 0,
             !.found = IF Named(a, "final") /\ one
                       THEN @ \cup {[id |-> a, meta |-> shown.meta, file |-> shelf[a].file]}
                       ELSE @]
       /\ UNCHANGED <<shelf, removing>>
Later(entry) == {e \in shown.found : e.id > entry.id}
EndsList ==
    /\ shown.at = "listing" /\ shown.todo = {} /\ shown.reading = 0
    /\ shown' = [shown EXCEPT !.at = "listed",
                    !.found = {e \in @ : Cardinality(Later(e)) < MaxListed}]
    /\ UNCHANGED <<shelf, removing>>
LeavesList == /\ shown.at = "listed" /\ shown' = NotListing /\ UNCHANGED <<shelf, removing>>

ArtifactNext ==
    \/ \E a \in Artifacts : \/ BeginsArtifact(a) \/ FillsArtifact(a) \/ PublishesArtifact(a)
                            \/ DropsArtifact(a) \/ EditsArtifact(a) \/ RemovesArtifact(a)
                            \/ ReadsMetadata(a)
    \/ RemovesPart \/ BeginsList \/ ReadsFiles \/ EndsList \/ LeavesList
ArtifactSpec == ArtifactInit /\ [][ArtifactNext]_artifactVars

\* An answer shows no artifact half made, and leaves none out that was whole all
\* the while, unless it has as many newer ones as it may.
ArtifactsTrue ==
    shown.at = "listed" =>
        /\ \A e \in shown.found : e.file # "part"
        /\ \A a \in shown.steady :
              \/ [id |-> a, meta |-> TRUE, file |-> "whole"] \in shown.found
              \/ Cardinality({e \in shown.found : e.id > a}) = MaxListed
        /\ Cardinality(shown.found) <= MaxListed
=============================================================================
