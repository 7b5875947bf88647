---------------------------- MODULE AgentTranscript ----------------------------
(***************************************************************************)
(* The transcript an agent leaves with its terminal (history.rs:           *)
(* AgentTranscriptStore; terminal.rs: apply_agent_event, transcript).      *)
(* Reports add records, or replace them all by a fresh account of the      *)
(* session; the oldest make room when the store is full.  Readers follow   *)
(* it page by page: each asks for what comes at the cursor its last page   *)
(* gave it, and may have named the kinds it wants.                         *)
(*                                                                         *)
(* A record is its number, its kind, the id its author gave it and its     *)
(* size; texts, and their truncation, are left out.  `written' is history: *)
(* the kind of every record there ever was.                                *)
(***************************************************************************)
EXTENDS Naturals, Sequences, FiniteSetsExt

CONSTANTS
    Sources, NoSource,   \* ids of records; an author may give none
    RecordKinds,
    Sizes,               \* bytes a record may take
    MaximumBytes,        \* what the store retains
    PageLimits,          \* how many records a reader asks for
    Readers,
    MaxWritten           \* bound: records ever written

VARIABLES store, written, reader
transcriptVars == <<store, written, reader>>

Input == [source : Sources \cup {NoSource}, kind : RecordKinds, bytes : Sizes]
\* seen: seen_source_ids; next: next_sequence; retained: retained_bytes.
EmptyStore == [records |-> <<>>, seen |-> {}, retained |-> 0, next |-> 0]

\* A reader that has not asked yet has no cursor.  got: the numbers of the
\* records it received; told: those its pages said were gone; early: it asked
\* before anything had been written.
NewReader == [started |-> FALSE, cursor |-> 0, kinds |-> {}, got |-> {},
              told |-> {}, twice |-> FALSE, early |-> FALSE]

TranscriptInit ==
    /\ store = EmptyStore
    /\ written = <<>>
    /\ reader = [r \in Readers |-> NewReader]

BytesFrom(records, k) == FoldSet(LAMBDA i, sum : sum + records[i].bytes, 0,
                                 k..Len(records))

ForgetfulTrim(s) ==      \* keeps the ids of what it evicts
    LET fits == {k \in 1..Len(s.records) + 1 :
                    BytesFrom(s.records, k) <= MaximumBytes}
    IN [s EXCEPT !.records = SubSeq(@, Min(fits), Len(@)),
                 !.retained = BytesFrom(s.records, Min(fits))]

\* The oldest records go until the rest fits, the newest too if it must.
Trim(s) ==
    LET fits    == {k \in 1..Len(s.records) + 1 :
                       BytesFrom(s.records, k) <= MaximumBytes}
        evicted == {s.records[i].source : i \in 1..Min(fits) - 1}
    IN [s EXCEPT !.records = SubSeq(@, Min(fits), Len(@)),
                 !.retained = BytesFrom(s.records, Min(fits)),
                 !.seen = @ \ evicted]

\* push: a record whose id is known is dropped.
Push(s, input) ==
    IF input.source \in s.seen THEN s
    ELSE Trim([records  |-> Append(s.records, [sequence |-> s.next,
                                               source |-> input.source,
                                               kind |-> input.kind,
                                               bytes |-> input.bytes]),
               seen     |-> s.seen \cup ({input.source} \ {NoSource}),
               retained |-> s.retained + input.bytes,
               next     |-> s.next + 1])

RestartedNumbers(s) == EmptyStore
\* replace: nothing stays but the count.
Cleared(s) == [EmptyStore EXCEPT !.next = s.next]

\* apply_agent_event: what a report brings of the transcript is taken before the
\* report itself is looked at.
Report(inputs, reset) ==
    LET from  == IF reset THEN Cleared(store) ELSE store
        one   == IF inputs = <<>> THEN from ELSE Push(from, inputs[1])
        both  == IF Len(inputs) = 2 THEN Push(one, inputs[2]) ELSE one
        kept  == (IF one.next > from.next THEN <<inputs[1].kind>> ELSE <<>>)
                 \o (IF both.next > one.next THEN <<inputs[2].kind>> ELSE <<>>)
    IN /\ reset \/ inputs # <<>>
       /\ Len(written) + Len(inputs) <= MaxWritten
       /\ store' = both
       /\ written' = written \o kept
       /\ UNCHANGED reader

Earliest(s) == IF s.records = <<>> THEN s.next ELSE s.records[1].sequence

\* next_sequence: after the last record of the page, or after everything there
\* is when no record was wanted; latest_sequence + 1 is 1 when nothing was ever
\* written.
PageEnd(s, chosen, start) ==
    IF chosen # {} THEN Max(chosen) + 1
    ELSE Max({IF s.next = 0 THEN 1 ELSE s.next, start})

\* page: the numbers of its records, where it starts and where the next begins.
Page(s, requested, limit, kinds) ==
    LET start  == Max({requested, Earliest(s)})
        wanted == {s.records[i].sequence : i \in
                      {i \in DOMAIN s.records : /\ s.records[i].sequence >= start
                                                /\ kinds = {} \/ s.records[i].kind \in kinds}}
        chosen == {n \in wanted : Cardinality({m \in wanted : m < n}) < limit}
        next   == PageEnd(s, chosen, start)
    IN [records |-> chosen, start |-> start, next |-> next,
        more |-> \E n \in wanted : n >= next]

\* The first question of a reader names the kinds it wants, and no cursor.
Poll(r, limit, kinds) ==
    LET asked == IF reader[r].started THEN reader[r].cursor ELSE Earliest(store)
        page  == Page(store, asked, limit, kinds)
    IN /\ IF reader[r].started THEN kinds = reader[r].kinds ELSE TRUE
       /\ reader' = [reader EXCEPT ![r] =
             [started |-> TRUE, cursor |-> page.next, kinds |-> kinds,
              got |-> @.got \cup page.records,
              told |-> @.told \cup asked..page.start - 1
                              \cup (IF @.started THEN {} ELSE 0..asked - 1),
              twice |-> @.twice \/ @.got \cap page.records # {},
              early |-> @.early \/ written = <<>>]]
       /\ UNCHANGED <<store, written>>

TranscriptNext ==
    \/ \E inputs \in UNION {[1..n -> Input] : n \in 0..2}, reset \in BOOLEAN :
          Report(inputs, reset)
    \/ \E r \in Readers, limit \in PageLimits, kinds \in {{}} \cup {{k} : k \in RecordKinds} :
          Poll(r, limit, kinds)

TranscriptSpec == TranscriptInit /\ [][TranscriptNext]_transcriptVars

-----------------------------------------------------------------------------
\* What the store knows of its records is so: their size is counted and within
\* the limit, no two of one author's ids are alike, and exactly the ids of what
\* is retained are refused, so that a record that made room can come again.
StoreTrue ==
    /\ store.retained = BytesFrom(store.records, 1)
    /\ store.retained <= MaximumBytes
    /\ store.next = Len(written)
    /\ store.seen = {store.records[i].source : i \in DOMAIN store.records} \ {NoSource}
    /\ \A i, j \in DOMAIN store.records :
          i < j => /\ store.records[i].sequence < store.records[j].sequence
                   /\ store.records[i].source = store.records[j].source =>
                         store.records[i].source = NoSource

\* A reader that follows its cursor gets every record of the kinds it wants
\* once, or is told that it came too late, however records are evicted and the
\* transcript replaced between its questions.  (One that asks before anything
\* has been written is sent past record 0: history.rs:191.)
NothingSkipped ==
    \A r \in Readers :
        /\ ~reader[r].twice
        /\ \A n \in 0..Len(written) - 1 :
              n < reader[r].cursor =>
                  \/ n \in reader[r].got \cup reader[r].told
                  \/ reader[r].kinds # {} /\ written[n + 1] \notin reader[r].kinds
                  \/ n = 0 /\ reader[r].early

TranscriptSound == StoreTrue /\ NothingSkipped
=============================================================================
