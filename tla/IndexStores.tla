----------------------------- MODULE IndexStores -----------------------------
(***************************************************************************)
(* What an ingestion run and a source purge do to the two stores that       *)
(* retrieval reads: the lexical SQLite file and the Qdrant collection of a  *)
(* corpus (run_ingest in services/ingestion_worker/worker/main.py, the      *)
(* upserts and deletes of worker/indexers.py, the purge endpoint of         *)
(* worker/server.py and its caller in the registry).                        *)
(*                                                                          *)
(* There is no transaction over the two stores.  A deletion selects the     *)
(* chunk ids of a source, deletes its rows, then its points; an ingest      *)
(* upserts points, then rows; each is a step of its own, can fail, and can  *)
(* be the last the process takes.                                           *)
(*                                                                          *)
(* What processing makes of a source is one chunk.  Its id is any id: it    *)
(* hashes a position and the first 80 characters of a text that an LLM may  *)
(* have cut, so new content can keep an id and the same content get a new   *)
(* one.                                                                     *)
(***************************************************************************)
EXTENDS Naturals

CONSTANTS
    Sources,      \* source ids of the corpus
    Prints,       \* fingerprints: content, processor and its configuration
    Ids,          \* chunk ids a source can get
    Writers,      \* pollers and purge threads of the ingestion workers
    None,         \* no source, fingerprint or id
    MaxFaults     \* bound: store calls that fail, and crashes

ASSUME NoneAssumption == None \notin Sources \cup Prints \cup Ids
ASSUME BoundAssumption == MaxFaults \in Nat

VARIABLES
    active,       \* sources with a row in corpus_sources that is not deleted
    content,      \* source -> the fingerprint its content has now
    rows,         \* table chunks of the lexical file
    points,       \* the Qdrant collection
    newest,       \* source -> fingerprint of its row with the highest rowid
    pc,           \* writer -> its place in run_ingest or in a purge
    todo,         \* writer -> sources the run has still to go through
    force,        \* writer -> force_reembed of the run
    hashes,       \* writer -> existing_hashes of the run
    src,          \* writer -> the source in hand
    doomed,       \* writer -> chunk ids selected for deletion
    fetched,      \* writer -> fingerprint of each source processed or skipped
    made,         \* writer -> chunk id of each source processed (all_chunks)
    unsound,      \* history: sources of which a deletion of rows has failed
    hurt,         \* history: sources that a fault has hit
    contested,    \* history: sources that two writers have dealt with at a time
    faults        \* faults so far

registry == <<active, content>>
stores   == <<rows, points, newest>>
task     == <<todo, force, hashes>>
hand     == <<src, doomed>>
results  == <<fetched, made>>
history  == <<unsound, hurt, contested, faults>>
vars     == <<registry, stores, pc, task, hand, results, history>>

-----------------------------------------------------------------------------
(* Data *)

Chunk == [src : Sources, id : Ids, print : Prints]
PrintOf == [Sources -> Prints \cup {None}]
Nothing == [s \in Sources |-> None]

\* run_ingest goes on to its "next" source, "fetch"es it, deletes its old
\* artifacts ("select", "rows", "points"), then embeds all chunks and upserts
\* points and rows.  A purge has three steps left after it selected its ids.
Deleting == {"select", "rows", "points"}
Writing  == {"embed", "upsert_points", "upsert_rows"}
RunPC    == {"next", "fetch"} \cup Deleting \cup Writing
EndPC    == {"returned", "embed_raised", "raised"}
PurgePC  == {"purge_rows", "purge_points", "purge_drop"}
PC       == {"idle"} \cup RunPC \cup EndPC \cup PurgePC

Of(store, s) == {c \in store : c.src = s}
IdsOf(store, s) == {c.id : c \in Of(store, s)}

\* An upsert replaces by chunk id.
Upsert(store, new) ==
    {c \in store : \A d \in new : ~(c.src = d.src /\ c.id = d.id)} \cup new

\* DELETE ... WHERE doc_id = s takes every row of s, those that were not there
\* when the ids were selected included; the points go by the selected ids.
WithoutRows(s) == {c \in rows : c.src # s}
WithoutPoints(s, ids) == {c \in points : ~(c.src = s /\ c.id \in ids)}

\* all_chunks of a run, and its skipped_unchanged.
Chunks(w) ==
    {[src |-> s, id |-> made[w][s], print |-> fetched[w][s]] :
        s \in {t \in Sources : made[w][t] # None}}
Skipped(w) == {s \in Sources : fetched[w][s] # None /\ made[w][s] = None}

\* The sources a run or a purge deals with, until it is over; one that could
\* not be fetched the run leaves alone.
Scope(w) == {s \in Sources : s \in todo[w] \/ s = src[w] \/ fetched[w][s] # None}

Init ==
    /\ active = {}
    /\ content \in [Sources -> Prints]
    /\ rows = {}
    /\ points = {}
    /\ newest = Nothing
    /\ pc = [w \in Writers |-> "idle"]
    /\ todo = [w \in Writers |-> {}]
    /\ force = [w \in Writers |-> FALSE]
    /\ hashes = [w \in Writers |-> Nothing]
    /\ src = [w \in Writers |-> None]
    /\ doomed = [w \in Writers |-> {}]
    /\ fetched = [w \in Writers |-> Nothing]
    /\ made = [w \in Writers |-> Nothing]
    /\ unsound = {}
    /\ hurt = {}
    /\ contested = {}
    /\ faults = 0

-----------------------------------------------------------------------------
(* The registry and the world *)

\* create_corpus_source, or the restoration of a deleted one.
AddSource(s) ==
    /\ s \notin active
    /\ active' = active \cup {s}
    /\ UNCHANGED <<content, stores, pc, task, hand, results, history>>

\* delete_corpus_source without purge: the index keeps what it has.
DropSource(s) ==
    /\ s \in active
    /\ active' = active \ {s}
    /\ UNCHANGED <<content, stores, pc, task, hand, results, history>>

\* The content behind a source, its processor or its configuration changes.
Change(s, p) ==
    /\ content[s] # p
    /\ content' = [content EXCEPT ![s] = p]
    /\ UNCHANGED <<active, stores, pc, task, hand, results, history>>

-----------------------------------------------------------------------------
(* run_ingest *)

Goes(w, l) == pc' = [pc EXCEPT ![w] = l]

\* What a run or a purge keeps in memory is gone when it is over.
Reset(w) ==
    /\ todo' = [todo EXCEPT ![w] = {}]
    /\ force' = [force EXCEPT ![w] = FALSE]
    /\ hashes' = [hashes EXCEPT ![w] = Nothing]
    /\ src' = [src EXCEPT ![w] = None]
    /\ doomed' = [doomed EXCEPT ![w] = {}]
    /\ fetched' = [fetched EXCEPT ![w] = Nothing]
    /\ made' = [made EXCEPT ![w] = Nothing]

\* A store call fails, or the process dies, with these sources in its hands.
Fails(hit) ==
    /\ faults < MaxFaults
    /\ faults' = faults + 1
    /\ hurt' = hurt \cup hit

\* Nothing keeps a writer from sources another one deals with.
Contests(w, scope) ==
    contested' = contested \cup {s \in scope : \E v \in Writers \ {w} : s \in Scope(v)}

\* A run over the whole corpus or over the sources a job asks for, with the
\* fingerprints it finds indexed.
Begin(w, scope, f) ==
    /\ pc[w] = "idle"
    /\ scope \subseteq active
    /\ scope # {}
    /\ Goes(w, "next")
    /\ todo' = [todo EXCEPT ![w] = scope]
    /\ force' = [force EXCEPT ![w] = f]
    /\ hashes' = [hashes EXCEPT ![w] = newest]
    /\ Contests(w, scope)
    /\ UNCHANGED <<registry, stores, hand, results, unsound, hurt, faults>>

NextSource(w, s) ==
    /\ pc[w] = "next"
    /\ s \in todo[w]
    /\ todo' = [todo EXCEPT ![w] = todo[w] \ {s}]
    /\ src' = [src EXCEPT ![w] = s]
    /\ Goes(w, "fetch")
    /\ UNCHANGED <<registry, stores, force, hashes, doomed, results, history>>

Unchanged(w, s) == ~force[w] /\ hashes[w][s] = content[s]

\* The fingerprint is the one that is indexed: skipped_unchanged.
Skip(w) ==
    /\ pc[w] = "fetch"
    /\ Unchanged(w, src[w])
    /\ fetched' = [fetched EXCEPT ![w][src[w]] = content[src[w]]]
    /\ src' = [src EXCEPT ![w] = None]
    /\ Goes(w, "next")
    /\ UNCHANGED <<registry, stores, task, doomed, made, history>>

\* The source is fetched and processed into chunks.
Process(w, i) ==
    /\ pc[w] = "fetch"
    /\ ~Unchanged(w, src[w])
    /\ fetched' = [fetched EXCEPT ![w][src[w]] = content[src[w]]]
    /\ made' = [made EXCEPT ![w][src[w]] = i]
    /\ Goes(w, "select")
    /\ UNCHANGED <<registry, stores, task, hand, history>>

\* The fetch or the processor raises, or there is no chunk: failed_sources.
SourceFails(w) ==
    /\ pc[w] = "fetch"
    /\ src' = [src EXCEPT ![w] = None]
    /\ Goes(w, "next")
    /\ UNCHANGED <<registry, stores, task, doomed, results, history>>

\* check_cancelled, before a source and before the embedding.
Cancelled(w) ==
    /\ pc[w] = "next"
    /\ todo[w] # {} \/ Chunks(w) # {}
    /\ Goes(w, "raised")
    /\ UNCHANGED <<registry, stores, task, hand, results, history>>

-----------------------------------------------------------------------------
(* delete_corpus_source_artifacts within a run *)

\* With the source in hand done, the run goes on to the next.
LetGo(w) ==
    /\ src' = [src EXCEPT ![w] = None]
    /\ doomed' = [doomed EXCEPT ![w] = {}]
    /\ Goes(w, "next")

\* Mutant: old artifacts are deleted on force_reembed only.
SelectOldForced(w) ==
    /\ pc[w] = "select"
    /\ IF Of(rows, src[w]) = {} \/ ~force[w]
       THEN LetGo(w)
       ELSE /\ doomed' = [doomed EXCEPT ![w] = IdsOf(rows, src[w])]
            /\ Goes(w, "rows")
            /\ UNCHANGED src
    /\ UNCHANGED <<registry, stores, task, results, history>>

\* SELECT chunk_id: with no row there is nothing to delete anywhere.
SelectOld(w) ==
    /\ pc[w] = "select"
    /\ IF Of(rows, src[w]) = {}
       THEN LetGo(w)
       ELSE /\ doomed' = [doomed EXCEPT ![w] = IdsOf(rows, src[w])]
            /\ Goes(w, "rows")
            /\ UNCHANGED src
    /\ UNCHANGED <<registry, stores, task, results, history>>

\* Mutant: fingerprints are kept apart from the rows and outlive them.
DeleteRowsOnly(w) ==
    /\ pc[w] = "rows"
    /\ rows' = WithoutRows(src[w])
    /\ Goes(w, "points")
    /\ UNCHANGED <<registry, points, newest, task, hand, results, history>>

DeleteRows(w) ==
    /\ pc[w] = "rows"
    /\ rows' = WithoutRows(src[w])
    /\ newest' = [newest EXCEPT ![src[w]] = None]
    /\ Goes(w, "points")
    /\ UNCHANGED <<registry, points, task, hand, results, history>>

\* Mutant: the failure is swallowed before the points are deleted.
DeleteRowsFailsGoesOn(w) ==
    /\ pc[w] = "rows"
    /\ Fails({src[w]})
    /\ unsound' = unsound \cup {src[w]}
    /\ Goes(w, "points")
    /\ UNCHANGED <<registry, stores, task, hand, results, contested>>

\* "Failed delete before re-ingest": logged, and the run goes on; an
\* OperationalError of the first SELECT is taken for "no rows".
DeleteRowsFails(w) ==
    /\ pc[w] \in {"select", "rows"}
    /\ Fails({src[w]})
    /\ unsound' = unsound \cup {src[w]}
    /\ LetGo(w)
    /\ UNCHANGED <<registry, stores, task, results, contested>>

\* Mutant: the collection of the points is not among those looked at.
DeletePointsElsewhere(w) ==
    /\ pc[w] = "points"
    /\ LetGo(w)
    /\ UNCHANGED <<registry, stores, task, results, history>>

DeletePoints(w) ==
    /\ pc[w] = "points"
    /\ points' = WithoutPoints(src[w], doomed[w])
    /\ LetGo(w)
    /\ UNCHANGED <<registry, rows, newest, task, results, history>>

\* _delete_qdrant_points swallows the second failure and answers 0.
DeletePointsFails(w) ==
    /\ pc[w] = "points"
    /\ Fails({src[w]})
    /\ LetGo(w)
    /\ UNCHANGED <<registry, stores, task, results, unsound, contested>>

-----------------------------------------------------------------------------
(* Embedding and upserts *)

\* No chunk: the run returns when it skipped something and raises otherwise.
NoChunks(w) ==
    /\ pc[w] = "next"
    /\ todo[w] = {}
    /\ Chunks(w) = {}
    /\ Goes(w, IF Skipped(w) # {} THEN "returned" ELSE "raised")
    /\ UNCHANGED <<registry, stores, task, hand, results, history>>

Embed(w) ==
    /\ pc[w] = "next"
    /\ todo[w] = {}
    /\ Chunks(w) # {}
    /\ \/ Goes(w, "upsert_points")
       \/ Goes(w, "embed_raised")
    /\ UNCHANGED <<registry, stores, task, hand, results, history>>

UpsertPoints(w) ==
    /\ pc[w] = "upsert_points"
    /\ points' = Upsert(points, Chunks(w))
    /\ Goes(w, "upsert_rows")
    /\ UNCHANGED <<registry, rows, newest, task, hand, results, history>>

\* Some batches are in when one fails.
UpsertPointsFails(w, done) ==
    /\ pc[w] = "upsert_points"
    /\ Fails({c.src : c \in Chunks(w)})
    /\ done \subseteq Chunks(w)
    /\ points' = Upsert(points, done)
    /\ Goes(w, "raised")
    /\ UNCHANGED <<registry, rows, newest, task, hand, results, unsound, contested>>

\* One transaction: DELETE and INSERT of every chunk, so that the new rows get
\* the highest rowids and get_corpus_source_hashes reads them last.
UpsertRows(w) ==
    /\ pc[w] = "upsert_rows"
    /\ rows' = Upsert(rows, Chunks(w))
    /\ newest' = [s \in Sources |-> IF made[w][s] # None THEN fetched[w][s] ELSE newest[s]]
    /\ Goes(w, "returned")
    /\ UNCHANGED <<registry, points, task, hand, results, history>>

UpsertRowsFails(w) ==
    /\ pc[w] = "upsert_rows"
    /\ Fails({c.src : c \in Chunks(w)})
    /\ Goes(w, "raised")
    /\ UNCHANGED <<registry, stores, task, hand, results, unsound, contested>>

\* The run is over and the job has its last status.
End(w) ==
    /\ pc[w] \in EndPC
    /\ Goes(w, "idle")
    /\ Reset(w)
    /\ UNCHANGED <<registry, stores, history>>

\* The process of the writer dies in the middle of a run or a purge.
Crash(w) ==
    /\ pc[w] # "idle"
    /\ Fails(Scope(w))
    /\ Goes(w, "idle")
    /\ Reset(w)
    /\ UNCHANGED <<registry, stores, unsound, contested>>

-----------------------------------------------------------------------------
(* DELETE ... ?purge=true: the artifacts first, the registry row last *)

BeginPurge(w, s) ==
    /\ pc[w] = "idle"
    /\ s \in active
    /\ src' = [src EXCEPT ![w] = s]
    /\ doomed' = [doomed EXCEPT ![w] = IdsOf(rows, s)]
    /\ Goes(w, IF Of(rows, s) = {} THEN "purge_drop" ELSE "purge_rows")
    /\ Contests(w, {s})
    /\ UNCHANGED <<registry, stores, task, results, unsound, hurt, faults>>

\* _doc_ids_for_source takes an OperationalError for "no rows".
BeginPurgeFails(w, s) ==
    /\ pc[w] = "idle"
    /\ s \in active
    /\ Fails({s})
    /\ src' = [src EXCEPT ![w] = s]
    /\ Goes(w, "purge_drop")
    /\ Contests(w, {s})
    /\ UNCHANGED <<registry, stores, task, doomed, results, unsound>>

PurgeRows(w) ==
    /\ pc[w] = "purge_rows"
    /\ rows' = WithoutRows(src[w])
    /\ newest' = [newest EXCEPT ![src[w]] = None]
    /\ Goes(w, "purge_points")
    /\ UNCHANGED <<registry, points, task, hand, results, history>>

\* The worker answers an error and the registry keeps the source (502).
PurgeRowsFails(w) ==
    /\ pc[w] = "purge_rows"
    /\ Fails({src[w]})
    /\ Goes(w, "idle")
    /\ Reset(w)
    /\ UNCHANGED <<registry, stores, unsound, contested>>

PurgePoints(w) ==
    /\ pc[w] = "purge_points"
    /\ points' = WithoutPoints(src[w], doomed[w])
    /\ Goes(w, "purge_drop")
    /\ UNCHANGED <<registry, rows, newest, task, hand, results, history>>

\* Swallowed as in a run: the purge is answered "purged".
PurgePointsFails(w) ==
    /\ pc[w] = "purge_points"
    /\ Fails({src[w]})
    /\ Goes(w, "purge_drop")
    /\ UNCHANGED <<registry, stores, task, hand, results, unsound, contested>>

PurgeDrop(w) ==
    /\ pc[w] = "purge_drop"
    /\ active' = active \ {src[w]}
    /\ Goes(w, "idle")
    /\ Reset(w)
    /\ UNCHANGED <<content, stores, history>>

-----------------------------------------------------------------------------
(* The specification *)

Ingest(w) ==
    \/ \E scope \in SUBSET Sources, f \in BOOLEAN : Begin(w, scope, f)
    \/ \E s \in Sources : NextSource(w, s)
    \/ \E i \in Ids : Process(w, i)
    \/ Skip(w) \/ SourceFails(w) \/ Cancelled(w)
    \/ SelectOld(w) \/ DeleteRows(w) \/ DeleteRowsFails(w)
    \/ DeletePoints(w) \/ DeletePointsFails(w)
    \/ NoChunks(w) \/ Embed(w)
    \/ UpsertPoints(w)
    \/ \E done \in SUBSET Chunks(w) : UpsertPointsFails(w, done)
    \/ UpsertRows(w) \/ UpsertRowsFails(w)
    \/ End(w)

Purge(w) ==
    \/ \E s \in Sources : BeginPurge(w, s) \/ BeginPurgeFails(w, s)
    \/ PurgeRows(w) \/ PurgeRowsFails(w)
    \/ PurgePoints(w) \/ PurgePointsFails(w)
    \/ PurgeDrop(w)

Next ==
    \/ \E s \in Sources : AddSource(s) \/ DropSource(s)
    \/ \E s \in Sources, p \in Prints : Change(s, p)
    \/ \E w \in Writers : Ingest(w) \/ Purge(w) \/ Crash(w)

Spec == Init /\ [][Next]_vars

-----------------------------------------------------------------------------
(* Properties *)

TypeOK ==
    /\ active \subseteq Sources
    /\ content \in [Sources -> Prints]
    /\ rows \subseteq Chunk
    /\ points \subseteq Chunk
    /\ newest \in PrintOf
    /\ pc \in [Writers -> PC]
    /\ todo \in [Writers -> SUBSET Sources]
    /\ force \in [Writers -> BOOLEAN]
    /\ hashes \in [Writers -> PrintOf]
    /\ src \in [Writers -> Sources \cup {None}]
    /\ doomed \in [Writers -> SUBSET Ids]
    /\ fetched \in [Writers -> PrintOf]
    /\ made \in [Writers -> [Sources -> Ids \cup {None}]]
    /\ unsound \subseteq Sources
    /\ hurt \subseteq Sources
    /\ contested \subseteq Sources
    /\ faults \in 0..MaxFaults

\* Runs and purges overlap freely.  All that follows is about a source that no
\* two of them have ever dealt with at the same time: the code does not keep
\* them apart, and writers that share a source can break each of the four.
Apart == Sources \ contested

\* What the lexical search finds of a source, the vector search can find too:
\* every row has a point with its chunk id, after any crash, failure or
\* cancellation (delete_corpus_document: rows first, run_ingest: points first).
RowsHavePointsOf(s) == \A r \in Of(rows, s) : \E p \in Of(points, s) : p.id = r.id
RowsHavePoints == \A s \in Apart : RowsHavePointsOf(s)

\* When a run returns, a source it processed or skipped is indexed with the
\* content the run fetched, whatever earlier runs and purges left behind: in
\* particular "unchanged" is never said of something that is not there.
ReturnedIsIndexedOf(w, s) ==
    pc[w] = "returned" /\ fetched[w][s] # None =>
        \E r \in Of(rows, s) : r.print = fetched[w][s]
ReturnedIsIndexed == \A w \in Writers, s \in Apart : ReturnedIsIndexedOf(w, s)

\* Old and new content of a source are never in the lexical file together,
\* unless a deletion of its rows has failed (re-ingest in run_ingest).
OneVersionOf(s) == s \notin unsound => \A r, q \in Of(rows, s) : r.print = q.print
OneVersion == \A s \in Apart : OneVersionOf(s)

\* The two stores hold the same chunks of a source that nobody deals with and
\* that no fault has hit: faults of a run or purge over other sources, and
\* cancelled and failed runs over this one, do not make them differ.
StoresAgree ==
    \A s \in Apart \ hurt :
        (\A w \in Writers : s \notin Scope(w)) => Of(rows, s) = Of(points, s)

-----------------------------------------------------------------------------
(* The inductive strengthening *)

\* get_corpus_source_hashes knows a source exactly when it has rows, and what
\* it says of it is in one of them.
NewestIsARow ==
    \A s \in Sources :
        /\ newest[s] = None <=> Of(rows, s) = {}
        /\ newest[s] # None => \E r \in Of(rows, s) : r.print = newest[s]

\* The bookkeeping of a run: what is to do, in hand, skipped and processed.
RunInOrder ==
    \A w \in Writers :
        /\ pc[w] \in {"fetch"} \cup Deleting \cup PurgePC => src[w] \notin todo[w]
        /\ pc[w] \notin {"fetch"} \cup Deleting \cup PurgePC => src[w] = None
        /\ pc[w] \in {"idle"} \cup PurgePC => todo[w] = {} /\ fetched[w] = Nothing /\ made[w] = Nothing
        /\ pc[w] \in Writing => todo[w] = {}
        /\ pc[w] = "fetch" => fetched[w][src[w]] = None
        /\ pc[w] \in Deleting => made[w][src[w]] # None
        /\ \A s \in todo[w] : fetched[w][s] = None

\* A source with chunks was fetched, and there is one in hand when it is used.
WellFormed ==
    /\ TypeOK
    /\ \A w \in Writers, s \in Sources : made[w][s] # None => fetched[w][s] # None
    /\ \A w \in Writers : pc[w] \in {"fetch"} \cup Deleting \cup PurgePC => src[w] \in Sources

\* One writer at a time deals with a source that is not contested.
OneAtATime == \A s \in Apart : \A v, w \in Writers : s \in Scope(v) /\ s \in Scope(w) => v = w

\* What the run took for the indexed fingerprint of a source still is, until
\* it has dealt with the source; what it skipped is still indexed.
HashesHold(w, s) ==
    /\ s \in todo[w] => hashes[w][s] = newest[s]
    /\ pc[w] = "fetch" /\ src[w] = s => hashes[w][s] = newest[s]
    /\ s \in Skipped(w) => \E r \in Of(rows, s) : r.print = fetched[w][s]

\* Between the two deletions the rows are gone, between the two upserts the
\* points are there, and what a run has processed has left no old row.
Halfway(w, s) ==
    /\ pc[w] \in {"points", "purge_points"} /\ src[w] = s => Of(rows, s) = {}
    /\ pc[w] = "upsert_rows" /\ made[w][s] # None => \E p \in Of(points, s) : p.id = made[w][s]
    /\ /\ s \notin unsound
       /\ pc[w] \in RunPC
       /\ made[w][s] # None
       /\ ~(pc[w] \in {"select", "rows"} /\ src[w] = s)
       => Of(rows, s) = {}

\* The step that stands between a source's rows and points being the same.
MidDeletion(w, s)  == pc[w] \in {"points", "purge_points"} /\ src[w] = s
MidUpsert(w, s)    == pc[w] = "upsert_rows" /\ made[w][s] # None

\* Without faults they differ by the step a writer is about to make, no more.
OneStep(w, s) ==
    /\ pc[w] \in {"rows", "purge_rows"} /\ src[w] = s => doomed[w] = IdsOf(rows, s)
    /\ MidDeletion(w, s) => Of(rows, s) = {p \in Of(points, s) : p.id \notin doomed[w]}
    /\ MidUpsert(w, s) => Of(points, s) = Upsert(Of(rows, s), Of(Chunks(w), s))
Between(w, s) == ~MidDeletion(w, s) /\ ~MidUpsert(w, s)
AgreeButForOneStep(s) ==
    s \notin hurt =>
        /\ \A w \in Writers : OneStep(w, s)
        /\ (\A w \in Writers : Between(w, s)) => Of(rows, s) = Of(points, s)

\* What holds of a source that is not contested.
SoundOf(s) ==
    /\ \A w \in Writers : HashesHold(w, s) /\ Halfway(w, s) /\ ReturnedIsIndexedOf(w, s)
    /\ AgreeButForOneStep(s)
    /\ RowsHavePointsOf(s)
    /\ OneVersionOf(s)

Sound ==
    /\ WellFormed
    /\ NewestIsARow
    /\ RunInOrder
    /\ OneAtATime
    /\ \A s \in Apart : SoundOf(s)

-----------------------------------------------------------------------------
(* What the documentation says and the code does not keep *)

\* "asks the ingestion worker to remove indexed SQLite, FTS, and Qdrant
\* artifacts for that source before deleting the registry record", and "returns
\* 502 when source purge fails": a purge that drops a source leaves nothing.
PurgedIsGone ==
    [][\A w \in Writers : PurgeDrop(w) => Of(rows, src[w]) = {} /\ Of(points, src[w]) = {}]_vars

=============================================================================
