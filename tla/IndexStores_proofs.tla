------------------------- MODULE IndexStores_proofs -------------------------
(***************************************************************************)
(* Proofs about IndexStores, for any number of writers that overlap as they *)
(* like: types, the order of a run, and what makes the two stores sound for *)
(* every source that two writers have not dealt with at a time, any crash,  *)
(* failure and cancellation included.                                       *)
(***************************************************************************)
EXTENDS IndexStores, TLAPS

USE NoneAssumption, BoundAssumption DEF Goes

-----------------------------------------------------------------------------
(* Type correctness *)

\* The chunks of a run are chunks.
LEMMA ChunksType ==
    ASSUME WellFormed, NEW w \in Writers
    PROVE  Chunks(w) \subseteq Chunk
  BY DEF WellFormed, TypeOK, Chunks, Chunk, PrintOf

\* Whom a fault hits and what writers contest are sources.
LEMMA HitsAreSources ==
    ASSUME TypeOK, NEW w \in Writers
    PROVE  /\ Scope(w) \subseteq Sources
           /\ {c.src : c \in Chunks(w)} \subseteq Sources
           /\ \A scope \in SUBSET Sources : Contests(w, scope) => contested' \subseteq Sources
  BY DEF TypeOK, Scope, Chunks, Contests

\* The stores start empty and the writers idle.
LEMMA InitType == Init => WellFormed
  BY DEF Init, WellFormed, TypeOK, Deleting, PurgePC, PC, PrintOf, Nothing

\* Every step of a run, a purge, the registry or the world keeps the types.
LEMMA NextType == WellFormed /\ [Next]_vars => WellFormed'
<1> SUFFICES ASSUME WellFormed, [Next]_vars
             PROVE  WellFormed'
  OBVIOUS
<1> USE DEF WellFormed, TypeOK, vars, registry, stores, task, hand, results, history
<1>1. ASSUME NEW s \in Sources, AddSource(s) \/ DropSource(s)
      PROVE  WellFormed'
  BY <1>1 DEF AddSource, DropSource
<1>2. ASSUME NEW s \in Sources, NEW p \in Prints, Change(s, p)
      PROVE  WellFormed'
  BY <1>2 DEF Change
<1>3. ASSUME NEW w \in Writers, Ingest(w)
      PROVE  WellFormed'
  <2> USE DEF PC, RunPC, EndPC, PurgePC, Deleting, Writing
  <2>1. CASE \E scope \in SUBSET Sources, f \in BOOLEAN : Begin(w, scope, f)
    <3>1. contested' \subseteq Sources
      BY <2>1, HitsAreSources DEF Begin
    <3>2. QED
      BY <2>1, <3>1 DEF Begin
  <2>2. CASE \E s \in Sources : NextSource(w, s)
    BY <2>2 DEF NextSource
  <2>3. CASE \E i \in Ids : Process(w, i)
    BY <2>3 DEF Process, PrintOf
  <2>4. CASE Skip(w)
    BY <2>4 DEF Skip, PrintOf
  <2>5a. CASE SourceFails(w)
    BY <2>5a DEF SourceFails
  <2>5. CASE Cancelled(w)
    BY <2>5 DEF Cancelled
  <2>6. CASE SelectOld(w)
    <3>1. IdsOf(rows, src[w]) \subseteq Ids
      BY DEF IdsOf, Of, Chunk
    <3>2. CASE Of(rows, src[w]) = {}
      <4>1. /\ src' = [src EXCEPT ![w] = None] /\ doomed' = [doomed EXCEPT ![w] = {}]
            /\ pc' = [pc EXCEPT ![w] = "next"]
        BY <2>6, <3>2 DEF SelectOld, LetGo
      <4>2. UNCHANGED <<registry, stores, task, results, history>>
        BY <2>6 DEF SelectOld
      <4>3. QED
        BY <4>1, <4>2
    <3>3. CASE Of(rows, src[w]) # {}
      <4>1. doomed' = [doomed EXCEPT ![w] = IdsOf(rows, src[w])] /\ pc' = [pc EXCEPT ![w] = "rows"]
        BY <2>6, <3>3 DEF SelectOld
      <4>2. UNCHANGED <<registry, stores, task, src, results, history>> /\ pc[w] = "select"
        BY <2>6, <3>3 DEF SelectOld
      <4>3. QED
        BY <3>1, <4>1, <4>2
    <3>4. QED
      BY <3>2, <3>3
  <2>7. CASE DeleteRows(w)
    BY <2>7 DEF DeleteRows, WithoutRows, PrintOf
  <2>8. CASE DeleteRowsFails(w)
    BY <2>8 DEF DeleteRowsFails, Fails, LetGo
  <2>9. CASE DeletePoints(w)
    BY <2>9 DEF DeletePoints, LetGo, WithoutPoints
  <2>9a. CASE DeletePointsFails(w)
    BY <2>9a DEF DeletePointsFails, Fails, LetGo
  <2>10. CASE NoChunks(w)
    BY <2>10 DEF NoChunks
  <2>10a. CASE Embed(w)
    <3>1. PICK l \in {"upsert_points", "embed_raised"} : pc' = [pc EXCEPT ![w] = l]
      BY <2>10a DEF Embed
    <3>2. UNCHANGED <<registry, stores, task, hand, results, history>> /\ pc[w] = "next"
      BY <2>10a DEF Embed
    <3>3. QED
      BY <3>1, <3>2
  <2>11. CASE UpsertPoints(w)
    BY <2>11, ChunksType DEF UpsertPoints, Upsert
  <2>12. CASE \E done \in SUBSET Chunks(w) : UpsertPointsFails(w, done)
    <3>1. hurt' \subseteq Sources
      BY <2>12, HitsAreSources DEF UpsertPointsFails, Fails
    <3>2. faults' \in 0..MaxFaults
      BY <2>12 DEF UpsertPointsFails, Fails
    <3>3. points' \subseteq Chunk
      BY <2>12, ChunksType DEF UpsertPointsFails, Upsert
    <3>4. QED
      BY <2>12, <3>1, <3>2, <3>3 DEF UpsertPointsFails
  <2>13. CASE UpsertRows(w)
    <3>1. rows' \subseteq Chunk
      BY <2>13, ChunksType DEF UpsertRows, Upsert
    <3>2. newest' \in PrintOf
      BY <2>13 DEF UpsertRows, PrintOf
    <3>3. QED
      BY <2>13, <3>1, <3>2 DEF UpsertRows
  <2>14. CASE UpsertRowsFails(w)
    <3>1. hurt' \subseteq Sources
      BY <2>14, HitsAreSources DEF UpsertRowsFails, Fails
    <3>2. faults' \in 0..MaxFaults
      BY <2>14 DEF UpsertRowsFails, Fails
    <3>3. QED
      BY <2>14, <3>1, <3>2 DEF UpsertRowsFails
  <2>15. CASE End(w)
    BY <2>15 DEF End, Reset, Nothing, PrintOf
  <2>16. QED
    BY <1>3, <2>1, <2>2, <2>3, <2>4, <2>5, <2>5a, <2>6, <2>7, <2>8, <2>9, <2>9a, <2>10, <2>10a, <2>11, <2>12, <2>13,
       <2>14, <2>15 DEF Ingest
<1>4. ASSUME NEW w \in Writers, Purge(w) \/ Crash(w)
      PROVE  WellFormed'
  <2> USE DEF PC, RunPC, EndPC, PurgePC, Deleting, Writing
  <2>1. ASSUME NEW s \in Sources, BeginPurge(w, s)
        PROVE  WellFormed'
    <3>1. contested' \subseteq Sources
      BY <2>1, HitsAreSources DEF BeginPurge
    <3>2. IdsOf(rows, s) \subseteq Ids
      BY DEF IdsOf, Of, Chunk
    <3>3. PICK l \in {"purge_drop", "purge_rows"} : pc' = [pc EXCEPT ![w] = l]
      BY <2>1 DEF BeginPurge
    <3>4. /\ src' = [src EXCEPT ![w] = s] /\ doomed' = [doomed EXCEPT ![w] = IdsOf(rows, s)]
          /\ UNCHANGED <<registry, stores, task, results, unsound, hurt, faults>>
      BY <2>1 DEF BeginPurge
    <3>5. QED
      BY <3>1, <3>2, <3>3, <3>4
  <2>1a. ASSUME NEW s \in Sources, BeginPurgeFails(w, s)
         PROVE  WellFormed'
    <3>1. contested' \subseteq Sources
      BY <2>1a, HitsAreSources DEF BeginPurgeFails
    <3>2. QED
      BY <2>1a, <3>1 DEF BeginPurgeFails, Fails
  <2>2. CASE PurgeRows(w)
    BY <2>2 DEF PurgeRows, WithoutRows, PrintOf
  <2>3. CASE PurgeRowsFails(w)
    BY <2>3 DEF PurgeRowsFails, Fails, Reset, Nothing, PrintOf
  <2>3a. CASE Crash(w)
    <3>1. hurt' \subseteq Sources
      BY <2>3a, HitsAreSources DEF Crash, Fails
    <3>2. faults' \in 0..MaxFaults
      BY <2>3a DEF Crash, Fails
    <3>3. QED
      BY <2>3a, <3>1, <3>2 DEF Crash, Reset, Nothing, PrintOf
  <2>4. CASE PurgePoints(w)
    BY <2>4 DEF PurgePoints, WithoutPoints
  <2>4a. CASE PurgePointsFails(w)
    BY <2>4a DEF PurgePointsFails, Fails
  <2>5. CASE PurgeDrop(w)
    BY <2>5 DEF PurgeDrop, Reset, Nothing, PrintOf
  <2>6. QED
    BY <1>4, <2>1, <2>1a, <2>2, <2>3, <2>3a, <2>4, <2>4a, <2>5 DEF Purge
<1>5. CASE UNCHANGED vars
  BY <1>5
<1>6. QED
  BY <1>1, <1>2, <1>3, <1>4, <1>5 DEF Next

\* Every variable keeps its type, for any number of writers.
THEOREM TypeCorrect == Spec => []TypeOK
<1>1. WellFormed => TypeOK
  BY DEF WellFormed
<1>2. QED
  BY <1>1, InitType, NextType, PTL DEF Spec

-----------------------------------------------------------------------------
(* The order of a run: any number of writers *)

\* A run keeps its books whatever else happens.
LEMMA RunInOrderStep == WellFormed /\ RunInOrder /\ [Next]_vars => RunInOrder'
<1> SUFFICES ASSUME WellFormed, RunInOrder, [Next]_vars
             PROVE  RunInOrder'
  OBVIOUS
<1> USE DEF WellFormed, TypeOK, vars, registry, stores, task, hand, results, history
<1> USE DEF PC, RunPC, EndPC, PurgePC, Deleting, Writing, PrintOf, RunInOrder
<1>1. CASE \E s \in Sources : AddSource(s) \/ DropSource(s)
  BY <1>1 DEF AddSource, DropSource
<1>2. CASE \E s \in Sources, p \in Prints : Change(s, p)
  BY <1>2 DEF Change
<1>3. ASSUME NEW w \in Writers, Ingest(w)
      PROVE  RunInOrder'
  <2>1. CASE \E scope \in SUBSET Sources, f \in BOOLEAN : Begin(w, scope, f)
    BY <2>1 DEF Begin, Nothing
  <2>2. CASE \E s \in Sources : NextSource(w, s)
    BY <2>2 DEF NextSource
  <2>3. CASE \E i \in Ids : Process(w, i)
    BY <2>3 DEF Process
  <2>4. CASE Skip(w)
    BY <2>4 DEF Skip
  <2>5. CASE SourceFails(w)
    BY <2>5 DEF SourceFails
  <2>6. CASE Cancelled(w)
    BY <2>6 DEF Cancelled
  <2>17. CASE NoChunks(w)
    <3>1. PICK l \in {"returned", "raised"} : pc' = [pc EXCEPT ![w] = l]
      BY <2>17 DEF NoChunks
    <3>2. UNCHANGED <<todo, src, fetched, made>> /\ pc[w] = "next"
      BY <2>17 DEF NoChunks
    <3>3. QED
      BY <3>1, <3>2
  <2>16. CASE Embed(w)
    <3>1. PICK l \in {"upsert_points", "embed_raised"} : pc' = [pc EXCEPT ![w] = l]
      BY <2>16 DEF Embed
    <3>2. UNCHANGED <<todo, src, fetched, made>> /\ pc[w] = "next" /\ todo[w] = {}
      BY <2>16 DEF Embed
    <3>3. CASE l = "upsert_points"
      BY <3>1, <3>2, <3>3
    <3>4. CASE l = "embed_raised"
      BY <3>1, <3>2, <3>4
    <3>5. QED
      BY <3>1, <3>3, <3>4
  <2>7. CASE SelectOld(w)
    BY <2>7 DEF SelectOld, LetGo
  <2>8. CASE DeleteRows(w)
    BY <2>8 DEF DeleteRows
  <2>15. CASE DeleteRowsFails(w)
    BY <2>15 DEF DeleteRowsFails, LetGo
  <2>9. CASE DeletePoints(w)
    BY <2>9 DEF DeletePoints, LetGo
  <2>14. CASE DeletePointsFails(w)
    BY <2>14 DEF DeletePointsFails, LetGo
  <2>10. CASE UpsertPoints(w) \/ UpsertRows(w) \/ UpsertRowsFails(w)
    BY <2>10 DEF UpsertPoints, UpsertRows, UpsertRowsFails
  <2>11. CASE \E done \in SUBSET Chunks(w) : UpsertPointsFails(w, done)
    BY <2>11 DEF UpsertPointsFails
  <2>12. CASE End(w)
    BY <2>12 DEF End, Reset, Nothing
  <2>13. QED
    BY <1>3, <2>1, <2>2, <2>3, <2>4, <2>5, <2>6, <2>7, <2>8, <2>9, <2>10, <2>11, <2>12, <2>14, <2>15, <2>16, <2>17 DEF Ingest
<1>4. ASSUME NEW w \in Writers, Purge(w) \/ Crash(w)
      PROVE  RunInOrder'
  <2>1. CASE \E s \in Sources : BeginPurge(w, s) \/ BeginPurgeFails(w, s)
    BY <2>1 DEF BeginPurge, BeginPurgeFails
  <2>2. CASE PurgeRows(w) \/ PurgePoints(w) \/ PurgePointsFails(w)
    BY <2>2 DEF PurgeRows, PurgePoints, PurgePointsFails
  <2>3. CASE PurgeRowsFails(w)
    BY <2>3 DEF PurgeRowsFails, Reset, Nothing
  <2>6. CASE PurgeDrop(w)
    BY <2>6 DEF PurgeDrop, Reset, Nothing
  <2>4. CASE Crash(w)
    BY <2>4 DEF Crash, Reset, Nothing
  <2>5. QED
    BY <1>4, <2>1, <2>2, <2>3, <2>4, <2>6 DEF Purge
<1>5. CASE UNCHANGED vars
  BY <1>5
<1>6. QED
  BY <1>1, <1>2, <1>3, <1>4, <1>5 DEF Next

-----------------------------------------------------------------------------
(* The stores *)

-----------------------------------------------------------------------------
(* What a step can change *)

\* What a writer does in one step.
Acts(w) == Ingest(w) \/ Purge(w) \/ Crash(w)

\* The registry, the world and steps that stutter touch neither writers nor
\* stores.
LEMMA OutsideSteps ==
    ASSUME [Next]_vars
    PROVE  \/ UNCHANGED <<stores, pc, task, hand, results, history>>
           \/ \E w \in Writers : Acts(w)
  BY DEF Next, AddSource, DropSource, Change, vars, Acts

\* Three steps change the lexical file.
LEMMA RowsChange ==
    ASSUME NEW w \in Writers, Acts(w)
    PROVE  \/ UNCHANGED <<rows, newest>>
           \/ DeleteRows(w) \/ PurgeRows(w) \/ UpsertRows(w)
<1> USE DEF stores
<1>1. CASE Ingest(w)
  BY <1>1 DEF Ingest, Begin, NextSource, Process, Skip, SourceFails, Cancelled, SelectOld,
     DeleteRowsFails, DeletePoints, DeletePointsFails, NoChunks, Embed, UpsertPoints,
     UpsertPointsFails, UpsertRowsFails, End
<1>2. CASE Purge(w)
  BY <1>2 DEF Purge, BeginPurge, BeginPurgeFails, PurgeRowsFails, PurgePoints, PurgePointsFails, PurgeDrop
<1>3. CASE Crash(w)
  BY <1>3 DEF Crash
<1>4. QED
  BY <1>1, <1>2, <1>3 DEF Acts

\* Four steps change the collection.
LEMMA PointsChange ==
    ASSUME NEW w \in Writers, Acts(w)
    PROVE  \/ UNCHANGED points
           \/ DeletePoints(w) \/ PurgePoints(w) \/ UpsertPoints(w)
           \/ \E done \in SUBSET Chunks(w) : UpsertPointsFails(w, done)
<1> USE DEF stores
<1>1. CASE Ingest(w)
  BY <1>1 DEF Ingest, Begin, NextSource, Process, Skip, SourceFails, Cancelled, SelectOld,
     DeleteRows, DeleteRowsFails, DeletePointsFails, NoChunks, Embed, UpsertRows,
     UpsertRowsFails, End
<1>2. CASE Purge(w)
  BY <1>2 DEF Purge, BeginPurge, BeginPurgeFails, PurgeRows, PurgeRowsFails, PurgePointsFails, PurgeDrop
<1>3. CASE Crash(w)
  BY <1>3 DEF Crash
<1>4. QED
  BY <1>1, <1>2, <1>3 DEF Acts

\* What has failed, was hit by a fault or contested is remembered for good.
LEMMA HistoryGrows ==
    ASSUME NEW w \in Writers, Acts(w)
    PROVE  /\ unsound \subseteq unsound'
           /\ hurt \subseteq hurt'
           /\ contested \subseteq contested'
<1> USE DEF history, Fails, Contests
<1>1. CASE Ingest(w)
  BY <1>1 DEF Ingest, Begin, NextSource, Process, Skip, SourceFails, Cancelled, SelectOld,
     DeleteRows, DeleteRowsFails, DeletePoints, DeletePointsFails, NoChunks, Embed, UpsertPoints,
     UpsertPointsFails, UpsertRows, UpsertRowsFails, End
<1>2. CASE Purge(w) \/ Crash(w)
  BY <1>2 DEF Purge, BeginPurge, BeginPurgeFails, PurgeRows, PurgeRowsFails, PurgePoints, PurgePointsFails,
     PurgeDrop, Crash
<1>3. QED
  BY <1>1, <1>2 DEF Acts

\* A writer's step leaves the memory of the others alone.
LEMMA OthersUntouched ==
    ASSUME WellFormed, NEW w \in Writers, Acts(w), NEW v \in Writers, v # w
    PROVE  /\ pc'[v] = pc[v] /\ todo'[v] = todo[v] /\ hashes'[v] = hashes[v] /\ src'[v] = src[v]
           /\ doomed'[v] = doomed[v] /\ fetched'[v] = fetched[v] /\ made'[v] = made[v]
<1> USE DEF WellFormed, TypeOK, task, hand, results, LetGo, Reset
<1>1. CASE Ingest(w)
  BY <1>1 DEF Ingest, Begin, NextSource, Process, Skip, SourceFails, Cancelled, SelectOld,
     DeleteRows, DeleteRowsFails, DeletePoints, DeletePointsFails, NoChunks, Embed, UpsertPoints,
     UpsertPointsFails, UpsertRows, UpsertRowsFails, End
<1>2. CASE Purge(w) \/ Crash(w)
  BY <1>2 DEF Purge, BeginPurge, BeginPurgeFails, PurgeRows, PurgeRowsFails, PurgePoints, PurgePointsFails,
     PurgeDrop, Crash
<1>3. QED
  BY <1>1, <1>2 DEF Acts

\* An upsert of all chunks is, for a source, an upsert of its own.
LEMMA UpsertOf ==
    ASSUME NEW old, NEW new, NEW s
    PROVE  Of(Upsert(old, new), s) = Upsert(Of(old, s), Of(new, s))
  BY DEF Upsert, Of

\* A run has one chunk of a source that it processed and none of another.
LEMMA ChunksOf ==
    ASSUME NEW w \in Writers, NEW s \in Sources
    PROVE  /\ made[w][s] # None =>
                 Of(Chunks(w), s) = {[src |-> s, id |-> made[w][s], print |-> fetched[w][s]]}
           /\ made[w][s] = None => Of(Chunks(w), s) = {}
  BY DEF Chunks, Of

\* An upsert of nothing changes nothing.
LEMMA UpsertNothing ==
    ASSUME NEW old
    PROVE  Upsert(old, {}) = old
  BY DEF Upsert

\* Rows of a source that is not in the scope of the writer stay as they are.
LEMMA RowsElsewhere ==
    ASSUME WellFormed, NEW w \in Writers, Acts(w), NEW s \in Sources, s \notin Scope(w)
    PROVE  Of(rows', s) = Of(rows, s) /\ newest'[s] = newest[s]
<1> USE DEF WellFormed, TypeOK
<1>1. src[w] # s /\ made[w][s] = None
  BY DEF Scope
<1>2. CASE UNCHANGED <<rows, newest>>
  BY <1>2
<1>3. CASE DeleteRows(w) \/ PurgeRows(w)
  <2>1. rows' = WithoutRows(src[w]) /\ newest' = [newest EXCEPT ![src[w]] = None]
    BY <1>3 DEF DeleteRows, PurgeRows
  <2>2. QED
    BY <1>1, <2>1 DEF WithoutRows, Of, PrintOf
<1>4. CASE UpsertRows(w)
  <2>1. rows' = Upsert(rows, Chunks(w)) /\ newest'[s] = newest[s]
    BY <1>1, <1>4 DEF UpsertRows
  <2>2. Of(rows', s) = Upsert(Of(rows, s), Of(Chunks(w), s))
    BY <2>1, UpsertOf
  <2>3. Of(Chunks(w), s) = {}
    BY <1>1, ChunksOf
  <2>4. QED
    BY <2>1, <2>2, <2>3, UpsertNothing
<1>5. QED
  BY <1>2, <1>3, <1>4, RowsChange

\* So do its points.
LEMMA PointsElsewhere ==
    ASSUME WellFormed, NEW w \in Writers, Acts(w), NEW s \in Sources, s \notin Scope(w)
    PROVE  Of(points', s) = Of(points, s)
<1>1. src[w] # s /\ made[w][s] = None
  BY DEF Scope, WellFormed
<1>2. CASE UNCHANGED points
  BY <1>2
<1>3. CASE DeletePoints(w) \/ PurgePoints(w)
  BY <1>1, <1>3 DEF DeletePoints, PurgePoints, WithoutPoints, Of
<1>4. CASE UpsertPoints(w) \/ \E done \in SUBSET Chunks(w) : UpsertPointsFails(w, done)
  <2>1. PICK done \in SUBSET Chunks(w) : points' = Upsert(points, done)
    BY <1>4 DEF UpsertPoints, UpsertPointsFails
  <2>2. Of(Chunks(w), s) = {}
    BY <1>1, ChunksOf
  <2>3. Of(done, s) = {}
    BY <2>2 DEF Of
  <2>4. Of(points', s) = Upsert(Of(points, s), Of(done, s))
    BY <2>1, UpsertOf
  <2>5. QED
    BY <2>3, <2>4, UpsertNothing
<1>5. QED
  BY <1>2, <1>3, <1>4, PointsChange

\* The fingerprint get_corpus_source_hashes reads for a source is always in
\* one of its rows.
LEMMA NewestStep == WellFormed /\ NewestIsARow /\ [Next]_vars => NewestIsARow'
<1> SUFFICES ASSUME WellFormed, NewestIsARow, [Next]_vars
             PROVE  NewestIsARow'
  OBVIOUS
<1> USE DEF WellFormed, TypeOK, NewestIsARow, Of
<1>1. CASE UNCHANGED <<rows, newest>>
  BY <1>1
<1>2. ASSUME NEW w \in Writers, DeleteRows(w) \/ PurgeRows(w)
      PROVE  NewestIsARow'
  <2>1. src[w] \in Sources
    BY <1>2 DEF DeleteRows, PurgeRows, Deleting, PurgePC
  <2>2. rows' = WithoutRows(src[w]) /\ newest' = [newest EXCEPT ![src[w]] = None]
    BY <1>2 DEF DeleteRows, PurgeRows
  <2>3. newest'[src[w]] = None /\ Of(rows', src[w]) = {}
    BY <2>1, <2>2 DEF WithoutRows, PrintOf
  <2>4. ASSUME NEW s \in Sources, s # src[w]
        PROVE  newest'[s] = newest[s] /\ Of(rows', s) = Of(rows, s)
    BY <2>1, <2>2, <2>4 DEF WithoutRows, PrintOf
  <2>5. QED
    BY <2>3, <2>4
<1>3. ASSUME NEW w \in Writers, UpsertRows(w)
      PROVE  NewestIsARow'
  <2> SUFFICES ASSUME NEW s \in Sources
               PROVE  /\ newest'[s] = None <=> Of(rows', s) = {}
                      /\ newest'[s] # None => \E r \in Of(rows', s) : r.print = newest'[s]
    OBVIOUS
  <2>1. rows' = Upsert(rows, Chunks(w))
    BY <1>3 DEF UpsertRows
  <2>2. CASE made[w][s] # None
    <3> DEFINE c == [src |-> s, id |-> made[w][s], print |-> fetched[w][s]]
    <3>1. c \in Chunks(w)
      BY <2>2 DEF Chunks
    <3>2. c \in Of(rows', s) /\ c.print = newest'[s]
      BY <1>3, <2>1, <2>2, <3>1 DEF UpsertRows, Upsert
    <3>3. newest'[s] # None
      BY <1>3, <2>2 DEF UpsertRows
    <3>4. QED
      BY <3>2, <3>3
  <2>3. CASE made[w][s] = None
    <3>1. \A c \in Chunks(w) : c.src # s
      BY <2>3 DEF Chunks
    <3>2. Of(rows', s) = Of(rows, s)
      BY <2>1, <3>1 DEF Upsert
    <3>3. newest'[s] = newest[s]
      BY <1>3, <2>3 DEF UpsertRows
    <3>4. QED
      BY <3>2, <3>3
  <2>4. QED
    BY <2>2, <2>3
<1>4. QED
  BY <1>1, <1>2, <1>3, OutsideSteps, RowsChange DEF stores

-----------------------------------------------------------------------------
(* Writers and the sources they deal with *)

\* A writer takes on sources when it begins, and only then.
LEMMA ScopeStep ==
    ASSUME WellFormed, RunInOrder, NEW w \in Writers, Acts(w)
    PROVE  \/ Scope(w)' \subseteq Scope(w)
           \/ \E scope \in SUBSET Sources : Contests(w, scope) /\ Scope(w)' \subseteq scope
<1> USE DEF WellFormed, TypeOK, task, hand, results, Nothing, PrintOf
<1>1. CASE \E scope \in SUBSET Sources, f \in BOOLEAN : Begin(w, scope, f)
  <2>1. PICK scope \in SUBSET Sources, f \in BOOLEAN : Begin(w, scope, f)
    BY <1>1
  <2>2. fetched'[w] = Nothing /\ src'[w] = None /\ todo'[w] = scope
    BY <2>1 DEF Begin, RunInOrder, Deleting, PurgePC
  <2>3. Scope(w)' \subseteq scope
    BY <2>2, NoneAssumption DEF Scope
  <2>4. QED
    BY <2>1, <2>3 DEF Begin
<1>2. CASE \E s \in Sources : BeginPurge(w, s) \/ BeginPurgeFails(w, s)
  <2>1. PICK s \in Sources : BeginPurge(w, s) \/ BeginPurgeFails(w, s)
    BY <1>2
  <2>2. fetched'[w] = Nothing /\ src'[w] = s /\ todo'[w] = {}
    BY <2>1 DEF BeginPurge, BeginPurgeFails, RunInOrder
  <2>3. Scope(w)' \subseteq {s}
    BY <2>2 DEF Scope
  <2>4. Contests(w, {s})
    BY <2>1 DEF BeginPurge, BeginPurgeFails
  <2>5. QED
    BY <2>3, <2>4
<1>3. CASE \/ \E s \in Sources : NextSource(w, s)
           \/ \E i \in Ids : Process(w, i)
           \/ Skip(w) \/ SourceFails(w) \/ Cancelled(w) \/ SelectOld(w) \/ DeleteRows(w) \/ DeleteRowsFails(w)
           \/ DeletePoints(w) \/ DeletePointsFails(w)
  BY <1>3 DEF NextSource, Process, Skip, SourceFails, Cancelled, SelectOld, DeleteRows, DeleteRowsFails,
     DeletePoints, DeletePointsFails, LetGo, Scope, Deleting
<1>4. CASE \/ NoChunks(w) \/ Embed(w) \/ UpsertPoints(w)
           \/ \E done \in SUBSET Chunks(w) : UpsertPointsFails(w, done)
           \/ UpsertRows(w) \/ UpsertRowsFails(w)
           \/ PurgeRows(w) \/ PurgePoints(w) \/ PurgePointsFails(w)
  BY <1>4 DEF NoChunks, Embed, UpsertPoints, UpsertPointsFails, UpsertRows, UpsertRowsFails,
     PurgeRows, PurgePoints, PurgePointsFails, Scope
<1>5. CASE End(w) \/ PurgeRowsFails(w) \/ PurgeDrop(w) \/ Crash(w)
  BY <1>5 DEF End, PurgeRowsFails, PurgeDrop, Crash, Reset, Scope
<1>6. QED
  BY <1>1, <1>2, <1>3, <1>4, <1>5 DEF Acts, Ingest, Purge

\* A source is contested from the moment a second writer takes it on.
LEMMA OneAtATimeStep ==
    ASSUME WellFormed, RunInOrder, OneAtATime, NEW w \in Writers, Acts(w)
    PROVE  OneAtATime'
<1>1. contested \subseteq contested'
  BY HistoryGrows
<1>2. \A v \in Writers : v # w => Scope(v)' = Scope(v)
  BY OthersUntouched DEF Scope
<1>3. ASSUME NEW v \in Writers, v # w, NEW s \in Sources, s \notin contested',
             s \in Scope(v)', s \in Scope(w)'
      PROVE  FALSE
  <2>1. s \in Scope(v)
    BY <1>2, <1>3
  <2>2. CASE Scope(w)' \subseteq Scope(w)
    BY <1>1, <1>3, <2>1, <2>2 DEF OneAtATime, Apart
  <2>3. CASE \E scope \in SUBSET Sources : Contests(w, scope) /\ Scope(w)' \subseteq scope
    BY <1>3, <2>1, <2>3 DEF Contests
  <2>4. QED
    BY <2>2, <2>3, ScopeStep
<1>4. ASSUME NEW s \in Sources, s \notin contested', NEW u \in Writers, NEW v \in Writers,
             s \in Scope(u)', s \in Scope(v)'
      PROVE  u = v
  <2>1. CASE u = w \/ v = w
    BY <1>3, <1>4, <2>1
  <2>2. CASE u # w /\ v # w
    BY <1>1, <1>2, <1>4, <2>2 DEF OneAtATime, Apart
  <2>3. QED
    BY <2>1, <2>2
<1>5. QED
  BY <1>4 DEF OneAtATime, Apart

\* Of a source that is not in its scope a writer remembers nothing.
LEMMA NotInScope ==
    ASSUME WellFormed, NEW w \in Writers, NEW s \in Sources, s \notin Scope(w)
    PROVE  s \notin todo[w] /\ src[w] # s /\ fetched[w][s] = None /\ made[w][s] = None
  BY DEF Scope, WellFormed

-----------------------------------------------------------------------------
(* What a writer's own step does to a source *)

\* What the run takes for indexed is, and what it skipped stays indexed.
LEMMA HashesStep ==
    ASSUME WellFormed, NewestIsARow, RunInOrder, NEW w \in Writers, Acts(w),
           NEW s \in Sources, HashesHold(w, s)
    PROVE  HashesHold(w, s)'
<1> USE DEF WellFormed, TypeOK, registry, stores, task, hand, results, history
<1> USE DEF RunInOrder, HashesHold, Skipped, Of, PrintOf
<1> USE DEF PC, RunPC, EndPC, PurgePC, Deleting, Writing
<1>1. CASE \E scope \in SUBSET Sources, f \in BOOLEAN : Begin(w, scope, f)
  BY <1>1 DEF Begin, Nothing
<1>2. CASE \E q \in Sources : NextSource(w, q)
  BY <1>2 DEF NextSource
<1>3. CASE \E i \in Ids : Process(w, i)
  BY <1>3 DEF Process
<1>4. CASE Skip(w)
  <2>1. src[w] \in Sources /\ src[w] \notin todo[w]
    BY <1>4 DEF Skip
  <2>2. /\ UNCHANGED <<rows, newest, todo, hashes, made>> /\ pc'[w] = "next"
        /\ fetched' = [fetched EXCEPT ![w][src[w]] = content[src[w]]]
    BY <1>4 DEF Skip
  <2>3. CASE s = src[w]
    <3>1. newest[s] = content[s] /\ content[s] # None /\ fetched'[w][s] = content[s]
      BY <1>4, <2>1, <2>2, <2>3 DEF Skip, Unchanged
    <3>2. \E r \in Of(rows, s) : r.print = content[s]
      BY <3>1 DEF NewestIsARow
    <3>3. QED
      BY <2>1, <2>2, <2>3, <3>1, <3>2
  <2>4. CASE s # src[w]
    BY <2>1, <2>2, <2>4
  <2>5. QED
    BY <2>3, <2>4
<1>5. CASE SourceFails(w) \/ Cancelled(w) \/ NoChunks(w) \/ Embed(w)
  BY <1>5 DEF SourceFails, Cancelled, NoChunks, Embed
<1>6. CASE SelectOld(w) \/ DeleteRowsFails(w)
  BY <1>6 DEF SelectOld, DeleteRowsFails, LetGo
<1>7. CASE DeleteRows(w)
  BY <1>7 DEF DeleteRows, WithoutRows
<1>8. CASE DeletePoints(w) \/ DeletePointsFails(w)
  BY <1>8 DEF DeletePoints, DeletePointsFails, LetGo
<1>9. CASE UpsertPoints(w) \/ \E done \in SUBSET Chunks(w) : UpsertPointsFails(w, done)
  BY <1>9 DEF UpsertPoints, UpsertPointsFails
<1>10. CASE UpsertRows(w)
  <2>1. todo'[w] = {} /\ pc'[w] = "returned" /\ rows' = Upsert(rows, Chunks(w))
    BY <1>10 DEF UpsertRows
  <2>2. Skipped(w)' = Skipped(w) /\ fetched' = fetched
    BY <1>10 DEF UpsertRows
  <2>3. ASSUME s \in Skipped(w)
        PROVE  Of(rows', s) = Of(rows, s)
    <3>1. made[w][s] = None
      BY <2>3
    <3> HIDE DEF Of
    <3>2. Of(rows', s) = Upsert(Of(rows, s), Of(Chunks(w), s))
      BY <2>1, UpsertOf
    <3>3. Of(Chunks(w), s) = {}
      BY <3>1, ChunksOf
    <3>4. Of(rows', s) = Upsert(Of(rows, s), {})
      BY <3>2, <3>3
    <3>5. QED
      BY <3>4, UpsertNothing
  <2>4. pc'[w] # "fetch" /\ s \notin todo'[w]
    BY <2>1
  <2>5. s \in Skipped(w) => \E r \in Of(rows, s) : r.print = fetched[w][s]
    BY DEF HashesHold
  <2>6. s \in Skipped(w)' => \E r \in Of(rows, s)' : r.print = fetched'[w][s]
    <3> HIDE DEF Of, Skipped
    <3>1. QED
      BY <2>2, <2>3, <2>5
  <2>7. QED
    BY <2>4, <2>6
<1>11. CASE UpsertRowsFails(w)
  BY <1>11 DEF UpsertRowsFails
<1>12. CASE \E q \in Sources : BeginPurge(w, q) \/ BeginPurgeFails(w, q)
  BY <1>12 DEF BeginPurge, BeginPurgeFails, Nothing
<1>13. CASE PurgeRows(w)
  BY <1>13 DEF PurgeRows, Nothing
<1>14. CASE PurgePoints(w) \/ PurgePointsFails(w)
  BY <1>14 DEF PurgePoints, PurgePointsFails
<1>15. CASE End(w) \/ PurgeRowsFails(w) \/ PurgeDrop(w) \/ Crash(w)
  BY <1>15 DEF End, PurgeRowsFails, PurgeDrop, Crash, Reset, Nothing
<1>16. QED
  BY <1>1, <1>2, <1>3, <1>4, <1>5, <1>6, <1>7, <1>8, <1>9, <1>10, <1>11, <1>12, <1>13, <1>14, <1>15
     DEF Acts, Ingest, Purge

\* A run that returns has indexed what it processed, and what it skipped was.
LEMMA ReturnedStep ==
    ASSUME WellFormed, NEW w \in Writers, Acts(w), NEW s \in Sources, HashesHold(w, s)
    PROVE  ReturnedIsIndexedOf(w, s)'
<1> USE DEF WellFormed, TypeOK, stores, results
<1>1. CASE NoChunks(w)
  <2>1. made[w][s] = None
    <3> SUFFICES ASSUME made[w][s] # None
                 PROVE  FALSE
      OBVIOUS
    <3> DEFINE c == [src |-> s, id |-> made[w][s], print |-> fetched[w][s]]
    <3>1. c \in Chunks(w)
      BY DEF Chunks
    <3>2. QED
      BY <1>1, <3>1 DEF NoChunks
  <2>2. rows' = rows /\ fetched' = fetched
    BY <1>1 DEF NoChunks
  <2>3. QED
    BY <2>1, <2>2 DEF HashesHold, Skipped, ReturnedIsIndexedOf
<1>2. CASE UpsertRows(w)
  <2>1. rows' = Upsert(rows, Chunks(w)) /\ fetched' = fetched
    BY <1>2 DEF UpsertRows
  <2>2. Of(rows', s) = Upsert(Of(rows, s), Of(Chunks(w), s))
    BY <2>1, UpsertOf
  <2>3. CASE made[w][s] # None
    <3> DEFINE c == [src |-> s, id |-> made[w][s], print |-> fetched[w][s]]
    <3>1. c \in Of(Chunks(w), s)
      BY <2>3, ChunksOf
    <3>2. c \in Of(rows', s) /\ c.print = fetched[w][s]
      BY <2>2, <3>1 DEF Upsert
    <3>3. QED
      BY <2>1, <3>2 DEF ReturnedIsIndexedOf
  <2>4. CASE made[w][s] = None /\ fetched[w][s] # None
    <3>1. Of(rows', s) = Of(rows, s)
      BY <2>2, <2>4, ChunksOf, UpsertNothing
    <3>2. QED
      BY <2>1, <2>4, <3>1 DEF HashesHold, Skipped, ReturnedIsIndexedOf
  <2>5. QED
    BY <2>1, <2>3, <2>4 DEF ReturnedIsIndexedOf
<1>3. CASE ~NoChunks(w) /\ ~UpsertRows(w)
  <2>1. CASE Ingest(w)
    BY <1>3, <2>1 DEF Ingest, Begin, NextSource, Process, Skip, SourceFails, Cancelled, SelectOld,
       DeleteRows, DeleteRowsFails, DeletePoints, DeletePointsFails, LetGo, Embed, UpsertPoints,
       UpsertPointsFails, UpsertRowsFails, End, ReturnedIsIndexedOf
  <2>2. CASE Purge(w) \/ Crash(w)
    BY <2>2 DEF Purge, BeginPurge, BeginPurgeFails, PurgeRows, PurgeRowsFails, PurgePoints, PurgePointsFails,
       PurgeDrop, Crash, ReturnedIsIndexedOf
  <2>3. QED
    BY <2>1, <2>2 DEF Acts
<1>4. QED
  BY <1>1, <1>2, <1>3

\* Rows are gone between the deletions, points are there between the upserts,
\* and what a run has processed has no old row left.
LEMMA HalfwayStep ==
    ASSUME WellFormed, RunInOrder, NEW w \in Writers, Acts(w), NEW s \in Sources, Halfway(w, s)
    PROVE  Halfway(w, s)'
<1>0. unsound \subseteq unsound'
  BY HistoryGrows
<1> USE <1>0 DEF WellFormed, TypeOK, registry, stores, task, hand, results
<1> USE DEF RunInOrder, Halfway, Of, PC, RunPC, EndPC, PurgePC, Deleting, Writing
<1>1. CASE \E scope \in SUBSET Sources, f \in BOOLEAN : Begin(w, scope, f)
  BY <1>1 DEF Begin, Nothing
<1>2. CASE \E q \in Sources : NextSource(w, q)
  BY <1>2 DEF NextSource
<1>3. CASE \E i \in Ids : Process(w, i)
  BY <1>3 DEF Process
<1>4. CASE Skip(w)
  BY <1>4 DEF Skip
<1>5. CASE SourceFails(w) \/ Cancelled(w) \/ NoChunks(w)
  BY <1>5 DEF SourceFails, Cancelled, NoChunks
<1>6. CASE Embed(w)
  BY <1>6 DEF Embed
<1>7. CASE SelectOld(w)
  BY <1>7 DEF SelectOld, LetGo
<1>8. CASE DeleteRowsFails(w)
  BY <1>8 DEF DeleteRowsFails, LetGo
<1>9. CASE DeleteRows(w)
  BY <1>9 DEF DeleteRows, WithoutRows
<1>10. CASE DeletePoints(w) \/ DeletePointsFails(w)
  BY <1>10 DEF DeletePoints, DeletePointsFails, LetGo
<1>11. CASE UpsertPoints(w)
  <2>1. points' = Upsert(points, Chunks(w))
    BY <1>11 DEF UpsertPoints
  <2>2. UNCHANGED <<rows, made, src>> /\ pc[w] = "upsert_points" /\ pc'[w] = "upsert_rows"
    BY <1>11 DEF UpsertPoints
  <2>3. made[w][s] # None => \E p \in Of(points', s) : p.id = made[w][s]
    <3> SUFFICES ASSUME made[w][s] # None
                 PROVE  \E p \in Of(points', s) : p.id = made[w][s]
      OBVIOUS
    <3> DEFINE c == [src |-> s, id |-> made[w][s], print |-> fetched[w][s]]
    <3>1. c \in Chunks(w)
      BY DEF Chunks
    <3>2. c \in points' /\ c.src = s /\ c.id = made[w][s]
      BY <2>1, <3>1 DEF Upsert
    <3>3. QED
      BY <3>2
  <2>4. QED
    BY <2>2, <2>3
<1>12. CASE UpsertRows(w) \/ UpsertRowsFails(w)
           \/ \E done \in SUBSET Chunks(w) : UpsertPointsFails(w, done)
  <2>1. pc'[w] \in {"returned", "raised"}
    BY <1>12 DEF UpsertRows, UpsertRowsFails, UpsertPointsFails
  <2>2. QED
    BY <2>1
<1>13. CASE \E q \in Sources : BeginPurge(w, q) \/ BeginPurgeFails(w, q)
  BY <1>13 DEF BeginPurge, BeginPurgeFails
<1>14. CASE PurgeRows(w)
  BY <1>14 DEF PurgeRows, WithoutRows
<1>15. CASE PurgePoints(w) \/ PurgePointsFails(w)
  BY <1>15 DEF PurgePoints, PurgePointsFails
<1>16. CASE End(w) \/ PurgeRowsFails(w) \/ PurgeDrop(w) \/ Crash(w)
  BY <1>16 DEF End, PurgeRowsFails, PurgeDrop, Crash
<1>17. QED
  BY <1>1, <1>2, <1>3, <1>4, <1>5, <1>6, <1>7, <1>8, <1>9, <1>10, <1>11, <1>12, <1>13, <1>14, <1>15, <1>16
     DEF Acts, Ingest, Purge

\* Points are deleted after the rows of the source, and written before them.
LEMMA RowsHavePointsStep ==
    ASSUME WellFormed, NEW w \in Writers, Acts(w), NEW s \in Sources,
           Halfway(w, s), RowsHavePointsOf(s)
    PROVE  RowsHavePointsOf(s)'
<1>1. CASE UNCHANGED <<rows, newest>> /\ UNCHANGED points
  BY <1>1 DEF RowsHavePointsOf
<1>2. CASE DeleteRows(w) \/ PurgeRows(w)
  BY <1>2 DEF DeleteRows, PurgeRows, WithoutRows, RowsHavePointsOf, Of
<1>3. CASE UpsertRows(w)
  <2>1. rows' = Upsert(rows, Chunks(w)) /\ points' = points /\ pc[w] = "upsert_rows"
    BY <1>3 DEF UpsertRows
  <2>2. Of(rows', s) = Upsert(Of(rows, s), Of(Chunks(w), s))
    BY <2>1, UpsertOf
  <2>3. Of(rows', s) \subseteq Of(rows, s) \cup Of(Chunks(w), s)
    BY <2>2 DEF Upsert
  <2>4. \A c \in Of(Chunks(w), s) : \E p \in Of(points, s) : p.id = c.id
    <3>1. CASE made[w][s] = None
      BY <3>1, ChunksOf
    <3>2. CASE made[w][s] # None
      <4>1. \A c \in Of(Chunks(w), s) : c.id = made[w][s]
        BY <3>2, ChunksOf
      <4>2. \E p \in Of(points, s) : p.id = made[w][s]
        BY <2>1, <3>2 DEF Halfway
      <4>3. QED
        BY <4>1, <4>2
    <3>3. QED
      BY <3>1, <3>2
  <2>5. QED
    BY <2>1, <2>3, <2>4 DEF RowsHavePointsOf
<1>4. CASE DeletePoints(w) \/ PurgePoints(w)
  <2>1. rows' = rows /\ points' = WithoutPoints(src[w], doomed[w])
    BY <1>4 DEF DeletePoints, PurgePoints
  <2>2. src[w] = s => Of(rows, s) = {}
    BY <1>4 DEF DeletePoints, PurgePoints, Halfway
  <2>3. src[w] # s => Of(points', s) = Of(points, s)
    BY <2>1 DEF WithoutPoints, Of
  <2>4. QED
    BY <2>1, <2>2, <2>3 DEF RowsHavePointsOf
<1>5. CASE UpsertPoints(w) \/ \E done \in SUBSET Chunks(w) : UpsertPointsFails(w, done)
  <2>1. rows' = rows
    BY <1>5 DEF UpsertPoints, UpsertPointsFails
  <2>2. PICK done : points' = Upsert(points, done)
    BY <1>5 DEF UpsertPoints, UpsertPointsFails
  <2>3. \A p \in Of(points, s) : \E q \in Of(points', s) : q.id = p.id
    BY <2>2 DEF Upsert, Of
  <2>4. QED
    BY <2>1, <2>3 DEF RowsHavePointsOf
<1>6. QED
  <2>1. DeleteRows(w) \/ PurgeRows(w) \/ UpsertRows(w) => UNCHANGED points
    BY DEF DeleteRows, PurgeRows, UpsertRows
  <2>2. QED
    BY <1>1, <1>2, <1>3, <1>4, <1>5, <2>1, RowsChange, PointsChange

\* New rows come only where the old ones are gone.
LEMMA OneVersionStep ==
    ASSUME WellFormed, NEW w \in Writers, Acts(w), NEW s \in Sources, Halfway(w, s), OneVersionOf(s)
    PROVE  OneVersionOf(s)'
<1>1. unsound \subseteq unsound'
  BY HistoryGrows
<1>2. CASE UNCHANGED <<rows, newest>>
  BY <1>1, <1>2 DEF OneVersionOf
<1>3. CASE DeleteRows(w) \/ PurgeRows(w)
  BY <1>1, <1>3 DEF DeleteRows, PurgeRows, WithoutRows, OneVersionOf, Of
<1>4. CASE UpsertRows(w)
  <2>1. Of(rows', s) = Upsert(Of(rows, s), Of(Chunks(w), s))
    BY <1>4, UpsertOf DEF UpsertRows
  <2>2. CASE made[w][s] = None
    <3>1. Of(rows', s) = Of(rows, s)
      BY <2>1, <2>2, ChunksOf, UpsertNothing
    <3>2. QED
      BY <1>1, <3>1 DEF OneVersionOf
  <2>3. CASE made[w][s] # None /\ s \notin unsound
    <3>1. Of(rows, s) = {}
      BY <1>4, <2>3 DEF UpsertRows, Halfway, RunPC, Writing
    <3>2. \A c, d \in Of(Chunks(w), s) : c = d
      BY <2>3, ChunksOf
    <3>3. Of(rows', s) \subseteq Of(Chunks(w), s)
      BY <2>1, <3>1 DEF Upsert
    <3>4. QED
      BY <3>2, <3>3 DEF OneVersionOf
  <2>4. QED
    BY <1>1, <2>2, <2>3 DEF OneVersionOf
<1>5. QED
  BY <1>2, <1>3, <1>4, RowsChange

\* Unless the step hits the source with a fault, its stores differ afterwards
\* by the writer's next step at most.
LEMMA AgreeStep ==
    ASSUME WellFormed, NEW w \in Writers, Acts(w), NEW s \in Sources, s \notin hurt',
           OneStep(w, s),
           s \in Scope(w) /\ Between(w, s) => Of(rows, s) = Of(points, s)
    PROVE  /\ OneStep(w, s)'
           /\ s \in Scope(w) /\ Between(w, s)' => Of(rows, s)' = Of(points, s)'
<1> DEFINE Conclusion == /\ OneStep(w, s)'
                         /\ s \in Scope(w) /\ Between(w, s)' => Of(rows, s)' = Of(points, s)'
<1> USE DEF WellFormed, TypeOK, registry, stores, task, hand, results, history
<1> USE DEF PC, RunPC, EndPC, PurgePC, Deleting, Writing
<1>0. src[w] \in Sources => src[w] \in Scope(w)
  BY DEF Scope
<1>1. ASSUME UNCHANGED <<rows, points>>, pc'[w] \notin {"rows", "purge_rows", "points", "purge_points", "upsert_rows"},
             s \in Scope(w) => Between(w, s)
      PROVE  Conclusion
  BY <1>1 DEF OneStep, MidDeletion, MidUpsert
<1>2. CASE \/ \E scope \in SUBSET Sources, f \in BOOLEAN : Begin(w, scope, f)
           \/ \E q \in Sources : NextSource(w, q)
           \/ \E i \in Ids : Process(w, i)
           \/ Skip(w) \/ SourceFails(w) \/ Cancelled(w) \/ NoChunks(w) \/ Embed(w) \/ End(w)
  <2>1. UNCHANGED <<rows, points>>
    BY <1>2 DEF Begin, NextSource, Process, Skip, SourceFails, Cancelled, NoChunks, Embed, End
  <2>2. pc[w] \notin {"rows", "purge_rows", "points", "purge_points", "upsert_rows"}
    BY <1>2 DEF Begin, NextSource, Process, Skip, SourceFails, Cancelled, NoChunks, Embed, End
  <2>3. pc'[w] \notin {"rows", "purge_rows", "points", "purge_points", "upsert_rows"}
    BY <1>2 DEF Begin, NextSource, Process, Skip, SourceFails, Cancelled, NoChunks, Embed, End
  <2>4. Between(w, s)
    BY <2>2 DEF Between, MidDeletion, MidUpsert
  <2>5. QED
    BY <1>1, <2>1, <2>3, <2>4
<1>3. CASE SelectOld(w)
  <2>1. UNCHANGED <<rows, points>> /\ pc[w] = "select" /\ pc'[w] \in {"next", "rows"}
    BY <1>3 DEF SelectOld, LetGo
  <2>2. pc'[w] = "rows" => src'[w] = src[w] /\ doomed'[w] = IdsOf(rows, src[w])
    BY <1>3 DEF SelectOld, LetGo
  <2>3. Between(w, s) /\ Between(w, s)'
    BY <2>1 DEF Between, MidDeletion, MidUpsert
  <2>4. IdsOf(rows, s)' = IdsOf(rows, s)
    BY <2>1 DEF IdsOf, Of
  <2>5. OneStep(w, s)'
    BY <2>1, <2>2, <2>3, <2>4 DEF OneStep, Between
  <2>6. QED
    BY <2>1, <2>3, <2>5
<1>4. CASE DeleteRows(w) \/ PurgeRows(w)
  <2>1. /\ rows' = WithoutRows(src[w]) /\ pc'[w] \in {"points", "purge_points"}
        /\ UNCHANGED <<points, src, doomed>> /\ pc[w] \in {"rows", "purge_rows"}
    BY <1>4 DEF DeleteRows, PurgeRows
  <2>2. Between(w, s)
    BY <2>1 DEF Between, MidDeletion, MidUpsert
  <2>3. CASE src[w] = s
    <3>1. Of(rows, s) = Of(points, s) /\ doomed[w] = IdsOf(rows, s)
      BY <1>0, <2>1, <2>2, <2>3 DEF OneStep
    <3>2. Of(rows', s) = {} /\ {p \in Of(points', s) : p.id \notin doomed'[w]} = {}
      BY <2>1, <2>3, <3>1 DEF WithoutRows, Of, IdsOf
    <3>3. OneStep(w, s)'
      BY <2>1, <3>2 DEF OneStep, MidDeletion, MidUpsert
    <3>4. ~Between(w, s)'
      BY <2>1, <2>3 DEF Between, MidDeletion
    <3>5. QED
      BY <3>3, <3>4
  <2>4. CASE src[w] # s
    <3>1. Of(rows', s) = Of(rows, s)
      BY <2>1, <2>4 DEF WithoutRows, Of
    <3>2. OneStep(w, s)'
      BY <2>1, <2>4 DEF OneStep, MidDeletion, MidUpsert
    <3>3. QED
      BY <2>1, <2>2, <3>1, <3>2
  <2>5. QED
    BY <2>3, <2>4
<1>5. CASE DeletePoints(w) \/ PurgePoints(w)
  <2>1. /\ points' = WithoutPoints(src[w], doomed[w]) /\ rows' = rows
        /\ pc'[w] \in {"next", "purge_drop"} /\ pc[w] \in {"points", "purge_points"}
    BY <1>5 DEF DeletePoints, PurgePoints, LetGo
  <2>2. OneStep(w, s)'
    BY <2>1 DEF OneStep, MidDeletion, MidUpsert
  <2>3. CASE src[w] = s
    <3>1. Of(rows, s) = {p \in Of(points, s) : p.id \notin doomed[w]}
      BY <2>1, <2>3 DEF OneStep, MidDeletion
    <3>2. Of(points', s) = {p \in Of(points, s) : p.id \notin doomed[w]}
      BY <2>1, <2>3 DEF WithoutPoints, Of
    <3>3. QED
      BY <2>1, <2>2, <3>1, <3>2
  <2>4. CASE src[w] # s
    <3>1. Of(points', s) = Of(points, s)
      BY <2>1, <2>4 DEF WithoutPoints, Of
    <3>2. Between(w, s)
      BY <2>1, <2>4 DEF Between, MidDeletion, MidUpsert
    <3>3. QED
      BY <2>1, <2>2, <3>1, <3>2
  <2>5. QED
    BY <2>3, <2>4
<1>6. CASE UpsertPoints(w)
  <2>1. /\ points' = Upsert(points, Chunks(w)) /\ pc[w] = "upsert_points" /\ pc'[w] = "upsert_rows"
        /\ UNCHANGED <<rows, src, doomed, fetched, made>>
    BY <1>6 DEF UpsertPoints
  <2>2. Between(w, s)
    BY <2>1 DEF Between, MidDeletion, MidUpsert
  <2>3. Of(points', s) = Upsert(Of(points, s), Of(Chunks(w), s))
    BY <2>1, UpsertOf
  <2>4. Of(Chunks(w), s)' = Of(Chunks(w), s)
    BY <2>1 DEF Chunks, Of
  <2>5. CASE made[w][s] # None
    <3>1. s \in Scope(w)
      BY <2>5 DEF Scope
    <3>2. Of(points', s) = Upsert(Of(rows', s), Of(Chunks(w), s)')
      BY <2>1, <2>2, <2>3, <2>4, <3>1
    <3>3. OneStep(w, s)'
      BY <2>1, <3>2 DEF OneStep, MidDeletion, MidUpsert
    <3>4. ~Between(w, s)'
      BY <2>1, <2>5 DEF Between, MidUpsert
    <3>5. QED
      BY <3>3, <3>4
  <2>6. CASE made[w][s] = None
    <3>1. Of(points', s) = Of(points, s)
      BY <2>3, <2>6, ChunksOf, UpsertNothing
    <3>2. OneStep(w, s)'
      BY <2>1, <2>6 DEF OneStep, MidDeletion, MidUpsert
    <3>3. QED
      BY <2>1, <2>2, <3>1, <3>2
  <2>7. QED
    BY <2>5, <2>6
<1>7. CASE UpsertRows(w)
  <2>1. rows' = Upsert(rows, Chunks(w)) /\ points' = points /\ pc[w] = "upsert_rows" /\ pc'[w] = "returned"
    BY <1>7 DEF UpsertRows
  <2>2. OneStep(w, s)'
    BY <2>1 DEF OneStep, MidDeletion, MidUpsert
  <2>3. Of(rows', s) = Upsert(Of(rows, s), Of(Chunks(w), s))
    BY <2>1, UpsertOf
  <2>4. CASE made[w][s] # None
    BY <2>1, <2>2, <2>3, <2>4 DEF OneStep, MidUpsert
  <2>5. CASE made[w][s] = None
    <3>1. Of(rows', s) = Of(rows, s)
      BY <2>3, <2>5, ChunksOf, UpsertNothing
    <3>2. Between(w, s)
      BY <2>1, <2>5 DEF Between, MidDeletion, MidUpsert
    <3>3. QED
      BY <2>1, <2>2, <3>1, <3>2
  <2>6. QED
    BY <2>4, <2>5
<1>8. CASE \E q \in Sources : BeginPurge(w, q)
  <2>1. PICK q \in Sources : BeginPurge(w, q)
    BY <1>8
  <2>2. /\ UNCHANGED <<rows, points>> /\ pc[w] = "idle" /\ pc'[w] \in {"purge_drop", "purge_rows"}
        /\ src'[w] = q /\ doomed'[w] = IdsOf(rows, q)
    BY <2>1 DEF BeginPurge
  <2>3. Between(w, s) /\ Between(w, s)'
    BY <2>2 DEF Between, MidDeletion, MidUpsert
  <2>4. IdsOf(rows, s)' = IdsOf(rows, s)
    BY <2>2 DEF IdsOf, Of
  <2>5. OneStep(w, s)'
    BY <2>2, <2>3, <2>4 DEF OneStep, Between
  <2>6. QED
    BY <2>2, <2>3, <2>5
<1>9. CASE PurgeDrop(w) \/ \E q \in Sources : BeginPurgeFails(w, q)
  <2>1. UNCHANGED <<rows, points>> /\ pc[w] \in {"idle", "purge_drop"} /\ pc'[w] \in {"idle", "purge_drop"}
    BY <1>9 DEF BeginPurgeFails, PurgeDrop
  <2>2. Between(w, s)
    BY <2>1 DEF Between, MidDeletion, MidUpsert
  <2>3. QED
    BY <1>1, <2>1, <2>2
<1>10. CASE \/ DeleteRowsFails(w) \/ DeletePointsFails(w) \/ PurgeRowsFails(w) \/ PurgePointsFails(w)
  <2>1. UNCHANGED <<rows, points>> /\ pc'[w] \in {"next", "idle", "purge_drop"} /\ src[w] \in hurt'
    BY <1>10 DEF DeleteRowsFails, DeletePointsFails, PurgeRowsFails, PurgePointsFails, LetGo, Fails
  <2>2. pc[w] # "upsert_rows" /\ src[w] # s
    BY <1>10, <2>1 DEF DeleteRowsFails, DeletePointsFails, PurgeRowsFails, PurgePointsFails
  <2>3. Between(w, s)
    BY <2>2 DEF Between, MidDeletion, MidUpsert
  <2>4. QED
    BY <1>1, <2>1, <2>3
<1>11. CASE UpsertRowsFails(w) \/ \E done \in SUBSET Chunks(w) : UpsertPointsFails(w, done)
  <2>1. /\ rows' = rows /\ pc[w] \in {"upsert_points", "upsert_rows"} /\ pc'[w] = "raised"
        /\ {c.src : c \in Chunks(w)} \subseteq hurt'
    BY <1>11 DEF UpsertRowsFails, UpsertPointsFails, Fails
  <2>2. made[w][s] = None
    <3> SUFFICES ASSUME made[w][s] # None
                 PROVE  s \in hurt'
      OBVIOUS
    <3> DEFINE c == [src |-> s, id |-> made[w][s], print |-> fetched[w][s]]
    <3>1. c \in Chunks(w) /\ c.src = s
      BY DEF Chunks
    <3>2. QED
      BY <2>1, <3>1
  <2>3. Of(points', s) = Of(points, s)
    <3>1. PICK done \in SUBSET Chunks(w) : points' = Upsert(points, done)
      <4>1. CASE UpsertRowsFails(w)
        BY <4>1, UpsertNothing DEF UpsertRowsFails
      <4>2. QED
        BY <1>11, <4>1 DEF UpsertPointsFails
    <3>2. Of(Chunks(w), s) = {}
      BY <2>2, ChunksOf
    <3>3. Of(done, s) = {}
      BY <3>2 DEF Of
    <3>4. Of(points', s) = Upsert(Of(points, s), Of(done, s))
      BY <3>1, UpsertOf
    <3>5. QED
      BY <3>3, <3>4, UpsertNothing
  <2>4. Between(w, s)
    BY <2>1, <2>2 DEF Between, MidDeletion, MidUpsert
  <2>5. OneStep(w, s)'
    BY <2>1 DEF OneStep, MidDeletion, MidUpsert
  <2>6. QED
    BY <2>1, <2>3, <2>4, <2>5
<1>12. CASE Crash(w)
  <2>1. UNCHANGED <<rows, points>> /\ pc'[w] = "idle" /\ Scope(w) \subseteq hurt'
    BY <1>12 DEF Crash, Fails
  <2>2. QED
    BY <1>1, <2>1
<1>13. QED
  BY <1>2, <1>3, <1>4, <1>5, <1>6, <1>7, <1>8, <1>9, <1>10, <1>11, <1>12 DEF Acts, Ingest, Purge

-----------------------------------------------------------------------------
(* Any number of writers *)

\* A writer in whose scope the source is not stays as it was towards it.
LEMMA OtherWriter ==
    ASSUME Sound, NEW w \in Writers, Acts(w), NEW v \in Writers, v # w,
           NEW s \in Sources, s \notin contested
    PROVE  HashesHold(v, s)' /\ Halfway(v, s)' /\ ReturnedIsIndexedOf(v, s)'
<1>0. /\ WellFormed /\ OneAtATime /\ unsound \subseteq unsound'
      /\ HashesHold(v, s) /\ Halfway(v, s) /\ ReturnedIsIndexedOf(v, s)
  BY HistoryGrows DEF Sound, SoundOf, Apart
<1>1. /\ pc'[v] = pc[v] /\ todo'[v] = todo[v] /\ hashes'[v] = hashes[v] /\ src'[v] = src[v]
      /\ doomed'[v] = doomed[v] /\ fetched'[v] = fetched[v] /\ made'[v] = made[v]
  BY <1>0, OthersUntouched
<1>2. CASE s \notin Scope(w)
  <2>1. Of(rows, s)' = Of(rows, s) /\ newest'[s] = newest[s] /\ Of(points, s)' = Of(points, s)
    BY <1>0, <1>2, RowsElsewhere, PointsElsewhere
  <2>2. HashesHold(v, s)'
    BY <1>0, <1>1, <2>1 DEF HashesHold, Skipped
  <2>3. Halfway(v, s)'
    BY <1>0, <1>1, <2>1 DEF Halfway
  <2>4. ReturnedIsIndexedOf(v, s)'
    BY <1>0, <1>1, <2>1 DEF ReturnedIsIndexedOf
  <2>5. QED
    BY <2>2, <2>3, <2>4
<1>3. CASE s \in Scope(w)
  <2>1. s \notin Scope(v)
    BY <1>0, <1>3 DEF OneAtATime, Apart
  <2>2. s \notin todo'[v] /\ src'[v] # s /\ fetched'[v][s] = None /\ made'[v][s] = None
    BY <1>0, <1>1, <2>1, NotInScope
  <2>3. QED
    BY <2>2 DEF HashesHold, Skipped, Halfway, ReturnedIsIndexedOf
<1>4. QED
  BY <1>2, <1>3

\* So its stores stay as close as they were.
LEMMA AgreeForAll ==
    ASSUME Sound, NEW w \in Writers, Acts(w), NEW s \in Sources, s \notin contested
    PROVE  AgreeButForOneStep(s)'
<1> SUFFICES ASSUME s \notin hurt'
             PROVE  /\ \A v \in Writers : OneStep(v, s)'
                    /\ (\A v \in Writers : Between(v, s)') => Of(rows, s)' = Of(points, s)'
  BY DEF AgreeButForOneStep
<1>0. WellFormed /\ OneAtATime /\ s \notin hurt
  BY HistoryGrows DEF Sound
<1>1. /\ \A v \in Writers : OneStep(v, s)
      /\ (\A v \in Writers : Between(v, s)) => Of(rows, s) = Of(points, s)
  BY <1>0 DEF Sound, SoundOf, Apart, AgreeButForOneStep
<1>2. ASSUME NEW v \in Writers, s \notin Scope(v)
      PROVE  Between(v, s)
  BY <1>0, <1>2, NotInScope DEF Between, MidDeletion, MidUpsert
<1>3. s \in Scope(w) => \A v \in Writers : v # w => s \notin Scope(v)
  BY <1>0 DEF OneAtATime, Apart
<1>4. s \in Scope(w) /\ Between(w, s) => Of(rows, s) = Of(points, s)
  BY <1>1, <1>2, <1>3
<1>5. /\ OneStep(w, s)'
      /\ s \in Scope(w) /\ Between(w, s)' => Of(rows, s)' = Of(points, s)'
  BY <1>0, <1>1, <1>4, AgreeStep
<1>6. ASSUME NEW v \in Writers, v # w
      PROVE  OneStep(v, s)' /\ (Between(v, s)' => Between(v, s))
  <2>1. /\ pc'[v] = pc[v] /\ src'[v] = src[v] /\ doomed'[v] = doomed[v]
        /\ fetched'[v] = fetched[v] /\ made'[v] = made[v]
    BY <1>0, <1>6, OthersUntouched
  <2>2. Between(v, s)' => Between(v, s)
    BY <2>1 DEF Between, MidDeletion, MidUpsert
  <2>3. CASE s \notin Scope(w)
    <3>1. Of(rows, s)' = Of(rows, s) /\ Of(points, s)' = Of(points, s)
      BY <1>0, <2>3, RowsElsewhere, PointsElsewhere
    <3>2. IdsOf(rows, s)' = IdsOf(rows, s)
      BY <3>1 DEF IdsOf
    <3>3. Of(Chunks(v), s)' = Of(Chunks(v), s)
      BY <2>1 DEF Chunks, Of
    <3>4. OneStep(v, s)
      BY <1>1
    <3>5. QED
      BY <2>1, <2>2, <3>1, <3>2, <3>3, <3>4 DEF OneStep, MidDeletion, MidUpsert
  <2>4. CASE s \in Scope(w)
    <3>1. src'[v] # s /\ made'[v][s] = None
      BY <1>0, <1>3, <1>6, <2>1, <2>4, NotInScope
    <3>2. QED
      BY <2>2, <3>1 DEF OneStep, MidDeletion, MidUpsert
  <2>5. QED
    BY <2>3, <2>4
<1>7. ASSUME \A v \in Writers : Between(v, s)'
      PROVE  Of(rows, s)' = Of(points, s)'
  <2>1. CASE s \in Scope(w)
    BY <1>5, <1>7, <2>1
  <2>2. CASE s \notin Scope(w)
    <3>1. Of(rows, s)' = Of(rows, s) /\ Of(points, s)' = Of(points, s)
      BY <1>0, <2>2, RowsElsewhere, PointsElsewhere
    <3>2. \A v \in Writers : Between(v, s)
      BY <1>2, <1>6, <1>7, <2>2
    <3>3. QED
      BY <1>1, <3>1, <3>2
  <2>3. QED
    BY <2>1, <2>2
<1>8. QED
  BY <1>5, <1>6, <1>7

\* A source that is still not contested is as sound after the step.
LEMMA SoundOfStep ==
    ASSUME Sound, NEW w \in Writers, Acts(w), NEW s \in Apart'
    PROVE  SoundOf(s)'
<1>1. s \in Sources /\ s \notin contested
  BY HistoryGrows DEF Apart
<1>2. /\ WellFormed /\ NewestIsARow /\ RunInOrder
      /\ HashesHold(w, s) /\ Halfway(w, s) /\ RowsHavePointsOf(s) /\ OneVersionOf(s)
  BY <1>1 DEF Sound, SoundOf, Apart
<1>3. HashesHold(w, s)' /\ Halfway(w, s)' /\ ReturnedIsIndexedOf(w, s)'
  BY <1>1, <1>2, HashesStep, HalfwayStep, ReturnedStep
<1>4. \A v \in Writers : HashesHold(v, s)' /\ Halfway(v, s)' /\ ReturnedIsIndexedOf(v, s)'
  BY <1>1, <1>3, OtherWriter
<1>5. AgreeButForOneStep(s)'
  BY <1>1, AgreeForAll
<1>6. RowsHavePointsOf(s)' /\ OneVersionOf(s)'
  BY <1>1, <1>2, RowsHavePointsStep, OneVersionStep
<1>7. QED
  BY <1>4, <1>5, <1>6 DEF SoundOf

-----------------------------------------------------------------------------
(* The theorems *)

\* Empty stores and idle writers satisfy the whole strengthening.
LEMMA InitSound == Init => Sound
<1> SUFFICES ASSUME Init
             PROVE  Sound
  OBVIOUS
<1> USE DEF Init
<1>1. WellFormed
  BY InitType
<1>2. NewestIsARow
  BY DEF NewestIsARow, Of, Nothing
<1>3. RunInOrder
  BY DEF RunInOrder, Deleting, PurgePC, Writing, Nothing
<1>4. \A w \in Writers : Scope(w) = {}
  BY NoneAssumption DEF Scope, Nothing
<1>5. OneAtATime
  BY <1>4 DEF OneAtATime
<1>6. ASSUME NEW s \in Apart
      PROVE  SoundOf(s)
  <2>0. s \in Sources
    BY DEF Apart
  <2>1. ASSUME NEW w \in Writers
        PROVE  HashesHold(w, s) /\ Halfway(w, s) /\ ReturnedIsIndexedOf(w, s)
    BY <2>0 DEF HashesHold, Skipped, Halfway, ReturnedIsIndexedOf, Nothing, RunPC, Deleting, Writing
  <2>2. AgreeButForOneStep(s)
    BY DEF AgreeButForOneStep, OneStep, MidDeletion, MidUpsert, Of
  <2>3. RowsHavePointsOf(s) /\ OneVersionOf(s)
    BY DEF RowsHavePointsOf, OneVersionOf, Of
  <2>4. QED
    BY <2>1, <2>2, <2>3 DEF SoundOf
<1>7. QED
  BY <1>1, <1>2, <1>3, <1>5, <1>6 DEF Sound

\* What is outside the writers does not disturb them.
LEMMA OutsideSound ==
    ASSUME Sound, [Next]_vars, UNCHANGED <<stores, pc, task, hand, results, history>>
    PROVE  OneAtATime' /\ \A s \in Apart' : SoundOf(s)'
<1> USE DEF stores, task, hand, results, history
<1>1. \A w \in Writers : Scope(w)' = Scope(w) /\ Chunks(w)' = Chunks(w) /\ Skipped(w)' = Skipped(w)
  BY DEF Scope, Chunks, Skipped
<1>2. Apart' = Apart
  BY DEF Apart
<1>3. OneAtATime'
  BY <1>1, <1>2 DEF Sound, OneAtATime
<1>4. ASSUME NEW s \in Apart
      PROVE  SoundOf(s)'
  <2>1. SoundOf(s)
    BY DEF Sound
  <2>2. /\ Of(rows, s)' = Of(rows, s) /\ Of(points, s)' = Of(points, s)
        /\ IdsOf(rows, s)' = IdsOf(rows, s)
        /\ \A w \in Writers : Of(Chunks(w), s)' = Of(Chunks(w), s)
    BY <1>1 DEF Of, IdsOf
  <2>3. \A w \in Writers : HashesHold(w, s)' /\ Halfway(w, s)' /\ ReturnedIsIndexedOf(w, s)'
    BY <1>1, <2>1, <2>2 DEF SoundOf, HashesHold, Halfway, ReturnedIsIndexedOf
  <2>4. \A w \in Writers : /\ MidDeletion(w, s)' = MidDeletion(w, s)
                           /\ MidUpsert(w, s)' = MidUpsert(w, s)
                           /\ Between(w, s)' = Between(w, s)
    BY DEF MidDeletion, MidUpsert, Between
  <2>5. AgreeButForOneStep(s)'
    BY <2>1, <2>2, <2>4 DEF SoundOf, AgreeButForOneStep, OneStep
  <2>6. RowsHavePointsOf(s)' /\ OneVersionOf(s)'
    BY <2>1, <2>2 DEF SoundOf, RowsHavePointsOf, OneVersionOf
  <2>7. QED
    BY <2>3, <2>5, <2>6 DEF SoundOf
<1>5. QED
  BY <1>2, <1>3, <1>4

\* Whatever overlaps, fails, crashes or is cancelled, the strengthening holds.
THEOREM SoundAlways == Spec => []Sound
<1>1. Sound /\ [Next]_vars => Sound'
  <2> SUFFICES ASSUME Sound, [Next]_vars
               PROVE  Sound'
    OBVIOUS
  <2>1. WellFormed' /\ NewestIsARow' /\ RunInOrder'
    BY NextType, NewestStep, RunInOrderStep DEF Sound
  <2>2. CASE UNCHANGED <<stores, pc, task, hand, results, history>>
    BY <2>1, <2>2, OutsideSound DEF Sound
  <2>3. ASSUME NEW w \in Writers, Acts(w)
        PROVE  Sound'
    <3>1. OneAtATime'
      BY <2>3, OneAtATimeStep DEF Sound
    <3>2. \A s \in Apart' : SoundOf(s)'
      BY <2>3, SoundOfStep
    <3>3. QED
      BY <2>1, <3>1, <3>2 DEF Sound
  <2>4. QED
    BY <2>2, <2>3, OutsideSteps
<1>2. QED
  BY <1>1, InitSound, PTL DEF Spec

\* No row of a source that writers have not shared is without its point.
THEOREM RowsAlwaysHavePoints == Spec => []RowsHavePoints
<1>1. Sound => RowsHavePoints
  BY DEF Sound, SoundOf, RowsHavePoints
<1>2. QED
  BY <1>1, SoundAlways, PTL

\* A run that returns has each source it went through, and that no other
\* writer dealt with meanwhile or before, indexed as it fetched it.
THEOREM ReturnedAlwaysIndexed == Spec => []ReturnedIsIndexed
<1>1. Sound => ReturnedIsIndexed
  BY DEF Sound, SoundOf, ReturnedIsIndexed
<1>2. QED
  BY <1>1, SoundAlways, PTL

\* Old and new content of a source that writers have not shared never meet
\* unless a deletion of its rows failed.
THEOREM AlwaysOneVersion == Spec => []OneVersion
<1>1. Sound => OneVersion
  BY DEF Sound, SoundOf, OneVersion
<1>2. QED
  BY <1>1, SoundAlways, PTL

\* The two stores hold the same chunks of a source that no fault has hit, that
\* writers have not shared and that nobody deals with.
THEOREM StoresAlwaysAgree == Spec => []StoresAgree
<1>1. Sound => StoresAgree
  <2> SUFFICES ASSUME Sound, NEW s \in Apart \ hurt, \A w \in Writers : s \notin Scope(w)
               PROVE  Of(rows, s) = Of(points, s)
    BY DEF StoresAgree
  <2>1. WellFormed /\ s \in Sources /\ AgreeButForOneStep(s)
    BY DEF Sound, SoundOf, Apart
  <2>2. \A w \in Writers : Between(w, s)
    BY <2>1, NotInScope DEF Between, MidDeletion, MidUpsert
  <2>3. QED
    BY <2>1, <2>2 DEF AgreeButForOneStep
<1>2. QED
  BY <1>1, SoundAlways, PTL

=============================================================================
