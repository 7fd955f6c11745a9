----------------------------- MODULE GraphIndex -----------------------------
(***************************************************************************)
(* The lexical file of one corpus with the graph beside its rows, and the  *)
(* vector points of the same chunks: what parsing makes of a document      *)
(* (ingestion_worker/worker/parsers.py, normalize.py), and what a run or a *)
(* purge deletes and writes (indexers.py).                                 *)
(*                                                                         *)
(* A document is one source.  A run deletes what is stored of each source  *)
(* it processes, one transaction each, and writes all new chunks at the    *)
(* end, the points first.  Which sources a run takes, and everything about *)
(* fingerprints, is the subject of IndexStores.                            *)
(***************************************************************************)
EXTENDS Integers, Sequences, FiniteSets

CONSTANTS
    Docs,      \* documents
    Versions,  \* what a document can be: its blocks and how they are packed into chunks
    None,      \* no section, no node, no alias, no run
    Mixed,     \* parts of several versions
    MaxRuns    \* bound: runs and purges begun

\* A block has its section id, the aliases of the section and the references in
\* its text; a pack is the first and the last block of one chunk, and a long
\* block is split into several packs of itself.
ASSUME VersionsAssumption ==
    \A v \in Versions :
        /\ v.packs \in Seq((1 .. Len(v.blocks)) \X (1 .. Len(v.blocks))) \ {<<>>}
        /\ \A k \in DOMAIN v.packs : v.packs[k][1] <= v.packs[k][2]

\* The documents of a corpus are those its sources have at one time.
ASSUME DocsAssumption == IsFiniteSet(Docs)

Sections == {None} \cup UNION {{v.blocks[i].section : i \in 1 .. Len(v.blocks)} : v \in Versions}

ASSUME NoneAssumption ==
    /\ None \notin Docs \X Sections
    /\ {None, Mixed} \cap Versions = {}
    /\ None # Mixed

VARIABLES
    chunks,   \* the table chunks (and chunks_fts, written beside it)
    nodes,    \* canonical_nodes
    aliases,  \* node_aliases: <<node, alias>>
    links,    \* chunk_node_links
    edges,    \* node_edges
    points,   \* the payloads of the Qdrant points
    opened,   \* which of the file and the collection exist
    run,      \* the run: the versions it writes and the documents still to delete
    runs,     \* runs and purges begun
    indexed,  \* the version the tables hold of a document; Mixed after a failed deletion
    dropped   \* aliases whose node was deleted since the document was written

tables == <<chunks, nodes, aliases, links, edges>>

ghosts == <<indexed, dropped>>

indexVars == <<tables, points, opened, run, runs, ghosts>>

---------------------------------------------------------------------------
(* What parsing and packing make of a document                              *)

DocumentNode(d) == <<d, None>>

PrimaryNode(d, block) == <<d, block.section>>

Edge(src, type, dst, alias) == [src |-> src, type |-> type, dst |-> dst, alias |-> alias]

\* _annotate_graph_metadata: the edges that come with the i-th block.
EdgesOf(d, v, i) ==
    LET doc == DocumentNode(d)
        primary == PrimaryNode(d, v.blocks[i])
        prev == IF i = 1 THEN primary ELSE PrimaryNode(d, v.blocks[i - 1])
    IN  (IF primary = doc THEN {}
         ELSE {Edge(primary, "part_of", doc, None), Edge(doc, "has_section", primary, None)})
        \cup (IF prev = primary THEN {}
              ELSE {Edge(prev, "next", primary, None), Edge(primary, "prev", prev, None)})
        \cup {Edge(primary, "refers_to", None, a) : a \in v.blocks[i].refs}

\* The id of a chunk is a hash of its document, section, place and text.
ChunkOf(d, v, k) == [id |-> <<d, v.blocks[v.packs[k][1]].section, k, v.text>>, doc |-> d, type |-> v.type]

\* A chunk carries the graph metadata of its first block.
First(v, k) == v.packs[k][1]

Packs(v) == DOMAIN v.packs

ChunksOf(d, v) == {ChunkOf(d, v, k) : k \in Packs(v)}

NodesOf(d, v) == {DocumentNode(d)} \cup {PrimaryNode(d, v.blocks[First(v, k)]) : k \in Packs(v)}

AliasesOf(d, v) ==
    {<<DocumentNode(d), a>> : a \in v.aliases}
    \cup UNION {{<<PrimaryNode(d, v.blocks[First(v, k)]), a>> : a \in v.blocks[First(v, k)].aliases} :
                k \in Packs(v)}

Link(chunk, node, role) == [chunk |-> chunk, node |-> node, role |-> role]

LinksOf(d, v) ==
    UNION {LET primary == PrimaryNode(d, v.blocks[First(v, k)])
               id == ChunkOf(d, v, k).id
           IN  {Link(id, primary, "primary")}
               \cup (IF primary = DocumentNode(d) THEN {} ELSE {Link(id, DocumentNode(d), "document")}) :
           k \in Packs(v)}

StoredEdges(d, v) == UNION {EdgesOf(d, v, First(v, k)) : k \in Packs(v)}

---------------------------------------------------------------------------
(* delete_corpus_document                                                   *)

IdsOf(d) == {c.id : c \in {x \in chunks : x.doc = d}}

Candidates(d) == {l.node : l \in {x \in links : x.chunk \in IdsOf(d)}} \cup {n \in nodes : n[1] = d}

Active(d) == {l.node : l \in {x \in links : x.chunk \notin IdsOf(d)}}

Stale(d) == Candidates(d) \ Active(d)

StaleAliases(d) == {x[2] : x \in {y \in aliases : y[1] \in Stale(d)}}

\* Mutant: references to the aliases of a deleted node stay.
CutKeepsReferences(es, ns, as) == {e \in es : e.src \notin ns /\ e.dst \notin ns}

\* Edges go with either of their nodes; a reference goes when the alias it
\* names was one of a stale node, whichever document it is in.
Cut(es, ns, as) == {e \in es : e.src \notin ns /\ e.dst \notin ns /\ e.alias \notin as}

\* Mutant: the links of the deleted chunks are forgotten.
DeleteRowsForgetsLinks(d) ==
    /\ chunks' = {c \in chunks : c.doc # d}
    /\ nodes' = nodes \ Stale(d)
    /\ aliases' = {x \in aliases : x[1] \notin Stale(d)}
    /\ edges' = Cut(edges, Stale(d), StaleAliases(d))
    /\ indexed' = [indexed EXCEPT ![d] = None]
    /\ dropped' = [e \in Docs |-> dropped[e] \cup StaleAliases(d)]
    /\ UNCHANGED links

DeleteRows(d) ==
    /\ chunks' = {c \in chunks : c.doc # d}
    /\ links' = {l \in links : l.chunk \notin IdsOf(d)}
    /\ nodes' = nodes \ Stale(d)
    /\ aliases' = {x \in aliases : x[1] \notin Stale(d)}
    /\ edges' = Cut(edges, Stale(d), StaleAliases(d))
    /\ indexed' = [indexed EXCEPT ![d] = None]
    /\ dropped' = [e \in Docs |-> dropped[e] \cup StaleAliases(d)]

\* The points of the deleted rows go after the commit; a failure is swallowed.
DeletePoints(d) == points' \in {points, {p \in points : p.id \notin IdsOf(d)}}

---------------------------------------------------------------------------
(* upsert_qdrant, upsert_lexical and _upsert_graph_material                 *)

Over(todo, Of(_, _)) == UNION {Of(d, todo[d]) : d \in DOMAIN todo}

WritePoints(todo) ==
    LET new == Over(todo, ChunksOf)
    IN  points' = {p \in points : p.id \notin {c.id : c \in new}} \cup new

\* All chunks of the run in one transaction: what their ids and nodes had before
\* goes first.
WriteRows(todo) ==
    LET new == Over(todo, ChunksOf)
        ids == {c.id : c \in new}
        ns == Over(todo, NodesOf)
    IN  /\ chunks' = {c \in chunks : c.id \notin ids} \cup new
        /\ links' = {l \in links : l.chunk \notin ids} \cup Over(todo, LinksOf)
        /\ nodes' = nodes \cup ns
        /\ aliases' = {x \in aliases : x[1] \notin ns} \cup Over(todo, AliasesOf)
        /\ edges' = Cut(edges, ns, {}) \cup Over(todo, StoredEdges)
        /\ indexed' = [d \in Docs |->
              IF d \notin DOMAIN todo THEN indexed[d]
              ELSE IF indexed[d] = None THEN todo[d] ELSE Mixed]
        /\ dropped' = [d \in Docs |-> IF d \in DOMAIN todo THEN {} ELSE dropped[d]]

---------------------------------------------------------------------------
\* ensure_indexes creates the file before anything else.
BeginRun ==
    /\ run = None /\ runs < MaxRuns
    /\ \E ds \in SUBSET Docs \ {{}} : \E todo \in [ds -> Versions] :
          run' = [todo |-> todo, left |-> ds, vectors |-> FALSE]
    /\ runs' = runs + 1
    /\ opened' = opened \cup {"file"}
    /\ UNCHANGED <<tables, points, ghosts>>

\* A deletion that fails before its commit is logged, and the run goes on.
DeleteBefore ==
    /\ run # None
    /\ \E d \in run.left :
          /\ \/ DeleteRows(d) /\ DeletePoints(d)
             \/ UNCHANGED <<tables, points, ghosts>>
          /\ run' = [run EXCEPT !.left = @ \ {d}]
    /\ UNCHANGED <<opened, runs>>

Vectors ==
    /\ run # None /\ run.left = {} /\ ~run.vectors
    /\ WritePoints(run.todo)
    /\ opened' = opened \cup {"collection"}
    /\ run' = [run EXCEPT !.vectors = TRUE]
    /\ UNCHANGED <<tables, runs, ghosts>>

Rows ==
    /\ run # None /\ run.vectors
    /\ WriteRows(run.todo)
    /\ run' = None
    /\ UNCHANGED <<points, opened, runs>>

\* The embedding fails, a write fails, or the worker is killed.
RunFails ==
    /\ run # None
    /\ run' = None
    /\ UNCHANGED <<tables, points, opened, runs, ghosts>>

\* A purge while no run is at work (IndexStores has the overlap).
Purge ==
    /\ run = None /\ runs < MaxRuns /\ "file" \in opened
    /\ \E d \in Docs : DeleteRows(d) /\ DeletePoints(d)
    /\ runs' = runs + 1
    /\ UNCHANGED <<opened, run>>

IndexInit ==
    /\ chunks = {} /\ nodes = {} /\ aliases = {} /\ links = {} /\ edges = {}
    /\ points = {}
    /\ opened = {}
    /\ run = None
    /\ runs = 0
    /\ indexed = [d \in Docs |-> None]
    /\ dropped = [d \in Docs |-> {}]

IndexNext == BeginRun \/ DeleteBefore \/ Vectors \/ Rows \/ RunFails \/ Purge

IndexSpec == IndexInit /\ [][IndexNext]_indexVars

---------------------------------------------------------------------------
(* Properties                                                               *)

\* Whatever fails, the graph hangs together: a link joins a chunk and a node
\* that are there, an alias names a node that is there, and every edge keeps a
\* node of its own at one end at least.
HangsTogether ==
    /\ \A l \in links : l.node \in nodes /\ \E c \in chunks : c.id = l.chunk
    /\ \A x \in aliases : x[1] \in nodes
    /\ \A e \in edges : e.src \in nodes \/ e.dst \in nodes

\* A document whose last deletion went through has exactly the nodes and edges
\* its chunks brought, but for references to aliases whose node was deleted
\* since (the re-ingest of another document takes them and does not bring them
\* back).
OnlyReferencesLost ==
    \A d \in Docs : indexed[d] \in Versions =>
        /\ {n \in nodes : n[1] = d} = NodesOf(d, indexed[d])
        /\ {e \in edges : e.src[1] = d} =
              {e \in StoredEdges(d, indexed[d]) : e.alias \notin dropped[d]}

\* The documentation says that the nodes and the references discovered during
\* parsing are persisted: each section of an indexed document has its node, and
\* each reference in its text an edge.
GraphIsParsed ==
    \A d \in Docs : indexed[d] \in Versions =>
        \A i \in DOMAIN indexed[d].blocks :
            /\ PrimaryNode(d, indexed[d].blocks[i]) \in nodes
            /\ EdgesOf(d, indexed[d], i) \subseteq edges

=============================================================================
