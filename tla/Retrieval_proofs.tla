-------------------------- MODULE Retrieval_proofs --------------------------
(***************************************************************************)
(* Proofs about GraphIndex and Retrieval, for any documents, versions,      *)
(* requests, corpora, scores and bounds: the graph hangs together and loses *)
(* only references, the service leaves the indexes as the worker made them, *)
(* an answer passes its filters, whatever the worker writes between the     *)
(* searches, and a chunk that no search ranks lower has no lower score.     *)
(***************************************************************************)
EXTENDS Retrieval, FoldFacts, FiniteSetTheorems, SequenceTheorems, TLAPS

---------------------------------------------------------------------------
(* What a document brings                                                   *)

\* Every chunk that is packed has a block, its first.
LEMMA FirstIsBlock ==
    ASSUME NEW v \in Versions, NEW k \in Packs(v)
    PROVE  First(v, k) \in 1 .. Len(v.blocks)
  <1> DEFINE places == 1 .. Len(v.blocks)
  <1>1. v.packs \in Seq(places \X places)
    BY VersionsAssumption
  <1>2. v.packs[k] \in places \X places
    <2> HIDE DEF places
    <2> QED
      BY <1>1, ElementOfSeq DEF Packs
  <1> QED
    BY <1>2 DEF First

\* The nodes of a document are its own, and none is None.
LEMMA NodesAreOwn ==
    ASSUME NEW d \in Docs, NEW v \in Versions
    PROVE  /\ \A i \in 1 .. Len(v.blocks) : /\ PrimaryNode(d, v.blocks[i])[1] = d
                                            /\ PrimaryNode(d, v.blocks[i]) # None
           /\ DocumentNode(d)[1] = d /\ DocumentNode(d) # None
           /\ \A n \in NodesOf(d, v) : n[1] = d /\ n # None
  <1>1. \A i \in 1 .. Len(v.blocks) : v.blocks[i].section \in Sections
    BY DEF Sections
  <1>2. None \in Sections
    BY DEF Sections
  <1>3. \A s \in Sections : <<d, s>> # None /\ <<d, s>>[1] = d
    BY NoneAssumption
  <1>4. \A i \in 1 .. Len(v.blocks) : PrimaryNode(d, v.blocks[i])[1] = d /\ PrimaryNode(d, v.blocks[i]) # None
    BY <1>1, <1>3 DEF PrimaryNode
  <1>5. DocumentNode(d)[1] = d /\ DocumentNode(d) # None
    BY <1>2, <1>3 DEF DocumentNode
  <1>6. \A n \in NodesOf(d, v) : n[1] = d /\ n # None
    BY <1>4, <1>5, FirstIsBlock DEF NodesOf
  <1> QED
    BY <1>4, <1>5, <1>6

\* Chunks, links and aliases of a document are its own, and what they name is
\* among them.
LEMMA RowsAreOwn ==
    ASSUME NEW d \in Docs, NEW v \in Versions
    PROVE  /\ \A c \in ChunksOf(d, v) : c.id[1] = d /\ c.doc = d
           /\ \A l \in LinksOf(d, v) : /\ l.node \in NodesOf(d, v) /\ l.chunk[1] = d
                                       /\ \E c \in ChunksOf(d, v) : c.id = l.chunk
           /\ \A x \in AliasesOf(d, v) : x[1] \in NodesOf(d, v)
  <1>1. \A k \in Packs(v) : ChunkOf(d, v, k).id[1] = d /\ ChunkOf(d, v, k).doc = d
    BY DEF ChunkOf
  <1>2. \A c \in ChunksOf(d, v) : c.id[1] = d /\ c.doc = d
    BY <1>1 DEF ChunksOf
  <1>3. ASSUME NEW l \in LinksOf(d, v)
        PROVE  /\ l.node \in NodesOf(d, v) /\ l.chunk[1] = d
               /\ \E c \in ChunksOf(d, v) : c.id = l.chunk
    <2>1. PICK k \in Packs(v) : /\ l.chunk = ChunkOf(d, v, k).id
                                /\ l.node \in {PrimaryNode(d, v.blocks[First(v, k)]), DocumentNode(d)}
      BY DEF LinksOf, Link
    <2>2. l.node \in NodesOf(d, v)
      BY <2>1 DEF NodesOf
    <2>3. ChunkOf(d, v, k) \in ChunksOf(d, v)
      BY DEF ChunksOf
    <2> QED
      BY <1>1, <2>1, <2>2, <2>3
  <1>4. ASSUME NEW x \in AliasesOf(d, v)
        PROVE  x[1] \in NodesOf(d, v)
    <2>1. CASE x \in {<<DocumentNode(d), a>> : a \in v.aliases}
      BY <2>1 DEF NodesOf
    <2>2. CASE \E k \in Packs(v) : \E a \in v.blocks[First(v, k)].aliases :
                  x = <<PrimaryNode(d, v.blocks[First(v, k)]), a>>
      BY <2>2 DEF NodesOf
    <2> QED
      BY <2>1, <2>2 DEF AliasesOf
  <1> QED
    BY <1>2, <1>3, <1>4

\* An edge of a document starts at a node of its own and ends at one, or has
\* none; one of the two is a node it writes.
LEMMA EdgesAreOwn ==
    ASSUME NEW d \in Docs, NEW v \in Versions, NEW e \in StoredEdges(d, v)
    PROVE  /\ e.src[1] = d
           /\ e.dst = None \/ e.dst[1] = d
           /\ e.src \in NodesOf(d, v) \/ e.dst \in NodesOf(d, v)
  <1>1. PICK k \in Packs(v) : e \in EdgesOf(d, v, First(v, k))
    BY DEF StoredEdges
  <1> DEFINE i == First(v, k)
             primary == PrimaryNode(d, v.blocks[i])
             prev == IF i = 1 THEN primary ELSE PrimaryNode(d, v.blocks[i - 1])
  <1>2. i \in 1 .. Len(v.blocks)
    BY FirstIsBlock
  <1>3. primary[1] = d /\ prev[1] = d /\ DocumentNode(d)[1] = d
    <2>1. i # 1 => i - 1 \in 1 .. Len(v.blocks)
      <3>1. Len(v.blocks) \in Nat \/ i \in Int
        BY <1>2
      <3> QED
        BY <1>2
    <2> QED
      BY <1>2, <2>1, NodesAreOwn
  <1>4. primary \in NodesOf(d, v) /\ DocumentNode(d) \in NodesOf(d, v)
    BY DEF NodesOf
  <1>5. e \in (IF primary = DocumentNode(d) THEN {}
               ELSE {Edge(primary, "part_of", DocumentNode(d), None), Edge(DocumentNode(d), "has_section", primary, None)})
              \cup (IF prev = primary THEN {}
                    ELSE {Edge(prev, "next", primary, None), Edge(primary, "prev", prev, None)})
              \cup {Edge(primary, "refers_to", None, a) : a \in v.blocks[i].refs}
    BY <1>1 DEF EdgesOf
  <1>6. \/ e.src = primary /\ e.dst \in {DocumentNode(d), prev, None}
        \/ e.src \in {DocumentNode(d), prev} /\ e.dst = primary
    <2> HIDE DEF primary, prev, i
    <2> QED
      BY <1>5 DEF Edge
  <1> HIDE DEF primary, prev, i
  <1> QED
    BY <1>3, <1>4, <1>6

---------------------------------------------------------------------------
(* The inductive invariant                                                  *)

\* A chunk, a link and an edge stay within one document, and no node is None.
Own ==
    /\ \A c \in chunks : c.id[1] = c.doc
    /\ \A l \in links : l.node[1] = l.chunk[1]
    /\ \A n \in nodes : n # None
    /\ \A e \in edges : e.dst = None \/ e.dst[1] = e.src[1]

\* What is recorded of a document, and what a run is about.
Known ==
    /\ indexed \in [Docs -> Versions \cup {None, Mixed}]
    /\ dropped = [d \in Docs |-> dropped[d]]

Contents == UNION {[ds -> Versions] : ds \in SUBSET Docs}

RunKnown == run = None \/ run \in [todo : Contents, left : SUBSET Docs, vectors : BOOLEAN]

\* A document whose last deletion went through and that was not written since
\* has no node and no edge.
Clear ==
    \A d \in Docs : indexed[d] = None =>
        /\ \A n \in nodes : n[1] # d
        /\ \A e \in edges : e.src[1] # d

Sound == HangsTogether /\ Own /\ Known /\ RunKnown /\ Clear /\ OnlyReferencesLost

---------------------------------------------------------------------------
(* The deletion of a document                                               *)

\* The stale nodes are the nodes of the document.
LEMMA StaleIsOwn ==
    ASSUME HangsTogether, Own, NEW d \in Docs
    PROVE  /\ \A n \in Stale(d) : n[1] = d
           /\ \A n \in nodes : n[1] = d => n \in Stale(d)
           /\ \A l \in links : l.chunk \notin IdsOf(d) => l.node \notin Stale(d)
  <1>1. \A i \in IdsOf(d) : i[1] = d
    BY DEF IdsOf, Own
  <1>2. \A n \in Candidates(d) : n[1] = d
    BY <1>1 DEF Candidates, Own
  <1>3. ASSUME NEW l \in links, l.chunk \notin IdsOf(d)
        PROVE  l.node[1] # d
    <2>1. PICK c \in chunks : c.id = l.chunk
      BY DEF HangsTogether
    <2>2. c.doc # d
      BY <1>3, <2>1 DEF IdsOf
    <2> QED
      BY <2>1, <2>2 DEF Own
  <1>4. \A n \in Active(d) : n[1] # d
    BY <1>3 DEF Active
  <1>5. \A n \in nodes : n[1] = d => n \in Candidates(d)
    BY DEF Candidates
  <1> QED
    BY <1>2, <1>3, <1>4, <1>5 DEF Stale

\* A deletion leaves a graph that hangs together and stays within documents.
LEMMA DeleteKeepsGraph ==
    ASSUME HangsTogether, Own, NEW d \in Docs, DeleteRows(d)
    PROVE  HangsTogether' /\ Own'
  <1>1. /\ chunks' = {c \in chunks : c.doc # d}
        /\ links' = {l \in links : l.chunk \notin IdsOf(d)}
        /\ nodes' = nodes \ Stale(d)
        /\ aliases' = {x \in aliases : x[1] \notin Stale(d)}
        /\ edges' \subseteq {e \in edges : e.src \notin Stale(d) /\ e.dst \notin Stale(d)}
    BY DEF DeleteRows, Cut
  <1>2. Own'
    BY <1>1 DEF Own
  <1>3. \A l \in links' : l.node \in nodes' /\ \E c \in chunks' : c.id = l.chunk
    <2> TAKE l \in links'
    <2>1. l \in links /\ l.chunk \notin IdsOf(d)
      BY <1>1
    <2>2. PICK c \in chunks : c.id = l.chunk
      BY <2>1 DEF HangsTogether
    <2>3. c \in chunks'
      BY <1>1, <2>1, <2>2 DEF IdsOf
    <2>4. l.node \in nodes'
      BY <1>1, <2>1, StaleIsOwn DEF HangsTogether
    <2> QED
      BY <2>2, <2>3, <2>4
  <1>4. \A x \in aliases' : x[1] \in nodes'
    BY <1>1 DEF HangsTogether
  <1>5. \A e \in edges' : e.src \in nodes' \/ e.dst \in nodes'
    BY <1>1 DEF HangsTogether
  <1> QED
    BY <1>2, <1>3, <1>4, <1>5 DEF HangsTogether

\* It leaves nothing of the document, and of the others all but the references
\* to its aliases.
LEMMA DeleteKeepsIndex ==
    ASSUME Sound, NEW d \in Docs, DeleteRows(d)
    PROVE  Known' /\ Clear' /\ OnlyReferencesLost'
  <1> USE DEF Sound
  <1>1. /\ nodes' = nodes \ Stale(d)
        /\ edges' = {e \in edges : e.src \notin Stale(d) /\ e.dst \notin Stale(d) /\ e.alias \notin StaleAliases(d)}
        /\ indexed' = [indexed EXCEPT ![d] = None]
        /\ dropped' = [e \in Docs |-> dropped[e] \cup StaleAliases(d)]
    BY DEF DeleteRows, Cut
  <1>2. Known'
    BY <1>1 DEF Known
  <1>3. \A n \in nodes' : n[1] # d
    BY <1>1, StaleIsOwn
  <1>4. \A e \in edges' : e.src[1] # d
    <2> SUFFICES ASSUME NEW e \in edges, e.src[1] = d
                 PROVE  e.src \in Stale(d) \/ e.dst \in Stale(d)
      BY <1>1
    <2>1. e.src \in nodes \/ e.dst \in nodes
      BY DEF HangsTogether
    <2>2. e.dst \in nodes => e.dst[1] = d
      BY DEF Own
    <2> QED
      BY <2>1, <2>2, StaleIsOwn
  <1>5. \A f \in Docs \ {d} : indexed'[f] = indexed[f] /\ dropped'[f] = dropped[f] \cup StaleAliases(d)
    BY <1>1 DEF Known
  <1>6. indexed'[d] = None
    BY <1>1 DEF Known
  <1>7. Clear'
    BY <1>1, <1>3, <1>4, <1>5 DEF Clear
  <1>8. ASSUME NEW f \in Docs, indexed'[f] \in Versions
        PROVE  /\ {n \in nodes' : n[1] = f} = NodesOf(f, indexed'[f])
               /\ {e \in edges' : e.src[1] = f} = {e \in StoredEdges(f, indexed'[f]) : e.alias \notin dropped'[f]}
    <2>1. f # d
      BY <1>6, <1>8, NoneAssumption
    <2>2. indexed[f] \in Versions /\ indexed'[f] = indexed[f] /\ dropped'[f] = dropped[f] \cup StaleAliases(d)
      BY <1>5, <1>8, <2>1
    <2>3. /\ {n \in nodes : n[1] = f} = NodesOf(f, indexed[f])
          /\ {e \in edges : e.src[1] = f} = {e \in StoredEdges(f, indexed[f]) : e.alias \notin dropped[f]}
      BY <2>2 DEF OnlyReferencesLost
    <2>4. {n \in nodes' : n[1] = f} = {n \in nodes : n[1] = f}
      BY <1>1, <2>1, StaleIsOwn
    <2>5. \A e \in edges : e.src[1] = f => e.src \notin Stale(d) /\ e.dst \notin Stale(d)
      <3> TAKE e \in edges
      <3> HAVE e.src[1] = f
      <3>1. e.src \notin Stale(d)
        BY <2>1, StaleIsOwn
      <3>2. e.dst[1] = f => e.dst \notin Stale(d)
        BY <2>1, StaleIsOwn
      <3>3. None \notin Stale(d)
        BY DEF Stale, Candidates, HangsTogether, Own
      <3> QED
        BY <3>1, <3>2, <3>3 DEF Own
    <2>6. {e \in edges' : e.src[1] = f} = {e \in {x \in edges : x.src[1] = f} : e.alias \notin StaleAliases(d)}
      BY <1>1, <2>5
    <2> QED
      BY <2>2, <2>3, <2>4, <2>6
  <1> QED
    BY <1>2, <1>7, <1>8 DEF OnlyReferencesLost

---------------------------------------------------------------------------
(* The write at the end of a run                                            *)

\* A write adds whole documents to the graph.
LEMMA WriteKeepsGraph ==
    ASSUME HangsTogether, Own, NEW todo \in Contents, WriteRows(todo)
    PROVE  HangsTogether' /\ Own'
  <1> DEFINE new == Over(todo, ChunksOf)
             ids == {c.id : c \in new}
             ns == Over(todo, NodesOf)
  <1>1. /\ chunks' = {c \in chunks : c.id \notin ids} \cup new
        /\ links' = {l \in links : l.chunk \notin ids} \cup Over(todo, LinksOf)
        /\ nodes' = nodes \cup ns
        /\ aliases' = {x \in aliases : x[1] \notin ns} \cup Over(todo, AliasesOf)
        /\ edges' \subseteq edges \cup Over(todo, StoredEdges)
    BY DEF WriteRows, Cut
  <1>2. \A d \in DOMAIN todo : d \in Docs /\ todo[d] \in Versions
    BY DEF Contents
  <1>3. ASSUME NEW l \in Over(todo, LinksOf)
        PROVE  l.node[1] = l.chunk[1] /\ l.node \in ns /\ \E c \in new : c.id = l.chunk
    <2>1. PICK d \in DOMAIN todo : l \in LinksOf(d, todo[d])
      BY DEF Over
    <2>2. /\ l.node \in NodesOf(d, todo[d]) /\ l.chunk[1] = d
          /\ \E c \in ChunksOf(d, todo[d]) : c.id = l.chunk
      BY <1>2, <2>1, RowsAreOwn
    <2>3. l.node[1] = d
      BY <1>2, <2>2, NodesAreOwn
    <2> QED
      BY <2>2, <2>3 DEF Over
  <1>4. \A n \in ns : n # None
    BY <1>2, NodesAreOwn DEF Over
  <1>5. \A c \in new : c.id[1] = c.doc
    BY <1>2, RowsAreOwn DEF Over
  <1>6. ASSUME NEW e \in Over(todo, StoredEdges)
        PROVE  (e.dst = None \/ e.dst[1] = e.src[1]) /\ (e.src \in ns \/ e.dst \in ns)
    <2>1. PICK d \in DOMAIN todo : e \in StoredEdges(d, todo[d])
      BY DEF Over
    <2>2. /\ e.src[1] = d
          /\ e.dst = None \/ e.dst[1] = d
          /\ e.src \in NodesOf(d, todo[d]) \/ e.dst \in NodesOf(d, todo[d])
      BY <1>2, <2>1, EdgesAreOwn
    <2> QED
      BY <2>2 DEF Over
  <1>7. \A x \in Over(todo, AliasesOf) : x[1] \in ns
    BY <1>2, RowsAreOwn DEF Over
  <1> HIDE DEF new, ns
  <1>8. Own'
    BY <1>1, <1>3, <1>4, <1>5, <1>6 DEF Own
  <1>9. ASSUME NEW l \in links'
        PROVE  l.node \in nodes' /\ \E c \in chunks' : c.id = l.chunk
    <2>1. CASE l \in Over(todo, LinksOf)
      BY <1>1, <1>3, <2>1
    <2>2. CASE l \in links /\ l.chunk \notin ids
      <3>1. l.node \in nodes /\ \E c \in chunks : c.id = l.chunk
        BY <2>2 DEF HangsTogether
      <3> QED
        BY <1>1, <2>2, <3>1
    <2> QED
      BY <1>1, <2>1, <2>2
  <1>10. \A x \in aliases' : x[1] \in nodes'
    BY <1>1, <1>7 DEF HangsTogether
  <1>11. \A e \in edges' : e.src \in nodes' \/ e.dst \in nodes'
    BY <1>1, <1>6 DEF HangsTogether
  <1> QED
    BY <1>8, <1>9, <1>10, <1>11 DEF HangsTogether

\* A document that had nothing has what was written of it; one that was not
\* written keeps what it had.
LEMMA WriteKeepsIndex ==
    ASSUME Sound, NEW todo \in Contents, WriteRows(todo)
    PROVE  Known' /\ Clear' /\ OnlyReferencesLost'
  <1> USE DEF Sound
  <1> DEFINE ns == Over(todo, NodesOf)
  <1>1. /\ nodes' = nodes \cup ns
        /\ edges' = {e \in edges : e.src \notin ns /\ e.dst \notin ns} \cup Over(todo, StoredEdges)
        /\ indexed' = [d \in Docs |->
              IF d \notin DOMAIN todo THEN indexed[d]
              ELSE IF indexed[d] = None THEN todo[d] ELSE Mixed]
        /\ dropped' = [d \in Docs |-> IF d \in DOMAIN todo THEN {} ELSE dropped[d]]
    BY DEF WriteRows, Cut
  <1>2. \A d \in DOMAIN todo : d \in Docs /\ todo[d] \in Versions
    BY DEF Contents
  <1>3. Known'
    BY <1>1, <1>2 DEF Known
  <1>4. \A n \in ns : n[1] \in DOMAIN todo /\ n # None
    BY <1>2, NodesAreOwn DEF Over
  <1>5. \A d \in DOMAIN todo : {n \in ns : n[1] = d} = NodesOf(d, todo[d])
    BY <1>2, NodesAreOwn DEF Over
  <1>6. \A e \in Over(todo, StoredEdges) : e.src[1] \in DOMAIN todo
    BY <1>2, EdgesAreOwn DEF Over
  <1>7. \A d \in DOMAIN todo : {e \in Over(todo, StoredEdges) : e.src[1] = d} = StoredEdges(d, todo[d])
    BY <1>2, EdgesAreOwn DEF Over
  <1> HIDE DEF ns
  <1>8. ASSUME NEW d \in Docs, d \notin DOMAIN todo
        PROVE  /\ {n \in nodes' : n[1] = d} = {n \in nodes : n[1] = d}
               /\ {e \in edges' : e.src[1] = d} = {e \in edges : e.src[1] = d}
               /\ indexed'[d] = indexed[d] /\ dropped'[d] = dropped[d]
    <2>1. {n \in nodes' : n[1] = d} = {n \in nodes : n[1] = d}
      BY <1>1, <1>4, <1>8
    <2>2. \A e \in edges : e.src[1] = d => e.src \notin ns /\ e.dst \notin ns
      BY <1>4, <1>8 DEF Own
    <2>3. {e \in edges' : e.src[1] = d} = {e \in edges : e.src[1] = d}
      BY <1>1, <1>6, <1>8, <2>2
    <2> QED
      BY <1>1, <1>8, <2>1, <2>3
  <1>9. ASSUME NEW d \in Docs, indexed'[d] = None
        PROVE  /\ \A n \in nodes' : n[1] # d
               /\ \A e \in edges' : e.src[1] # d
    <2>1. d \notin DOMAIN todo
      BY <1>1, <1>2, <1>9, NoneAssumption
    <2>2. indexed[d] = None
      BY <1>8, <1>9, <2>1
    <2> QED
      BY <1>8, <2>1, <2>2 DEF Clear
  <1>10. ASSUME NEW d \in Docs, indexed'[d] \in Versions
         PROVE  /\ {n \in nodes' : n[1] = d} = NodesOf(d, indexed'[d])
                /\ {e \in edges' : e.src[1] = d} = {e \in StoredEdges(d, indexed'[d]) : e.alias \notin dropped'[d]}
    <2>1. CASE d \notin DOMAIN todo
      BY <1>8, <1>10, <2>1 DEF OnlyReferencesLost
    <2>2. CASE d \in DOMAIN todo
      <3>1. indexed[d] = None /\ indexed'[d] = todo[d] /\ dropped'[d] = {}
        BY <1>1, <1>10, <2>2, NoneAssumption
      <3>2. {n \in nodes' : n[1] = d} = NodesOf(d, todo[d])
        BY <1>1, <1>5, <2>2, <3>1 DEF Clear
      <3>3. {e \in edges' : e.src[1] = d} = StoredEdges(d, todo[d])
        BY <1>1, <1>7, <2>2, <3>1 DEF Clear
      <3> QED
        BY <3>1, <3>2, <3>3
    <2> QED
      BY <2>1, <2>2
  <1> QED
    BY <1>3, <1>9, <1>10 DEF Clear, OnlyReferencesLost

---------------------------------------------------------------------------
(* The theorems about the graph                                             *)

LEMMA InitSound == IndexInit => Sound
  <1> SUFFICES ASSUME IndexInit PROVE Sound
    OBVIOUS
  <1>1. HangsTogether /\ Own /\ RunKnown
    BY DEF IndexInit, HangsTogether, Own, RunKnown
  <1>2. Known /\ Clear
    BY DEF IndexInit, Known, Clear
  <1>3. OnlyReferencesLost
    BY NoneAssumption DEF IndexInit, OnlyReferencesLost
  <1> QED
    BY <1>1, <1>2, <1>3 DEF Sound

\* What does not touch the tables and the history keeps the rest.
LEMMA TablesKept ==
    ASSUME Sound, UNCHANGED <<tables, ghosts>>, RunKnown'
    PROVE  Sound'
  BY DEF Sound, tables, ghosts, HangsTogether, Own, Known, Clear, OnlyReferencesLost

\* Every step keeps the invariant.
LEMMA NextSound == Sound /\ [IndexNext]_indexVars => Sound'
  <1> SUFFICES ASSUME Sound, [IndexNext]_indexVars PROVE Sound'
    OBVIOUS
  <1>1. CASE BeginRun
    <2>1. PICK ds \in SUBSET Docs \ {{}} : \E todo \in [ds -> Versions] :
             run' = [todo |-> todo, left |-> ds, vectors |-> FALSE]
      BY <1>1 DEF BeginRun
    <2>2. PICK todo \in [ds -> Versions] : run' = [todo |-> todo, left |-> ds, vectors |-> FALSE]
      BY <2>1
    <2>3. todo \in Contents
      BY DEF Contents
    <2>4. RunKnown'
      BY <2>2, <2>3 DEF RunKnown
    <2> QED
      BY <1>1, <2>4, TablesKept DEF BeginRun
  <1>2. CASE DeleteBefore
    <2>1. PICK d \in run.left :
             /\ \/ DeleteRows(d) /\ DeletePoints(d)
                \/ UNCHANGED <<tables, points, ghosts>>
             /\ run' = [run EXCEPT !.left = @ \ {d}]
      BY <1>2 DEF DeleteBefore
    <2>2. run \in [todo : Contents, left : SUBSET Docs, vectors : BOOLEAN]
      BY <1>2 DEF DeleteBefore, Sound, RunKnown
    <2>3. RunKnown' /\ d \in Docs
      BY <2>1, <2>2 DEF RunKnown
    <2>4. CASE DeleteRows(d)
      BY <2>3, <2>4, DeleteKeepsGraph, DeleteKeepsIndex DEF Sound
    <2>5. CASE UNCHANGED <<tables, points, ghosts>>
      BY <2>3, <2>5, TablesKept
    <2> QED
      BY <2>1, <2>4, <2>5
  <1>3. CASE Vectors
    <2>1. run \in [todo : Contents, left : SUBSET Docs, vectors : BOOLEAN]
      BY <1>3 DEF Vectors, Sound, RunKnown
    <2>2. RunKnown'
      BY <1>3, <2>1 DEF Vectors, RunKnown
    <2> QED
      BY <1>3, <2>2, TablesKept DEF Vectors
  <1>4. CASE Rows
    <2>1. run.todo \in Contents
      BY <1>4 DEF Rows, Sound, RunKnown
    <2>2. WriteRows(run.todo) /\ RunKnown'
      BY <1>4 DEF Rows, RunKnown
    <2> QED
      BY <2>1, <2>2, WriteKeepsGraph, WriteKeepsIndex DEF Sound
  <1>5. CASE RunFails
    BY <1>5, TablesKept DEF RunFails, RunKnown
  <1>6. CASE Purge
    <2>1. PICK d \in Docs : DeleteRows(d)
      BY <1>6 DEF Purge
    <2>2. RunKnown'
      BY <1>6 DEF Purge, Sound, RunKnown
    <2> QED
      BY <2>1, <2>2, DeleteKeepsGraph, DeleteKeepsIndex DEF Sound
  <1>7. CASE UNCHANGED indexVars
    BY <1>7, TablesKept DEF indexVars, Sound, RunKnown
  <1> QED
    BY <1>1, <1>2, <1>3, <1>4, <1>5, <1>6, <1>7 DEF IndexNext

LEMMA SoundAlways == IndexSpec => []Sound
  BY InitSound, NextSound, PTL DEF IndexSpec

\* However deletions and runs fail: links join what is there, aliases name what
\* is there, and every edge keeps a node.
THEOREM GraphAlwaysHangsTogether == IndexSpec => []HangsTogether
  <1>1. Sound => HangsTogether
    BY DEF Sound
  <1> QED
    BY <1>1, SoundAlways, PTL

\* A document that was deleted and written has the nodes and the edges of what
\* was written, but for the references that other documents' deletions took.
THEOREM OnlyReferencesEverLost == IndexSpec => []OnlyReferencesLost
  <1>1. Sound => OnlyReferencesLost
    BY DEF Sound
  <1> QED
    BY <1>1, SoundAlways, PTL

---------------------------------------------------------------------------
(* The searches                                                             *)

\* Every payload passes the filters of the store it is from.
Passes(payloads, filters) == \A id \in DOMAIN payloads : Accepted(payloads[id], filters)

\* Every hit has its payload.
Covered(hits, payloads) == DOMAIN hits \subseteq DOMAIN payloads

\* The searches hit what passes the filter of the store they search.
LEMMA TopWithin == ASSUME NEW hits, NEW limit PROVE DOMAIN Top(hits, limit) \subseteq DOMAIN hits
  BY DEF Top, RankedIds

LEMMA MatchingWithin == ASSUME NEW scores PROVE DOMAIN Matching(scores) \subseteq DOMAIN scores
  BY DEF Matching

LEMMA SearchesWithin ==
    ASSUME NEW q
    PROVE  /\ DOMAIN VectorHits(q) \subseteq Ids(PointsOf(q))
           /\ DOMAIN TextHits(q) \subseteq Ids(RowsOf(q))
           /\ DOMAIN FieldHits(q) \subseteq Ids(RowsOf(q))
           /\ \A limit : DOMAIN ExactHits(q, limit) \subseteq Ids(RowsOf(q))
           /\ DOMAIN GraphHits(q) \subseteq Ids(Neighbours(q))
  <1>1. DOMAIN VectorHits(q) \subseteq Ids(PointsOf(q))
    <2> DEFINE scores == [id \in Ids(PointsOf(q)) |-> VectorScore(q.term, id)]
    <2>1. DOMAIN scores = Ids(PointsOf(q)) /\ VectorHits(q) = Top(Matching(scores), q.pool)
      BY DEF VectorHits
    <2> QED
      BY <2>1, TopWithin, MatchingWithin
  <1>2. DOMAIN TextHits(q) \subseteq Ids(RowsOf(q))
    <2> DEFINE scores == [id \in Ids(RowsOf(q)) |-> TextScore(q.term, id)]
    <2>1. DOMAIN scores = Ids(RowsOf(q)) /\ TextHits(q) = Top(Matching(scores), q.pool)
      BY DEF TextHits
    <2> QED
      BY <2>1, TopWithin, MatchingWithin
  <1>3. DOMAIN FieldHits(q) \subseteq Ids(RowsOf(q))
    <2> DEFINE scores == [id \in Ids(RowsOf(q)) |-> FieldScore(q.term, id)]
    <2>1. DOMAIN scores = Ids(RowsOf(q)) /\ FieldHits(q) = Top(Matching(scores), q.pool)
      BY DEF FieldHits
    <2> QED
      BY <2>1, TopWithin, MatchingWithin
  <1>4. ASSUME NEW limit PROVE DOMAIN ExactHits(q, limit) \subseteq Ids(RowsOf(q))
    <2> DEFINE scores == [id \in Ids(RowsOf(q)) |-> ExactScore(q, id)]
    <2>1. DOMAIN scores = Ids(RowsOf(q)) /\ ExactHits(q, limit) = Top(Matching(scores), limit)
      BY DEF ExactHits
    <2> QED
      BY <2>1, TopWithin, MatchingWithin
  <1>5. DOMAIN GraphHits(q) \subseteq Ids(Neighbours(q))
    <2> DEFINE scores == [id \in Ids(Neighbours(q)) |-> GraphScore(q, id)]
    <2>1. DOMAIN scores = Ids(Neighbours(q)) /\ GraphHits(q) = Top(scores, GraphK)
      BY DEF GraphHits
    <2> QED
      BY <2>1, TopWithin
  <1> QED
    BY <1>1, <1>2, <1>3, <1>4, <1>5

\* The payloads of hits pass, one for each hit.
LEMMA PayloadsPass ==
    ASSUME NEW store, NEW cs, NEW hits, NEW filters, DOMAIN hits \subseteq Ids(cs),
           \A c \in cs : Accepted([store |-> store, chunk |-> c], filters)
    PROVE  /\ Passes(Payloads(store, cs, hits), filters)
           /\ DOMAIN Payloads(store, cs, hits) = DOMAIN hits
  <1>1. ASSUME NEW id \in DOMAIN hits
        PROVE  Accepted([store |-> store, chunk |-> CHOOSE c \in cs : c.id = id], filters)
    <2>1. \E c \in cs : c.id = id
      BY DEF Ids
    <2> QED
      BY <2>1
  <1> QED
    BY <1>1 DEF Passes, Payloads

LEMMA PointPayloads ==
    ASSUME NEW q, NEW hits, DOMAIN hits \subseteq Ids(PointsOf(q))
    PROVE  /\ Passes(Payloads("points", PointsOf(q), hits), q.filters)
           /\ DOMAIN Payloads("points", PointsOf(q), hits) = DOMAIN hits
  <1>1. \A c \in PointsOf(q) : Accepted([store |-> "points", chunk |-> c], q.filters)
    BY DEF PointsOf, Accepted
  <1> QED
    BY <1>1, PayloadsPass

LEMMA RowPayloads ==
    ASSUME NEW q, NEW hits
    PROVE  /\ DOMAIN hits \subseteq Ids(RowsOf(q)) =>
                 /\ Passes(Payloads("rows", RowsOf(q), hits), q.filters)
                 /\ DOMAIN Payloads("rows", RowsOf(q), hits) = DOMAIN hits
           /\ DOMAIN hits \subseteq Ids(Neighbours(q)) =>
                 /\ Passes(Payloads("rows", Neighbours(q), hits), q.filters)
                 /\ DOMAIN Payloads("rows", Neighbours(q), hits) = DOMAIN hits
  <1>1. \A c \in RowsOf(q) : Accepted([store |-> "rows", chunk |-> c], q.filters)
    BY DEF RowsOf, Accepted
  <1>2. \A c \in Neighbours(q) : Accepted([store |-> "rows", chunk |-> c], q.filters)
    BY <1>1 DEF Neighbours
  <1> QED
    BY <1>1, <1>2, PayloadsPass

\* Blending adds no chunk.
LEMMA BlendCovered ==
    ASSUME NEW channels, NEW payloads, \A i \in DOMAIN channels : Covered(channels[i][1], payloads)
    PROVE  Covered(Blend(channels), payloads)
  BY DEF Covered, Blend

\* Whether the reranker scored or not, the final scores are of blended hits.
LEMMA FinalCovered ==
    ASSUME NEW q, NEW graph, NEW reranked, NEW payloads, Covered(q.vectors, payloads),
           Covered(q.text, payloads), Covered(q.exact, payloads), Covered(graph, payloads)
    PROVE  Covered(FinalScores(q, graph, reranked), payloads)
  <1>1. Covered(Blended(q), payloads)
    <2> DEFINE w == Weights(q.term)
               channels == <<<<q.vectors, w[1]>>, <<q.text, w[2]>>, <<q.exact, w[3]>>>>
    <2>1. \A i \in DOMAIN channels : Covered(channels[i][1], payloads)
      OBVIOUS
    <2>2. Blended(q) = Blend(channels)
      BY DEF Blended
    <2> HIDE DEF channels
    <2> QED
      BY <2>1, <2>2, BlendCovered
  <1>2. Covered(PreRerank(q, graph), payloads)
    <2> DEFINE channels == <<<<Blended(q), 21>>, <<graph, 4>>>>
    <2>1. \A i \in DOMAIN channels : Covered(channels[i][1], payloads)
      BY <1>1
    <2>2. PreRerank(q, graph) = Blend(channels)
      BY DEF PreRerank
    <2> HIDE DEF channels
    <2> QED
      BY <2>1, <2>2, BlendCovered
  <1>3. DOMAIN FinalScores(q, graph, reranked) = DOMAIN PreRerank(q, graph)
    BY DEF FinalScores
  <1> QED
    BY <1>2, <1>3 DEF Covered

---------------------------------------------------------------------------
(* The invariant                                                            *)

Fields == {"stage", "term", "terms", "bonus", "filters", "limit", "pool", "vectors", "text", "exact",
           "found", "payloads", "seeds", "targets", "unresolved", "overlap"}

\* What a request has found so far has payloads, and they pass its filters.
FoundPasses ==
    query # None /\ query.stage # "answered" =>
        /\ query = [f \in Fields |-> query[f]]
        /\ Passes(query.payloads, query.filters)
        /\ Covered(query.vectors, query.payloads) /\ Covered(query.text, query.payloads)
        /\ Covered(query.exact, query.payloads) /\ Covered(query.found, query.payloads)

Filtered == FoundPasses /\ AnswerFiltered

\* The first three statements of the expansion only note nodes.
LEMMA ExpansionKeeps ==
    ASSUME query = [f \in Fields |-> query[f]], ExpandSeeds \/ ExpandEdges \/ ExpandAliases
    PROVE  /\ query'.stage # "answered" /\ query' = [f \in Fields |-> query'[f]]
           /\ \A f \in Fields \ {"stage", "seeds", "targets", "unresolved"} : query'[f] = query[f]
  <1>1. CASE ExpandSeeds
    <2> DEFINE ns == SeedNodes(RankedIds(Blended(query), query.pool))
    <2>1. query' = [query EXCEPT !.stage = "edges", !.seeds = ns]
      BY <1>1 DEF ExpandSeeds
    <2> HIDE DEF ns
    <2> QED
      BY <2>1 DEF Fields
  <1>2. CASE ExpandEdges
    <2>1. PICK ts, us : query' = [query EXCEPT !.stage = "aliases", !.targets = ts, !.unresolved = us]
      BY <1>2 DEF ExpandEdges
    <2> QED
      BY <2>1 DEF Fields
  <1>3. CASE ExpandAliases
    <2> DEFINE ts == query.targets \cup {x[1] : x \in {y \in aliases : y[2] \in query.unresolved}}
    <2>1. query' = [query EXCEPT !.stage = "neighbours", !.unresolved = {}, !.targets = ts]
      BY <1>3 DEF ExpandAliases, Fields
    <2> HIDE DEF ts
    <2> QED
      BY <2>1 DEF Fields
  <1> QED
    BY <1>1, <1>2, <1>3

\* What a lookup keeps is what it had and what it hit.
LEMMA KeptCovered ==
    ASSUME NEW q, NEW hits, NEW unit, NEW base, Passes(q.payloads, q.filters),
           Covered(q.found, q.payloads), DOMAIN hits \subseteq Ids(RowsOf(q))
    PROVE  /\ Covered(Kept(q, hits, unit, base), KeptPayloads(q, hits))
           /\ Passes(KeptPayloads(q, hits), q.filters)
           /\ DOMAIN q.payloads \subseteq DOMAIN KeptPayloads(q, hits)
  <1>1. /\ Passes(Payloads("rows", RowsOf(q), hits), q.filters)
        /\ DOMAIN Payloads("rows", RowsOf(q), hits) = DOMAIN hits
    BY RowPayloads
  <1>2. /\ Passes(KeptPayloads(q, hits), q.filters)
        /\ DOMAIN KeptPayloads(q, hits) = DOMAIN q.payloads \cup DOMAIN hits
    <2> DEFINE new == Payloads("rows", RowsOf(q), hits)
    <2>1. Passes(new, q.filters) /\ DOMAIN new = DOMAIN hits
      BY <1>1
    <2>2. KeptPayloads(q, hits) = Collected(q.payloads, new)
      BY DEF KeptPayloads
    <2> HIDE DEF new
    <2> DEFINE fields == q.filters
               had == q.payloads
    <2>a. Passes(had, fields) /\ Passes(new, fields)
      BY <2>1
    <2> HIDE DEF fields, had
    <2>b. /\ Passes(Collected(had, new), fields)
          /\ DOMAIN Collected(had, new) = DOMAIN had \cup DOMAIN new
      BY <2>a DEF Passes, Collected
    <2>3. /\ Passes(Collected(q.payloads, new), q.filters)
          /\ DOMAIN Collected(q.payloads, new) = DOMAIN q.payloads \cup DOMAIN new
      BY <2>b DEF fields, had
    <2>4. QED
      BY <2>1, <2>2, <2>3
  <1>3. DOMAIN Kept(q, hits, unit, base) = DOMAIN q.found \cup DOMAIN hits
    BY DEF Kept
  <1> QED
    BY <1>2, <1>3 DEF Covered

LEMMA InitFiltered == Init => Filtered
  BY DEF Init, Filtered, FoundPasses, AnswerFiltered, Answered

\* A request begins with nothing or ends with a status that is not "ok".
LEMMA AskFiltered == Ask => Filtered'
  <1> SUFFICES ASSUME Ask PROVE Filtered'
    OBVIOUS
  <1>1. ASSUME NEW code, code # "ok", query' = Status(code)
        PROVE  Filtered'
    BY <1>1 DEF Status, Filtered, FoundPasses, AnswerFiltered, Answered
  <1>2. ASSUME NEW corpus, NEW request, query' = Started(corpus, request)
        PROVE  Filtered'
    <2>1. /\ query'.stage # "answered" /\ query'.payloads = NoHits
          /\ query'.vectors = NoHits /\ query'.text = NoHits /\ query'.exact = NoHits /\ query'.found = NoHits
      BY <1>2 DEF Started
    <2>2. query' = [f \in Fields |-> query'[f]]
      BY <1>2 DEF Started, Fields
    <2>3. Passes(query'.payloads, query'.filters)
      BY <2>1 DEF Passes, NoHits
    <2> QED
      BY <2>1, <2>2, <2>3 DEF Covered, Filtered, FoundPasses, AnswerFiltered, Answered
  <1>3. PICK corpus \in Corpora, request \in Requests :
           \/ query' = IF Refusal(corpus, request) = "none" THEN Started(corpus, request)
                       ELSE Status(Refusal(corpus, request))
           \/ query' = Status("internal_error")
    BY DEF Ask
  <1>4. Refusal(corpus, request) # "ok"
    BY DEF Refusal
  <1> QED
    BY <1>1, <1>2, <1>3, <1>4

\* The searches of a query, its expansion and its answer.
LEMMA QueryFiltered ==
    ASSUME Filtered,
           \/ SearchVectors \/ SearchText \/ SearchExact
           \/ ExpandSeeds \/ ExpandEdges \/ ExpandAliases \/ ExpandAndAnswer
    PROVE  Filtered'
  <1>1. /\ query # None /\ query.stage # "answered"
        /\ query = [f \in Fields |-> query[f]]
        /\ Passes(query.payloads, query.filters)
        /\ Covered(query.vectors, query.payloads) /\ Covered(query.text, query.payloads)
        /\ Covered(query.exact, query.payloads) /\ Covered(query.found, query.payloads)
    BY DEF Filtered, FoundPasses, SearchVectors, SearchText, SearchExact,
           ExpandSeeds, ExpandEdges, ExpandAliases, ExpandAndAnswer
  <1>2. CASE SearchVectors
    <2> DEFINE hits == VectorHits(query)
               new == Payloads("points", PointsOf(query), hits)
               payloads == Collected(query.payloads, new)
    <2>1. CASE query' = Status("not_found") \/ query' = Status("internal_error")
      BY <2>1 DEF Status, Filtered, FoundPasses, AnswerFiltered, Answered
    <2>2. CASE query' = [query EXCEPT !.stage = "text", !.vectors = hits, !.payloads = payloads]
      <3>1. Passes(new, query.filters) /\ DOMAIN new = DOMAIN hits
        BY SearchesWithin, PointPayloads
      <3> HIDE DEF hits, new
      <3>a. payloads = Collected(query.payloads, new)
        OBVIOUS
      <3> HIDE DEF payloads
      <3>2. Passes(payloads, query.filters) /\ DOMAIN payloads = DOMAIN query.payloads \cup DOMAIN new
        <4>1. Passes(query.payloads, query.filters) /\ Passes(new, query.filters)
          BY <1>1, <3>1
        <4>2. /\ Passes(Collected(query.payloads, new), query.filters)
              /\ DOMAIN Collected(query.payloads, new) = DOMAIN query.payloads \cup DOMAIN new
          <5> DEFINE fields == query.filters
                   had == query.payloads
          <5>1. Passes(had, fields) /\ Passes(new, fields)
            BY <4>1
          <5> HIDE DEF fields, had
          <5>2. /\ Passes(Collected(had, new), fields)
                /\ DOMAIN Collected(had, new) = DOMAIN had \cup DOMAIN new
            BY <5>1 DEF Passes, Collected
          <5> QED
            BY <5>2 DEF fields, had
        <4> QED
          BY <4>2, <3>a
      <3>3. /\ query'.stage = "text" /\ query'.filters = query.filters /\ query'.payloads = payloads
            /\ query'.vectors = hits /\ query'.text = query.text /\ query'.exact = query.exact
            /\ query'.found = query.found /\ query' = [f \in Fields |-> query'[f]]
        BY <1>1, <2>2 DEF Fields
      <3> QED
        BY <1>1, <3>1, <3>2, <3>3 DEF Covered, Filtered, FoundPasses, AnswerFiltered, Answered
    <2>3. \/ query' = Status("not_found") \/ query' = Status("internal_error")
          \/ query' = [query EXCEPT !.stage = "text", !.vectors = hits, !.payloads = payloads]
      BY <1>1, <1>2 DEF SearchVectors, Fields
    <2> QED
      BY <2>1, <2>2, <2>3
  <1>3. CASE SearchText
    <2> DEFINE hits == TextHits(query)
               new == Payloads("rows", RowsOf(query), hits)
               payloads == Collected(new, query.payloads)
    <2>1. query' = [query EXCEPT !.stage = "exact", !.text = hits, !.payloads = payloads]
      BY <1>1, <1>3 DEF SearchText, Fields
    <2>2. Passes(new, query.filters) /\ DOMAIN new = DOMAIN hits
      BY SearchesWithin, RowPayloads
    <2> HIDE DEF hits, new
    <2>a. payloads = Collected(new, query.payloads)
      OBVIOUS
    <2> HIDE DEF payloads
    <2>3. Passes(payloads, query.filters) /\ DOMAIN payloads = DOMAIN new \cup DOMAIN query.payloads
      <3>1. Passes(new, query.filters) /\ Passes(query.payloads, query.filters)
        BY <1>1, <2>2
      <3>2. /\ Passes(Collected(new, query.payloads), query.filters)
            /\ DOMAIN Collected(new, query.payloads) = DOMAIN new \cup DOMAIN query.payloads
        <4> DEFINE fields == query.filters
                 had == query.payloads
        <4>1. Passes(had, fields) /\ Passes(new, fields)
          BY <3>1
        <4> HIDE DEF fields, had
        <4>2. /\ Passes(Collected(new, had), fields)
              /\ DOMAIN Collected(new, had) = DOMAIN new \cup DOMAIN had
          BY <4>1 DEF Passes, Collected
        <4> QED
          BY <4>2 DEF fields, had
      <3> QED
        BY <3>2, <2>a
    <2>4. /\ query'.stage = "exact" /\ query'.filters = query.filters /\ query'.payloads = payloads
          /\ query'.text = hits /\ query'.vectors = query.vectors /\ query'.exact = query.exact
          /\ query'.found = query.found /\ query' = [f \in Fields |-> query'[f]]
      BY <1>1, <2>1 DEF Fields
    <2>5. Answered' = FALSE
      BY <2>4 DEF Answered
    <2> QED
      BY <1>1, <2>2, <2>3, <2>4, <2>5 DEF Covered, Filtered, FoundPasses, AnswerFiltered
  <1>4. CASE SearchExact
    <2> DEFINE hits == ExactHits(query, ExactK)
               new == Payloads("rows", RowsOf(query), hits)
               payloads == Collected(query.payloads, new)
    <2>1. query' = [query EXCEPT !.stage = "seeds", !.exact = hits, !.payloads = payloads]
      BY <1>1, <1>4 DEF SearchExact, Fields
    <2>2. Passes(new, query.filters) /\ DOMAIN new = DOMAIN hits
      <3>1. DOMAIN hits \subseteq Ids(RowsOf(query))
        BY SearchesWithin
      <3> HIDE DEF hits
      <3> QED
        BY <3>1, RowPayloads
    <2> HIDE DEF hits, new
    <2>a. payloads = Collected(query.payloads, new)
      OBVIOUS
    <2> HIDE DEF payloads
    <2>3. Passes(payloads, query.filters) /\ DOMAIN payloads = DOMAIN query.payloads \cup DOMAIN new
      <3>1. Passes(query.payloads, query.filters) /\ Passes(new, query.filters)
        BY <1>1, <2>2
      <3>2. /\ Passes(Collected(query.payloads, new), query.filters)
            /\ DOMAIN Collected(query.payloads, new) = DOMAIN query.payloads \cup DOMAIN new
        <4> DEFINE fields == query.filters
                 had == query.payloads
        <4>1. Passes(had, fields) /\ Passes(new, fields)
          BY <3>1
        <4> HIDE DEF fields, had
        <4>2. /\ Passes(Collected(had, new), fields)
              /\ DOMAIN Collected(had, new) = DOMAIN had \cup DOMAIN new
          BY <4>1 DEF Passes, Collected
        <4> QED
          BY <4>2 DEF fields, had
      <3> QED
        BY <3>2, <2>a
    <2>4. /\ query'.stage = "seeds" /\ query'.filters = query.filters /\ query'.payloads = payloads
          /\ query'.exact = hits /\ query'.vectors = query.vectors /\ query'.text = query.text
          /\ query'.found = query.found /\ query' = [f \in Fields |-> query'[f]]
      BY <1>1, <2>1 DEF Fields
    <2> QED
      BY <1>1, <2>2, <2>3, <2>4 DEF Covered, Filtered, FoundPasses, AnswerFiltered, Answered
  <1>5. CASE ExpandSeeds \/ ExpandEdges \/ ExpandAliases
    <2>1. /\ query'.stage # "answered" /\ query' = [f \in Fields |-> query'[f]]
          /\ query'.filters = query.filters /\ query'.payloads = query.payloads
          /\ query'.vectors = query.vectors /\ query'.text = query.text /\ query'.exact = query.exact
          /\ query'.found = query.found
      <3>1. /\ query'.stage # "answered" /\ query' = [f \in Fields |-> query'[f]]
            /\ \A f \in Fields \ {"stage", "seeds", "targets", "unresolved"} : query'[f] = query[f]
        BY <1>1, <1>5, ExpansionKeeps
      <3> QED
        BY <3>1 DEF Fields
    <2> QED
      BY <1>1, <2>1 DEF Filtered, FoundPasses, AnswerFiltered, Answered
  <1>6. CASE ExpandAndAnswer
    <2> DEFINE graph == GraphHits(query)
               new == Payloads("rows", Neighbours(query), graph)
               payloads == Collected(query.payloads, new)
    <2>1. PICK reranked : query' =
             [stage |-> "answered", status |-> "ok", filters |-> query.filters,
              term |-> query.term, scores |-> FinalScores(query, graph, reranked), reranked |-> reranked,
              channels |-> <<query.vectors, query.text, query.exact, graph>>, payloads |-> payloads,
              chunks |-> RankedIds(FinalScores(query, graph, reranked), query.limit)]
      BY <1>6 DEF ExpandAndAnswer
    <2>2. Passes(new, query.filters) /\ DOMAIN new = DOMAIN graph
      <3>1. DOMAIN graph \subseteq Ids(Neighbours(query))
        BY SearchesWithin
      <3> HIDE DEF graph
      <3> QED
        BY <3>1, RowPayloads
    <2> HIDE DEF graph, new
    <2>a. payloads = Collected(query.payloads, new)
      OBVIOUS
    <2> HIDE DEF payloads
    <2>3. Passes(payloads, query.filters) /\ DOMAIN payloads = DOMAIN query.payloads \cup DOMAIN new
      <3>1. Passes(query.payloads, query.filters) /\ Passes(new, query.filters)
        BY <1>1, <2>2
      <3>2. /\ Passes(Collected(query.payloads, new), query.filters)
            /\ DOMAIN Collected(query.payloads, new) = DOMAIN query.payloads \cup DOMAIN new
        <4> DEFINE fields == query.filters
                 had == query.payloads
        <4>1. Passes(had, fields) /\ Passes(new, fields)
          BY <3>1
        <4> HIDE DEF fields, had
        <4>2. /\ Passes(Collected(had, new), fields)
              /\ DOMAIN Collected(had, new) = DOMAIN had \cup DOMAIN new
          BY <4>1 DEF Passes, Collected
        <4> QED
          BY <4>2 DEF fields, had
      <3> QED
        BY <3>2, <2>a
    <2>4. /\ Covered(query.vectors, payloads) /\ Covered(query.text, payloads)
          /\ Covered(query.exact, payloads) /\ Covered(graph, payloads)
      BY <1>1, <2>2, <2>3 DEF Covered
    <2>5. Covered(FinalScores(query, graph, reranked), payloads)
      BY <2>4, FinalCovered
    <2>6. /\ query'.stage = "answered" /\ query'.filters = query.filters /\ query'.payloads = payloads
          /\ query'.chunks \subseteq DOMAIN FinalScores(query, graph, reranked)
      BY <2>1 DEF RankedIds
    <2> QED
      BY <2>3, <2>5, <2>6 DEF Covered, Passes, Filtered, FoundPasses, AnswerFiltered
  <1> QED
    BY <1>2, <1>3, <1>4, <1>5, <1>6

\* The searches of a lookup, and its answer.
LEMMA LookupFiltered ==
    ASSUME Filtered, LookupText \/ LookupFields \/ LookupExact
    PROVE  Filtered'
  <1>1. /\ query # None /\ query.stage # "answered"
        /\ query = [f \in Fields |-> query[f]]
        /\ Passes(query.payloads, query.filters)
        /\ Covered(query.vectors, query.payloads) /\ Covered(query.text, query.payloads)
        /\ Covered(query.exact, query.payloads) /\ Covered(query.found, query.payloads)
    BY DEF Filtered, FoundPasses, LookupText, LookupFields, LookupExact
  <1>2. ASSUME NEW hits, NEW found, NEW payloads, DOMAIN hits \subseteq Ids(RowsOf(query)),
               NEW unit, NEW base, found = Kept(query, hits, unit, base),
               payloads = KeptPayloads(query, hits)
        PROVE  /\ Covered(query.vectors, payloads) /\ Covered(query.text, payloads)
               /\ Covered(query.exact, payloads) /\ Covered(found, payloads)
               /\ Passes(payloads, query.filters)
    BY <1>1, <1>2, KeptCovered DEF Covered
  <1>3. CASE LookupText \/ LookupFields
    <2>1. PICK hits, unit, base, stage :
             /\ DOMAIN hits \subseteq Ids(RowsOf(query)) /\ stage # "answered"
             /\ query' = [query EXCEPT !.stage = stage, !.found = Kept(query, hits, unit, base),
                                       !.payloads = KeptPayloads(query, hits)]
      <3>1. CASE LookupText
        <4>1. /\ DOMAIN TextHits(query) \subseteq Ids(RowsOf(query)) /\ "lookup_fields" # "answered"
              /\ query' = [query EXCEPT !.stage = "lookup_fields", !.found = Kept(query, TextHits(query), 100, 100),
                                        !.payloads = KeptPayloads(query, TextHits(query))]
          BY <3>1, SearchesWithin DEF LookupText
        <4> QED
          BY <4>1
      <3>2. CASE LookupFields
        <4>1. /\ DOMAIN FieldHits(query) \subseteq Ids(RowsOf(query)) /\ "lookup_exact" # "answered"
              /\ query' = [query EXCEPT !.stage = "lookup_exact", !.found = Kept(query, FieldHits(query), 100, 200),
                                        !.payloads = KeptPayloads(query, FieldHits(query))]
          BY <3>2, SearchesWithin DEF LookupFields
        <4> QED
          BY <4>1
      <3> QED
        BY <1>3, <3>1, <3>2
    <2> DEFINE found == Kept(query, hits, unit, base)
               payloads == KeptPayloads(query, hits)
    <2>2. /\ Covered(query.vectors, payloads) /\ Covered(query.text, payloads)
          /\ Covered(query.exact, payloads) /\ Covered(found, payloads)
          /\ Passes(payloads, query.filters)
      BY <1>2, <2>1
    <2>3. query' = [query EXCEPT !.stage = stage, !.found = found, !.payloads = payloads]
      BY <2>1
    <2> HIDE DEF found, payloads
    <2>4. /\ query'.stage = stage /\ query'.filters = query.filters /\ query'.payloads = payloads
          /\ query'.found = found /\ query'.vectors = query.vectors /\ query'.text = query.text
          /\ query'.exact = query.exact /\ query' = [f \in Fields |-> query'[f]]
      BY <1>1, <2>3 DEF Fields
    <2> QED
      BY <2>1, <2>2, <2>4 DEF Filtered, FoundPasses, AnswerFiltered, Answered
  <1>4. CASE LookupExact
    <2> DEFINE hits == ExactHits(query, query.pool)
               found == Kept(query, hits, 25, 300)
               payloads == KeptPayloads(query, hits)
    <2>1. /\ Covered(query.vectors, payloads) /\ Covered(query.text, payloads)
          /\ Covered(query.exact, payloads) /\ Covered(found, payloads)
          /\ Passes(payloads, query.filters)
      BY <1>2, SearchesWithin
    <2>2. \/ query' = [query EXCEPT !.stage = "lookup_text", !.found = found, !.payloads = payloads,
                                    !.term = Head(query.terms), !.terms = Tail(query.terms),
                                    !.bonus = Max({0, @ - 1})]
          \/ query' = [stage |-> "answered", status |-> "ok", filters |-> query.filters,
                       term |-> query.term, scores |-> found, reranked |-> {}, channels |-> <<found>>,
                       payloads |-> payloads, chunks |-> RankedIds(found, query.limit)]
      BY <1>4 DEF LookupExact
    <2> HIDE DEF found, payloads
    <2>3. CASE query' = [query EXCEPT !.stage = "lookup_text", !.found = found, !.payloads = payloads,
                                      !.term = Head(query.terms), !.terms = Tail(query.terms),
                                      !.bonus = Max({0, @ - 1})]
      <3>1. /\ query'.stage = "lookup_text" /\ query'.filters = query.filters /\ query'.found = found
            /\ query'.vectors = query.vectors /\ query'.text = query.text /\ query'.exact = query.exact
            /\ query'.payloads = payloads /\ query' = [f \in Fields |-> query'[f]]
        BY <1>1, <2>3 DEF Fields
      <3> QED
        BY <1>1, <2>1, <3>1 DEF Filtered, FoundPasses, AnswerFiltered, Answered
    <2>4. CASE query' = [stage |-> "answered", status |-> "ok", filters |-> query.filters,
                         term |-> query.term, scores |-> found, reranked |-> {}, channels |-> <<found>>,
                         payloads |-> payloads, chunks |-> RankedIds(found, query.limit)]
      <3>1. /\ query'.stage = "answered" /\ query'.filters = query.filters
            /\ query'.payloads = payloads /\ query'.chunks \subseteq DOMAIN found
        BY <2>4 DEF RankedIds
      <3> QED
        BY <2>1, <3>1 DEF Passes, Covered, Filtered, FoundPasses, AnswerFiltered
    <2> QED
      BY <2>2, <2>3, <2>4
  <1> QED
    BY <1>3, <1>4

\* Every step keeps the invariant; a step of the worker only counts the overlap.
LEMMA NextFiltered == Filtered /\ [Next]_vars => Filtered'
  <1> SUFFICES ASSUME Filtered, [Next]_vars PROVE Filtered'
    OBVIOUS
  <1>1. CASE query' = query
    BY <1>1 DEF Filtered, FoundPasses, AnswerFiltered, Answered
  <1>2. CASE /\ query # None /\ query.stage # "answered"
             /\ query' = [query EXCEPT !.overlap = @ + 1]
    BY <1>2 DEF Fields, Filtered, FoundPasses, AnswerFiltered, Answered
  <1>3. CASE QueryNext
    <2>1. CASE Delivered
      BY <2>1 DEF Delivered, Filtered, FoundPasses, AnswerFiltered, Answered
    <2> QED
      BY <1>3, <2>1, AskFiltered, QueryFiltered, LookupFiltered DEF QueryNext
  <1> QED
    BY <1>1, <1>2, <1>3 DEF Next, WorkerNext, vars

---------------------------------------------------------------------------
(* Scores                                                                   *)

\* Hits of known ids, finitely many, with scores that can be compared.
Hits(hits) ==
    /\ hits = [c \in DOMAIN hits |-> hits[c]]
    /\ DOMAIN hits \subseteq KnownIds /\ IsFiniteSet(DOMAIN hits)
    /\ \A c \in DOMAIN hits : hits[c] \in Int

Positive(hits) == \A c \in DOMAIN hits : hits[c] > 0

\* What has b has a, with no lower score.
Dominates(hits, a, b) == b \in DOMAIN hits => a \in DOMAIN hits /\ hits[a] >= hits[b]

LEMMA NoHitsAre == Hits(NoHits) /\ Positive(NoHits)
  BY FS_EmptySet DEF Hits, Positive, NoHits

\* Where scores are positive, a score that is no lower is a hit.
LEMMA ScoreDominates ==
    ASSUME NEW hits, Hits(hits), Positive(hits), NEW a, NEW b,
           Score(hits, a) >= Score(hits, b)
    PROVE  Dominates(hits, a, b)
  <1> SUFFICES ASSUME b \in DOMAIN hits PROVE a \in DOMAIN hits /\ hits[a] >= hits[b]
    BY DEF Dominates
  <1>1. Score(hits, b) = hits[b] /\ hits[b] \in Int /\ hits[b] > 0
    BY DEF Hits, Positive, Score
  <1>2. a \in DOMAIN hits
    BY <1>1 DEF Score
  <1> QED
    BY <1>1, <1>2 DEF Score

\* A top of hits is hits.
LEMMA TopHits ==
    ASSUME NEW hits, Hits(hits), Positive(hits), NEW limit
    PROVE  Hits(Top(hits, limit)) /\ Positive(Top(hits, limit))
  <1>1. RankedIds(hits, limit) \in SUBSET DOMAIN hits
    BY DEF RankedIds
  <1>2. IsFiniteSet(RankedIds(hits, limit))
    BY <1>1, FS_Subset DEF Hits
  <1> QED
    BY <1>1, <1>2 DEF Top, Hits, Positive

\* What a search matches among finitely many known ids is hits.
LEMMA MatchingHits ==
    ASSUME NEW S \in SUBSET KnownIds, IsFiniteSet(S), NEW scores \in [S -> Int]
    PROVE  Hits(Matching(scores)) /\ Positive(Matching(scores))
  <1> DEFINE D == {x \in DOMAIN scores : scores[x] > 0}
  <1>1. D \in SUBSET S /\ \A id \in D : scores[id] \in Int /\ scores[id] > 0
    OBVIOUS
  <1>2. Matching(scores) = [id \in D |-> scores[id]]
    BY DEF Matching
  <1> HIDE DEF D
  <1>3. IsFiniteSet(D)
    BY <1>1, FS_Subset
  <1> QED
    BY <1>1, <1>2, <1>3 DEF Hits, Positive

\* Finitely many known chunks have finitely many known ids.
LEMMA IdsKnown ==
    ASSUME NEW S \in SUBSET KnownChunks, IsFiniteSet(S), NEW cs \in SUBSET S
    PROVE  Ids(cs) \in SUBSET KnownIds /\ IsFiniteSet(Ids(cs))
  <1> DEFINE f == [c \in cs |-> c.id]
  <1>1. f \in Surjection(cs, Ids(cs))
    BY DEF Surjection, Ids
  <1>2. IsFiniteSet(cs)
    BY FS_Subset
  <1> HIDE DEF f
  <1>3. IsFiniteSet(Ids(cs))
    BY <1>1, <1>2, FS_Surjection
  <1> QED
    BY <1>3 DEF Ids, KnownIds

\* The lowest and the highest score of hits.
LEMMA Bounds ==
    ASSUME NEW hits, Hits(hits), DOMAIN hits # {}
    PROVE  /\ Highest(hits) \in Int /\ Lowest(hits) \in Int /\ Lowest(hits) <= Highest(hits)
           /\ \A c \in DOMAIN hits : Lowest(hits) <= hits[c]
  <1> DEFINE S == {hits[c] : c \in DOMAIN hits}
  <1>1. IsFiniteSet(S)
    <2>1. IsFiniteSet(DOMAIN hits)
      BY DEF Hits
    <2>2. hits \in Surjection(DOMAIN hits, S)
      BY DEF Hits, Surjection
    <2> HIDE DEF S
    <2> QED
      BY <2>1, <2>2, FS_Surjection
  <1>2. S \in SUBSET Int /\ S # {}
    BY DEF Hits
  <1> HIDE DEF S
  <1>3. /\ Max(S) \in S /\ \A y \in S : y <= Max(S)
        /\ Min(S) \in S /\ \A y \in S : Min(S) <= y
    BY <1>1, <1>2, Extremes
  <1>4. Max(S) \in Int /\ Min(S) \in Int
    BY <1>2, <1>3
  <1>5. Highest(hits) = Max(S) /\ Lowest(hits) = Min(S)
    BY Zenon DEF Highest, Lowest, S
  <1>6. \A c \in DOMAIN hits : hits[c] \in S
    BY DEF S
  <1> QED
    BY <1>3, <1>4, <1>5, <1>6

\* The spread of hits is a positive number.
LEMMA SpreadIs == ASSUME NEW hits, Hits(hits) PROVE Spread(hits) \in Nat \ {0}
  <1>1. CASE DOMAIN hits = {}
    BY <1>1 DEF Hits, NoHits, Spread
  <1>2. CASE DOMAIN hits # {}
    BY <1>2, Bounds DEF Spread
  <1> QED
    BY <1>1, <1>2

\* Normalized scores are numbers, and keep the order.
LEMMA NormalizedIs ==
    ASSUME NEW hits, Hits(hits)
    PROVE  /\ \A c : Score(Normalized(hits), c) \in Nat
           /\ \A a, b : Dominates(hits, a, b) => Score(Normalized(hits), a) >= Score(Normalized(hits), b)
  <1> DEFINE N == Normalized(hits)
  <1>1. DOMAIN N = DOMAIN hits /\ \A c \in DOMAIN hits :
           N[c] = IF Highest(hits) = Lowest(hits) THEN 1 ELSE hits[c] - Lowest(hits)
    BY DEF Normalized
  <1>2. \A c \in DOMAIN hits : hits[c] \in Int /\ Lowest(hits) \in Int /\ Lowest(hits) <= hits[c]
    BY Bounds DEF Hits
  <1> HIDE DEF N
  <1>3. \A c \in DOMAIN hits : N[c] \in Nat
    BY <1>1, <1>2
  <1>4. \A c : Score(N, c) \in Nat
    BY <1>1, <1>3 DEF Score
  <1>5. ASSUME NEW a, NEW b, Dominates(hits, a, b)
        PROVE  Score(N, a) >= Score(N, b)
    <2>1. CASE b \notin DOMAIN hits
      BY <1>1, <1>4, <2>1 DEF Score
    <2>2. CASE b \in DOMAIN hits
      <3>1. a \in DOMAIN hits /\ hits[a] >= hits[b]
        BY <1>5, <2>2 DEF Dominates
      <3>2. N[a] >= N[b]
        BY <1>1, <1>2, <2>2, <3>1
      <3> QED
        BY <1>1, <2>2, <3>1, <3>2 DEF Score
    <2> QED
      BY <2>1, <2>2
  <1> QED
    BY <1>4, <1>5 DEF N

\* The product of positive numbers is one.
LEMMA Products ==
    /\ \A x, y \in Nat \ {0} : x * y \in Nat \ {0}
    /\ \A x, y \in Nat : x * y \in Nat
    /\ \A x, y, u \in Nat : x >= y => x * u >= y * u /\ u * x >= u * y
    /\ \A x \in Nat, y \in Nat \ {0} : x \div y \in Nat
  <1>1. ASSUME NEW x \in Nat, NEW y \in Nat PROVE x * y \in Nat
    BY <1>1
  <1>2. ASSUME NEW x \in Nat \ {0}, NEW y \in Nat \ {0} PROVE x * y \in Nat \ {0}
    BY <1>2
  <1>3. ASSUME NEW x \in Nat, NEW y \in Nat, NEW u \in Nat, x >= y PROVE x * u >= y * u /\ u * x >= u * y
    <2>1. x - y \in Nat /\ (x - y) * u \in Nat
      BY <1>1, <1>3
    <2>2. x * u = y * u + (x - y) * u
      OBVIOUS
    <2>3. u * x = x * u /\ u * y = y * u
      OBVIOUS
    <2> QED
      BY <2>1, <2>2, <2>3, <1>1
  <1>4. ASSUME NEW x \in Nat, NEW y \in Nat \ {0} PROVE x \div y \in Nat
    BY <1>4
  <1> QED
    BY <1>1, <1>2, <1>3, <1>4

\* Channels of hits with weights.
Weighed(channels, n) ==
    /\ DOMAIN channels = 1 .. n
    /\ \E I : channels \in [1 .. n -> I]
    /\ \A i \in 1 .. n : Hits(channels[i][1]) /\ channels[i][2] \in Nat

LEMMA WeighedIs ==
    ASSUME NEW n \in Nat, NEW channels, Weighed(channels, n)
    PROVE  /\ channels \in [1 .. n -> {channels[i] : i \in 1 .. n}]
           /\ \A ch \in {channels[i] : i \in 1 .. n} : Hits(ch[1]) /\ ch[2] \in Nat
  BY DEF Weighed

\* The unit of a blend is a positive number.
LEMMA DenominatorIs ==
    ASSUME NEW n \in Nat, NEW channels, Weighed(channels, n)
    PROVE  Denominator(channels) \in Nat \ {0}
  <1> DEFINE A == Nat \ {0}
             I == {channels[i] : i \in 1 .. n}
             op == [acc \in A |-> [ch \in I |-> acc * Spread(ch[1])]]
             Q(it) == it = [s \in SUBSET DOMAIN channels |->
                              IF s = {} THEN 1
                              ELSE it[s \ {Max(s)}] * Spread(channels[Max(s)][1])]
             it == CHOOSE f : Q(f)
  <1>1. DOMAIN channels = 1 .. n /\ channels \in [1 .. n -> I] /\ 1 \in A
    BY WeighedIs DEF Weighed
  <1>2. op \in [A -> [I -> A]]
    <2>1. \A ch \in I : Spread(ch[1]) \in A
      BY WeighedIs, SpreadIs
    <2>2. \A acc \in A, ch \in I : acc * Spread(ch[1]) \in A
      BY <2>1, Products
    <2> HIDE DEF A, I
    <2> QED
      BY <2>2
  <1>3. \E f : Q(f)
    <2>1. PICK f : FoldUnfolded(A, I, 1, op, channels, f, n)
      <3> HIDE DEF op, A, I
      <3> QED
        BY <1>1, <1>2, FoldSolution
    <2>2. /\ f = [s \in SUBSET (1 .. n) |-> f[s]] /\ f[{}] = 1
          /\ \A s \in SUBSET (1 .. n) : s # {} =>
                /\ Max(s) \in 1 .. n /\ channels[Max(s)] \in I /\ f[s \ {Max(s)}] \in A
                /\ f[s] = op[f[s \ {Max(s)}]][channels[Max(s)]]
      BY <2>1, Zenon DEF FoldUnfolded
    <2>3. \A s \in SUBSET (1 .. n) :
             f[s] = IF s = {} THEN 1 ELSE f[s \ {Max(s)}] * Spread(channels[Max(s)][1])
      <3> HIDE DEF A, I
      <3> QED
        BY <2>2
    <2>4. Q(f)
      BY <1>1, <2>2, <2>3
    <2> QED
      BY <2>4
  <1>4. Q(it)
    <2> HIDE DEF Q
    <2> QED
      BY <1>3, Zenon
  <1>5. Denominator(channels) = it[1 .. n]
    <2>1. Denominator(channels) = it[DOMAIN channels]
      BY Zenon DEF Denominator, FoldLeft, MapThenFoldSet
    <2> QED
      BY <1>1, <2>1, Zenon
  <1> DEFINE next == [s \in SUBSET (1 .. n) |-> it[s \ {Max(s)}] * Spread(channels[Max(s)][1])]
  <1>6. it = [s \in SUBSET (1 .. n) |-> IF s = {} THEN 1 ELSE next[s]]
    <2> HIDE DEF it
    <2> QED
      BY <1>1, <1>4
  <1>7. NextIs(A, op, channels, it, next, n)
    <2> HIDE DEF it
    <2> SUFFICES ASSUME NEW s \in SUBSET (1 .. n), s # {}, it[s \ {Max(s)}] \in A
                 PROVE  next[s] = op[it[s \ {Max(s)}]][channels[Max(s)]]
      BY DEF NextIs
    <2>1. Max(s) \in 1 .. n
      BY MaxUpTo
    <2>2. channels[Max(s)] \in I
      BY <1>1, <2>1
    <2> HIDE DEF A, I
    <2> QED
      BY <2>2
  <1>8. PICK h \in [0 .. n -> A] : FoldRun(1, op, channels, it, h, n)
    <2> HIDE DEF A, I, op, it, next
    <2> QED
      BY <1>1, <1>2, <1>6, <1>7, FoldSolved
  <1>9. h[n] = it[1 .. n] /\ n \in 0 .. n
    BY <1>8 DEF FoldRun
  <1> QED
    BY <1>5, <1>9

\* What one channel adds to the score of a chunk, and the score.
PartOf(channels, ch, c) ==
    ch[2] * Score(Normalized(ch[1]), c) * (Denominator(channels) \div Spread(ch[1]))

BlendOf(channels, c) ==
    FoldLeft(LAMBDA acc, ch : acc + PartOf(channels, ch, c), 0, channels)

\* A part is a number, and keeps the order.
LEMMA PartIs ==
    ASSUME NEW n \in Nat, NEW channels, Weighed(channels, n), NEW ch \in {channels[i] : i \in 1 .. n}
    PROVE  /\ \A c : PartOf(channels, ch, c) \in Nat
           /\ \A a, b : Dominates(ch[1], a, b) => PartOf(channels, ch, a) >= PartOf(channels, ch, b)
  <1> DEFINE u == Denominator(channels) \div Spread(ch[1])
             N == Normalized(ch[1])
  <1>1. Hits(ch[1]) /\ ch[2] \in Nat
    BY WeighedIs
  <1>2. u \in Nat
    <2>1. Denominator(channels) \in Nat /\ Spread(ch[1]) \in Nat \ {0}
      BY <1>1, DenominatorIs, SpreadIs
    <2> QED
      BY <2>1, Products
  <1>3. \A c : Score(N, c) \in Nat
    BY <1>1, NormalizedIs
  <1>4. \A a, b : Dominates(ch[1], a, b) => Score(N, a) >= Score(N, b)
    BY <1>1, NormalizedIs
  <1>5. \A c : PartOf(channels, ch, c) = ch[2] * Score(N, c) * u
    BY DEF PartOf
  <1> HIDE DEF u, N
  <1>6. ASSUME NEW c PROVE ch[2] * Score(N, c) * u \in Nat /\ ch[2] * Score(N, c) \in Nat
    BY <1>1, <1>2, <1>3, Products
  <1>7. ASSUME NEW a, NEW b, Dominates(ch[1], a, b)
        PROVE  ch[2] * Score(N, a) * u >= ch[2] * Score(N, b) * u
    <2>1. ch[2] * Score(N, a) >= ch[2] * Score(N, b)
      BY <1>1, <1>3, <1>4, <1>7, Products
    <2> QED
      BY <1>2, <1>6, <2>1, Products
  <1> QED
    BY <1>5, <1>6, <1>7

\* h holds the sums of the parts of the first channels, up to the blend.
BlendRun(channels, n, c, h) ==
    /\ h \in [0 .. n -> Nat]
    /\ h[0] = 0 /\ h[n] = BlendOf(channels, c)
    /\ \A k \in 1 .. n : h[k] = h[k - 1] + PartOf(channels, channels[k], c)

\* The blend adds one part after the other.
LEMMA BlendPath ==
    ASSUME NEW n \in Nat, NEW channels, Weighed(channels, n), NEW c
    PROVE  \E h : BlendRun(channels, n, c, h)
  <1> DEFINE A == Nat
             I == {channels[i] : i \in 1 .. n}
             op == [acc \in A |-> [x \in I |-> acc + PartOf(channels, x, c)]]
             Q(it) == it = [s \in SUBSET DOMAIN channels |->
                              IF s = {} THEN 0
                              ELSE it[s \ {Max(s)}] + PartOf(channels, channels[Max(s)], c)]
             it == CHOOSE f : Q(f)
             next == [s \in SUBSET (1 .. n) |-> it[s \ {Max(s)}] + PartOf(channels, channels[Max(s)], c)]
  <1>1. n \in Nat /\ DOMAIN channels = 1 .. n /\ channels \in [1 .. n -> I] /\ 0 \in A
    BY WeighedIs DEF Weighed
  <1>2. \A acc \in A, x \in I : acc + PartOf(channels, x, c) \in A
    BY PartIs
  <1>3. op \in [A -> [I -> A]]
    <2> HIDE DEF A, I
    <2> QED
      BY <1>2
  <1>4. \E f : Q(f)
    <2>1. PICK f : FoldUnfolded(A, I, 0, op, channels, f, n)
      <3> HIDE DEF op, A, I
      <3> QED
        BY <1>1, <1>3, FoldSolution
    <2>2. /\ f = [s \in SUBSET (1 .. n) |-> f[s]] /\ f[{}] = 0
          /\ \A s \in SUBSET (1 .. n) : s # {} =>
                /\ Max(s) \in 1 .. n /\ channels[Max(s)] \in I /\ f[s \ {Max(s)}] \in A
                /\ f[s] = op[f[s \ {Max(s)}]][channels[Max(s)]]
      BY <2>1, Zenon DEF FoldUnfolded
    <2>3. \A s \in SUBSET (1 .. n) :
             f[s] = IF s = {} THEN 0 ELSE f[s \ {Max(s)}] + PartOf(channels, channels[Max(s)], c)
      <3> HIDE DEF A, I
      <3> QED
        BY <2>2
    <2>4. Q(f)
      BY <1>1, <2>2, <2>3
    <2> QED
      BY <2>4
  <1>5. Q(it)
    <2> HIDE DEF Q
    <2> QED
      BY <1>4, Zenon
  <1>6. BlendOf(channels, c) = it[1 .. n]
    <2>1. BlendOf(channels, c) = it[DOMAIN channels]
      BY Zenon DEF BlendOf, FoldLeft, MapThenFoldSet
    <2> QED
      BY <1>1, <2>1, Zenon
  <1>7. it = [s \in SUBSET (1 .. n) |-> IF s = {} THEN 0 ELSE next[s]]
    <2> HIDE DEF it
    <2> QED
      BY <1>1, <1>5
  <1>8. NextIs(A, op, channels, it, next, n)
    <2> HIDE DEF it
    <2> SUFFICES ASSUME NEW s \in SUBSET (1 .. n), s # {}, it[s \ {Max(s)}] \in A
                 PROVE  next[s] = op[it[s \ {Max(s)}]][channels[Max(s)]]
      BY DEF NextIs
    <2>1. Max(s) \in 1 .. n
      BY <1>1, MaxUpTo
    <2>2. channels[Max(s)] \in I
      BY <1>1, <2>1
    <2> HIDE DEF A, I
    <2> QED
      BY <2>2
  <1>9. PICK h \in [0 .. n -> A] : FoldRun(0, op, channels, it, h, n)
    <2> HIDE DEF A, I, op, it, next
    <2> QED
      BY <1>1, <1>3, <1>7, <1>8, FoldSolved
  <1>10. /\ h[0] = 0 /\ h[n] = it[1 .. n]
         /\ \A k \in 1 .. n : h[k] = op[h[k - 1]][channels[k]]
    BY <1>9, Zenon DEF FoldRun
  <1>11. \A k \in 1 .. n : h[k] = h[k - 1] + PartOf(channels, channels[k], c)
    <2> TAKE k \in 1 .. n
    <2> HIDE DEF A, I, it
    <2>1. k - 1 \in 0 .. n
      BY <1>1
    <2>2. h[k - 1] \in A /\ channels[k] \in I
      BY <1>1, <1>9, <2>1
    <2> QED
      BY <1>10, <2>2
  <1> HIDE DEF it
  <1>12. BlendRun(channels, n, c, h)
    BY <1>6, <1>9, <1>10, <1>11 DEF BlendRun
  <1> QED
    BY <1>12

\* A blend of hits is hits, with scores from 0, and keeps the order that all its
\* channels have.
LEMMA BlendIs ==
    ASSUME NEW n \in Nat, NEW channels, Weighed(channels, n)
    PROVE  /\ Hits(Blend(channels)) /\ \A c \in DOMAIN Blend(channels) : Blend(channels)[c] \in Nat
           /\ \A a, b : (\A i \in 1 .. n : Dominates(channels[i][1], a, b))
                           => Dominates(Blend(channels), a, b)
  <1> DEFINE D == UNION {DOMAIN channels[i][1] : i \in DOMAIN channels}
  <1>1. Blend(channels) = [c \in D |-> BlendOf(channels, c)]
    BY Zenon DEF Blend, BlendOf, PartOf
  <1>2. DOMAIN channels = 1 .. n /\ \A i \in 1 .. n : Hits(channels[i][1])
    BY DEF Weighed
  <1>3. D \subseteq KnownIds
    BY <1>2 DEF Hits
  <1>4. IsFiniteSet(D)
    <2> DEFINE S == {DOMAIN channels[i][1] : i \in 1 .. n}
               f == [i \in 1 .. n |-> DOMAIN channels[i][1]]
    <2>1. f \in Surjection(1 .. n, S)
      BY DEF Surjection
    <2>2. IsFiniteSet(1 .. n)
      BY FS_Interval
    <2>3. IsFiniteSet(S)
      <3> HIDE DEF f, S
      <3> QED
        BY <2>1, <2>2, FS_Surjection
    <2>4. \A T \in S : IsFiniteSet(T)
      BY <1>2 DEF Hits
    <2>5. D = UNION S
      BY <1>2
    <2> HIDE DEF S, D, f
    <2> QED
      BY <2>3, <2>4, <2>5, FS_UNION
  <1>5. ASSUME NEW c PROVE BlendOf(channels, c) \in Nat
    <2>1. PICK h : BlendRun(channels, n, c, h)
      BY BlendPath
    <2>2. n \in 0 .. n
      OBVIOUS
    <2> QED
      BY <2>1, <2>2 DEF BlendRun
  <1>6. ASSUME NEW a, NEW b, \A i \in 1 .. n : Dominates(channels[i][1], a, b)
        PROVE  Dominates(Blend(channels), a, b)
    <2>a. PICK g : BlendRun(channels, n, a, g)
      BY BlendPath
    <2>b. PICK h : BlendRun(channels, n, b, h)
      BY BlendPath
    <2>1. /\ g \in [0 .. n -> Nat] /\ g[0] = 0 /\ g[n] = BlendOf(channels, a)
          /\ \A k \in 1 .. n : g[k] = g[k - 1] + PartOf(channels, channels[k], a)
      BY <2>a DEF BlendRun
    <2>2. /\ h \in [0 .. n -> Nat] /\ h[0] = 0 /\ h[n] = BlendOf(channels, b)
          /\ \A k \in 1 .. n : h[k] = h[k - 1] + PartOf(channels, channels[k], b)
      BY <2>b DEF BlendRun
    <2> DEFINE T == {k \in 0 .. n : g[k] >= h[k]}
    <2>3. 0 \in T
      BY <2>1, <2>2
    <2>4. ASSUME NEW k \in 1 .. n, k - 1 \in T PROVE k \in T
      <3>1. channels[k] \in {channels[i] : i \in 1 .. n}
        OBVIOUS
      <3>2. /\ PartOf(channels, channels[k], a) \in Nat /\ PartOf(channels, channels[k], b) \in Nat
            /\ PartOf(channels, channels[k], a) >= PartOf(channels, channels[k], b)
        BY <1>6, <3>1, PartIs
      <3>3. k - 1 \in 0 .. n /\ k \in 0 .. n /\ g[k - 1] >= h[k - 1]
        BY <2>4
      <3>4. g[k - 1] \in Nat /\ h[k - 1] \in Nat
        BY <2>1, <2>2, <3>3
      <3>5. g[k] >= h[k]
        BY <2>1, <2>2, <3>2, <3>3, <3>4
      <3> QED
        BY <3>3, <3>5
    <2>5. \A k \in 0 .. n : k \in T
      <3> HIDE DEF T
      <3> QED
        BY <2>3, <2>4, UpTo, Zenon
    <2>6. BlendOf(channels, a) >= BlendOf(channels, b)
      <3>1. n \in 0 .. n
        OBVIOUS
      <3> QED
        BY <2>1, <2>2, <2>5, <3>1
    <2>7. b \in D => a \in D
      BY <1>2, <1>6 DEF Dominates
    <2> HIDE DEF D
    <2> QED
      BY <1>1, <2>6, <2>7 DEF Dominates
  <1> HIDE DEF D
  <1> QED
    BY <1>1, <1>3, <1>4, <1>5, <1>6 DEF Hits

\* A hit that is in a top while one with a higher score is not: there is none.
LEMMA RankedFirst ==
    ASSUME NEW hits, Hits(hits), NEW limit \in Nat, NEW a \in DOMAIN hits, NEW b \in DOMAIN hits,
           hits[a] >= hits[b], b \in RankedIds(hits, limit), a \notin RankedIds(hits, limit)
    PROVE  hits[a] = hits[b]
  <1> SUFFICES ASSUME hits[a] # hits[b] PROVE FALSE
    OBVIOUS
  <1> DEFINE A == {x \in DOMAIN hits \ {a} : Ahead(hits, x, a)}
             B == {x \in DOMAIN hits \ {b} : Ahead(hits, x, b)}
  <1>1. \A x \in DOMAIN hits : hits[x] \in Int
    BY DEF Hits
  <1>2. hits[a] > hits[b]
    BY <1>1
  <1>3. A \subseteq B
    BY <1>1, <1>2 DEF Ahead
  <1>4. IsFiniteSet(B)
    <2>1. B \in SUBSET DOMAIN hits
      OBVIOUS
    <2> HIDE DEF B
    <2> QED
      BY <2>1, FS_Subset DEF Hits
  <1>5. Cardinality(B) < limit /\ ~ (Cardinality(A) < limit)
    BY DEF RankedIds
  <1> HIDE DEF A, B
  <1>6. Cardinality(A) <= Cardinality(B) /\ IsFiniteSet(A)
    BY <1>3, <1>4, FS_Subset
  <1>7. Cardinality(A) \in Nat /\ Cardinality(B) \in Nat
    BY <1>4, <1>6, FS_CardinalityType
  <1> QED
    BY <1>5, <1>6, <1>7

\* The worker stores finitely many known chunks, and edges with a rank.
EdgeTypes == {"part_of", "has_section", "refers_to", "next", "prev"}

Stocked ==
    /\ chunks \subseteq KnownChunks /\ IsFiniteSet(chunks)
    /\ points \subseteq KnownChunks /\ IsFiniteSet(points)
    /\ \A e \in edges : e.type \in EdgeTypes

\* An edge and a link rank from 1 to 5; a chunk that nothing leads to has 0.
LEMMA GraphScoreIs == ASSUME Stocked, NEW q, NEW id PROVE GraphScore(q, id) \in Int
  <1> DEFINE ranks == {EdgeRank(p[1].type, p[2].role) :
                p \in {y \in edges \X links : /\ y[1].src \in q.seeds /\ LeadsTo(y[1], y[2].node)
                                             /\ y[2].chunk = id /\ y[2].node \in q.targets}}
  <1>1. ranks \subseteq 0 .. 5
    <2>1. \A e \in edges, l \in links : EdgeRank(e.type, l.role) \in 0 .. 5
      BY DEF EdgeRank, Stocked, EdgeTypes
    <2> QED
      BY <2>1
  <1>2. GraphScore(q, id) = Max(ranks \cup {0})
    BY Zenon DEF GraphScore
  <1> HIDE DEF ranks
  <1>3. ranks \cup {0} \in SUBSET (0 .. 5) /\ ranks \cup {0} \in SUBSET Int /\ ranks \cup {0} # {}
    BY <1>1
  <1>4. IsFiniteSet(ranks \cup {0})
    <2>1. IsFiniteSet(0 .. 5)
      <3>1. 0 \in Int /\ 5 \in Int
        OBVIOUS
      <3> QED
        BY <3>1, FS_Interval, Zenon
    <2> QED
      BY <1>3, <2>1, FS_Subset
  <1>5. Max(ranks \cup {0}) \in ranks \cup {0}
    BY <1>3, <1>4, Extremes
  <1> QED
    BY <1>2, <1>3, <1>5

\* The searches of a request.
LEMMA SearchesHit ==
    ASSUME Stocked, NEW q, q.term \in Terms
    PROVE  /\ Hits(VectorHits(q)) /\ Positive(VectorHits(q))
           /\ Hits(TextHits(q)) /\ Positive(TextHits(q))
           /\ Hits(FieldHits(q)) /\ Positive(FieldHits(q))
           /\ \A n : Hits(ExactHits(q, n)) /\ Positive(ExactHits(q, n))
           /\ Hits(GraphHits(q)) /\ Positive(GraphHits(q))
  <1>1. /\ Ids(PointsOf(q)) \in SUBSET KnownIds /\ IsFiniteSet(Ids(PointsOf(q)))
        /\ Ids(RowsOf(q)) \in SUBSET KnownIds /\ IsFiniteSet(Ids(RowsOf(q)))
        /\ Ids(Neighbours(q)) \in SUBSET KnownIds /\ IsFiniteSet(Ids(Neighbours(q)))
    <2>1. /\ chunks \in SUBSET KnownChunks /\ IsFiniteSet(chunks)
          /\ points \in SUBSET KnownChunks /\ IsFiniteSet(points)
      BY DEF Stocked
    <2>2. PointsOf(q) \in SUBSET points /\ RowsOf(q) \in SUBSET chunks /\ Neighbours(q) \in SUBSET chunks
      BY DEF PointsOf, RowsOf, Neighbours
    <2> QED
      BY <2>1, <2>2, IdsKnown
  <1>2. Hits(VectorHits(q)) /\ Positive(VectorHits(q))
    <2> DEFINE S == Ids(PointsOf(q))
               scores == [id \in S |-> VectorScore(q.term, id)]
    <2>1. S \in SUBSET KnownIds /\ IsFiniteSet(S)
      BY <1>1
    <2>2. scores \in [S -> Int]
      BY <2>1, ScoresAssumption DEF ExactScore
    <2>3. VectorHits(q) = Top(Matching(scores), q.pool)
      BY DEF VectorHits
    <2> HIDE DEF S, scores
    <2>4. Hits(Matching(scores)) /\ Positive(Matching(scores))
      BY <2>1, <2>2, MatchingHits
    <2> QED
      BY <2>3, <2>4, TopHits
  <1>3. Hits(TextHits(q)) /\ Positive(TextHits(q))
    <2> DEFINE S == Ids(RowsOf(q))
               scores == [id \in S |-> TextScore(q.term, id)]
    <2>1. S \in SUBSET KnownIds /\ IsFiniteSet(S)
      BY <1>1
    <2>2. scores \in [S -> Int]
      BY <2>1, ScoresAssumption DEF ExactScore
    <2>3. TextHits(q) = Top(Matching(scores), q.pool)
      BY DEF TextHits
    <2> HIDE DEF S, scores
    <2>4. Hits(Matching(scores)) /\ Positive(Matching(scores))
      BY <2>1, <2>2, MatchingHits
    <2> QED
      BY <2>3, <2>4, TopHits
  <1>4. Hits(FieldHits(q)) /\ Positive(FieldHits(q))
    <2> DEFINE S == Ids(RowsOf(q))
               scores == [id \in S |-> FieldScore(q.term, id)]
    <2>1. S \in SUBSET KnownIds /\ IsFiniteSet(S)
      BY <1>1
    <2>2. scores \in [S -> Int]
      BY <2>1, ScoresAssumption DEF ExactScore
    <2>3. FieldHits(q) = Top(Matching(scores), q.pool)
      BY DEF FieldHits
    <2> HIDE DEF S, scores
    <2>4. Hits(Matching(scores)) /\ Positive(Matching(scores))
      BY <2>1, <2>2, MatchingHits
    <2> QED
      BY <2>3, <2>4, TopHits
  <1>5. ASSUME NEW n PROVE Hits(ExactHits(q, n)) /\ Positive(ExactHits(q, n))
    <2> DEFINE S == Ids(RowsOf(q))
               scores == [id \in S |-> ExactScore(q, id)]
    <2>1. S \in SUBSET KnownIds /\ IsFiniteSet(S)
      BY <1>1
    <2>2. scores \in [S -> Int]
      BY <2>1, ScoresAssumption DEF ExactScore
    <2>3. ExactHits(q, n) = Top(Matching(scores), n)
      BY DEF ExactHits
    <2> HIDE DEF S, scores
    <2>4. Hits(Matching(scores)) /\ Positive(Matching(scores))
      BY <2>1, <2>2, MatchingHits
    <2> QED
      BY <2>3, <2>4, TopHits
  <1>6. Hits(GraphHits(q)) /\ Positive(GraphHits(q))
    <2> DEFINE S == Ids(Neighbours(q))
               scores == [id \in S |-> GraphScore(q, id)]
    <2>1. S \in SUBSET KnownIds /\ IsFiniteSet(S)
      BY <1>1
    <2>2. \A id \in S : GraphScore(q, id) \in Int /\ GraphScore(q, id) > 0
      BY GraphScoreIs DEF Ids, Neighbours
    <2>3. GraphHits(q) = Top(scores, GraphK)
      BY DEF GraphHits
    <2> HIDE DEF S
    <2>4. Hits(scores) /\ Positive(scores)
      BY <2>1, <2>2 DEF Hits, Positive
    <2> HIDE DEF scores
    <2> QED
      BY <2>3, <2>4, TopHits
  <1> QED
    BY <1>2, <1>3, <1>4, <1>5, <1>6

\* What a lookup keeps is hits.
LEMMA KeptHits ==
    ASSUME NEW q, NEW hits, NEW unit \in Int, NEW base \in Int, Hits(q.found), Hits(hits), q.bonus \in Int
    PROVE  Hits(Kept(q, hits, unit, base))
  <1> DEFINE D == DOMAIN q.found \cup DOMAIN hits
             kept(c) == {Score(q.found, c)} \cup
                        (IF c \in DOMAIN hits THEN {unit * hits[c] + base + q.bonus} ELSE {})
  <1>1. Kept(q, hits, unit, base) = [c \in D |-> Max(kept(c))]
    BY Zenon DEF Kept
  <1>2. ASSUME NEW c \in D PROVE Max(kept(c)) \in Int
    <2> DEFINE S == kept(c)
    <2>1. Score(q.found, c) \in Int
      BY DEF Hits, Score
    <2>2. c \in DOMAIN hits => unit * hits[c] + base + q.bonus \in Int
      <3> SUFFICES ASSUME c \in DOMAIN hits PROVE unit * hits[c] + base + q.bonus \in Int
        OBVIOUS
      <3>1. hits[c] \in Int
        BY DEF Hits
      <3>2. unit * hits[c] \in Int
        BY <3>1
      <3> QED
        BY <3>2
    <2>3. S \in SUBSET Int /\ S # {}
      BY <2>1, <2>2
    <2>4. IsFiniteSet(S)
      <3>1. CASE c \in DOMAIN hits
        <4>1. S = {Score(q.found, c)} \cup {unit * hits[c] + base + q.bonus}
          BY <3>1
        <4>2. IsFiniteSet({Score(q.found, c)})
          BY FS_Singleton
        <4> HIDE DEF S
        <4> QED
          BY <4>1, <4>2, FS_AddElement, Zenon
      <3>2. CASE c \notin DOMAIN hits
        <4>1. S = {Score(q.found, c)}
          BY <3>2
        <4> HIDE DEF S
        <4> QED
          BY <4>1, FS_Singleton
      <3> QED
        BY <3>1, <3>2
    <2> HIDE DEF S
    <2>5. Max(S) \in S
      BY <2>3, <2>4, Extremes
    <2>6. Max(S) \in Int
      BY <2>3, <2>5
    <2> QED
      BY <2>6 DEF S
  <1>3. D \subseteq KnownIds /\ IsFiniteSet(D)
    BY FS_Union DEF Hits
  <1> HIDE DEF D, kept
  <1> QED
    BY <1>1, <1>2, <1>3 DEF Hits

\* The blend of a query, and the blend before reranking.
LEMMA PreRerankIs ==
    ASSUME NEW q, NEW graph, Hits(q.vectors), Hits(q.text), Hits(q.exact), Hits(graph)
    PROVE  /\ Hits(PreRerank(q, graph)) /\ PreUnit(q, graph) \in Nat
           /\ \A c \in DOMAIN PreRerank(q, graph) : PreRerank(q, graph)[c] \in Nat
           /\ \A a, b : /\ Dominates(q.vectors, a, b) /\ Dominates(q.text, a, b)
                        /\ Dominates(q.exact, a, b) /\ Dominates(graph, a, b)
                        => Dominates(PreRerank(q, graph), a, b)
  <1> DEFINE w == Weights(q.term)
             three == <<<<q.vectors, w[1]>>, <<q.text, w[2]>>, <<q.exact, w[3]>>>>
             two == <<<<Blended(q), 21>>, <<graph, 4>>>>
  <1>1. w[1] \in Nat /\ w[2] \in Nat /\ w[3] \in Nat
    BY DEF Weights
  <1>2. Weighed(three, 3)
    <2> HIDE DEF w
    <2>1. DOMAIN three = 1 .. 3 /\ three \in [1 .. 3 -> {three[1], three[2], three[3]}]
      OBVIOUS
    <2>2. \A i \in 1 .. 3 : Hits(three[i][1]) /\ three[i][2] \in Nat
      BY <1>1
    <2> QED
      BY <2>1, <2>2 DEF Weighed
  <1>3. \A a, b : Dominates(q.vectors, a, b) /\ Dominates(q.text, a, b) /\ Dominates(q.exact, a, b)
                     => \A i \in 1 .. 3 : Dominates(three[i][1], a, b)
    OBVIOUS
  <1>4. Blended(q) = Blend(three)
    BY DEF Blended
  <1> HIDE DEF three, w
  <1>5. /\ Hits(Blended(q))
        /\ \A a, b : Dominates(q.vectors, a, b) /\ Dominates(q.text, a, b) /\ Dominates(q.exact, a, b)
                        => Dominates(Blended(q), a, b)
    <2>1. 3 \in Nat
      OBVIOUS
    <2> QED
      BY <1>2, <1>3, <1>4, <2>1, BlendIs, Zenon
  <1>6. Weighed(two, 2)
    <2>1. DOMAIN two = 1 .. 2 /\ two \in [1 .. 2 -> {two[1], two[2]}]
      OBVIOUS
    <2>2. \A i \in 1 .. 2 : Hits(two[i][1]) /\ two[i][2] \in Nat
      BY <1>5
    <2> QED
      BY <2>1, <2>2 DEF Weighed
  <1>7. \A a, b : Dominates(Blended(q), a, b) /\ Dominates(graph, a, b)
                     => \A i \in 1 .. 2 : Dominates(two[i][1], a, b)
    OBVIOUS
  <1>8. PreRerank(q, graph) = Blend(two) /\ PreUnit(q, graph) = 25 * Denominator(two)
    BY DEF PreRerank, PreUnit
  <1> HIDE DEF two
  <1>9. 2 \in Nat
    OBVIOUS
  <1>10. /\ Hits(PreRerank(q, graph))
         /\ \A c \in DOMAIN PreRerank(q, graph) : PreRerank(q, graph)[c] \in Nat
         /\ \A a, b : Dominates(Blended(q), a, b) /\ Dominates(graph, a, b)
                         => Dominates(PreRerank(q, graph), a, b)
    BY <1>6, <1>7, <1>8, <1>9, BlendIs, Zenon
  <1>11. PreUnit(q, graph) \in Nat
    <2>1. Denominator(two) \in Nat \ {0}
      BY <1>6, <1>9, DenominatorIs, Zenon
    <2> QED
      BY <1>8, <2>1
  <1> QED
    BY <1>5, <1>10, <1>11

\* The final scores keep the order of the searches and of the reranker.
LEMMA FinalIs ==
    ASSUME NEW q, NEW graph, Hits(q.vectors), Hits(q.text), Hits(q.exact), Hits(graph),
           q.term \in Terms, NEW reranked \in SUBSET DOMAIN PreRerank(q, graph)
    PROVE  /\ Hits(FinalScores(q, graph, reranked))
           /\ \A a, b \in DOMAIN FinalScores(q, graph, reranked) :
                /\ Dominates(q.vectors, a, b) /\ Dominates(q.text, a, b)
                /\ Dominates(q.exact, a, b) /\ Dominates(graph, a, b)
                /\ a \in reranked <=> b \in reranked
                /\ a \in reranked => RerankScore(q.term, a) >= RerankScore(q.term, b)
                => FinalScores(q, graph, reranked)[a] >= FinalScores(q, graph, reranked)[b]
  <1> DEFINE pre == PreRerank(q, graph)
             before == [c \in reranked |-> pre[c]]
             after == [c \in reranked |-> RerankScore(q.term, c)]
             channels == <<<<before, 7>>, <<after, 13>>>>
             unit == 20 * Denominator(channels)
             mixed == Blend(channels)
             final == FinalScores(q, graph, reranked)
  <1>1. /\ Hits(pre) /\ PreUnit(q, graph) \in Nat
        /\ \A c \in DOMAIN pre : pre[c] \in Nat
        /\ \A a, b : /\ Dominates(q.vectors, a, b) /\ Dominates(q.text, a, b)
                     /\ Dominates(q.exact, a, b) /\ Dominates(graph, a, b)
                     => Dominates(pre, a, b)
    BY PreRerankIs, Zenon
  <1>2. final = IF reranked = {} THEN pre
                ELSE [c \in DOMAIN pre |->
                        IF c \in reranked THEN mixed[c] * PreUnit(q, graph) ELSE pre[c] * unit]
    BY Zenon DEF FinalScores
  <1>3. reranked \in SUBSET DOMAIN pre
    OBVIOUS
  <1> HIDE DEF pre, final
  <1>4. IsFiniteSet(reranked) /\ reranked \subseteq KnownIds
    BY <1>1, <1>3, FS_Subset DEF Hits
  <1>5. Hits(before) /\ Hits(after)
    BY <1>1, <1>3, <1>4, ScoresAssumption DEF Hits
  <1>6. Weighed(channels, 2)
    <2> HIDE DEF before, after
    <2>1. DOMAIN channels = 1 .. 2 /\ channels \in [1 .. 2 -> {channels[1], channels[2]}]
      OBVIOUS
    <2>2. \A i \in 1 .. 2 : Hits(channels[i][1]) /\ channels[i][2] \in Nat
      BY <1>5
    <2> QED
      BY <2>1, <2>2 DEF Weighed
  <1>7. \A a, b : Dominates(before, a, b) /\ Dominates(after, a, b)
                     => \A i \in 1 .. 2 : Dominates(channels[i][1], a, b)
    <2> HIDE DEF before, after
    <2> QED
      OBVIOUS
  <1>8. DOMAIN mixed = reranked
    <2>1. DOMAIN mixed = UNION {DOMAIN channels[i][1] : i \in DOMAIN channels}
      <3> HIDE DEF channels
      <3> QED
        BY DEF Blend
    <2>2. DOMAIN channels = {1, 2} /\ DOMAIN channels[1][1] = reranked /\ DOMAIN channels[2][1] = reranked
      OBVIOUS
    <2> HIDE DEF channels, mixed
    <2> QED
      BY <2>1, <2>2
  <1>9. /\ \A c \in DOMAIN mixed : mixed[c] \in Nat
        /\ \A a, b : Dominates(before, a, b) /\ Dominates(after, a, b) => Dominates(mixed, a, b)
    <2>1. 2 \in Nat
      OBVIOUS
    <2> HIDE DEF channels, before, after
    <2> QED
      BY <1>6, <1>7, <2>1, BlendIs, Zenon
  <1>10. unit \in Nat
    <2>1. Denominator(channels) \in Nat \ {0}
      <3>1. 2 \in Nat
        OBVIOUS
      <3> HIDE DEF channels
      <3> QED
        BY <1>6, <3>1, DenominatorIs, Zenon
    <2> HIDE DEF channels
    <2> QED
      BY <2>1
  <1> DEFINE u == PreUnit(q, graph)
  <1>11. u \in Nat
    BY <1>1
  <1> HIDE DEF mixed, unit, u, channels
  <1>12. Hits(final) /\ DOMAIN final = DOMAIN pre
    <2>1. CASE reranked = {}
      BY <1>1, <1>2, <2>1
    <2>2. CASE reranked # {}
      <3>1. final = [c \in DOMAIN pre |-> IF c \in reranked THEN mixed[c] * u ELSE pre[c] * unit]
        BY <1>2, <2>2 DEF u
      <3>2. \A c \in DOMAIN pre : c \in reranked => mixed[c] * u \in Nat
        BY <1>8, <1>9, <1>11, Products
      <3>3. \A c \in DOMAIN pre : pre[c] * unit \in Nat
        BY <1>1, <1>10, Products
      <3>4. \A c \in DOMAIN pre : final[c] \in Int
        BY <3>1, <3>2, <3>3
      <3> QED
        BY <1>1, <3>1, <3>4 DEF Hits
    <2> QED
      BY <2>1, <2>2
  <1>13. ASSUME NEW a \in DOMAIN pre, NEW b \in DOMAIN pre,
                Dominates(pre, a, b), a \in reranked <=> b \in reranked,
                a \in reranked => RerankScore(q.term, a) >= RerankScore(q.term, b)
         PROVE  final[a] >= final[b]
    <2>0. pre[a] >= pre[b] /\ pre[a] \in Nat /\ pre[b] \in Nat
      BY <1>1, <1>13 DEF Dominates
    <2>1. CASE reranked = {}
      BY <1>2, <2>0, <2>1
    <2>2. CASE a \in reranked
      <3>1. b \in reranked
        BY <1>13, <2>2
      <3>2. Dominates(before, a, b) /\ Dominates(after, a, b)
        BY <1>13, <2>0, <2>2, <3>1 DEF Dominates
      <3>3. mixed[a] >= mixed[b] /\ mixed[a] \in Nat /\ mixed[b] \in Nat
        BY <1>8, <1>9, <2>2, <3>1, <3>2 DEF Dominates
      <3>4. mixed[a] * u >= mixed[b] * u
        BY <1>11, <3>3, Products
      <3>5. final[a] = mixed[a] * u /\ final[b] = mixed[b] * u
        BY <1>2, <2>2, <3>1 DEF u
      <3> QED
        BY <3>4, <3>5
    <2>3. CASE reranked # {} /\ a \notin reranked
      <3>1. b \notin reranked
        BY <1>13, <2>3
      <3>2. pre[a] * unit >= pre[b] * unit
        BY <1>10, <2>0, Products
      <3>3. final[a] = pre[a] * unit /\ final[b] = pre[b] * unit
        BY <1>2, <2>3, <3>1
      <3> QED
        BY <3>2, <3>3
    <2> QED
      BY <2>1, <2>2, <2>3
  <1> HIDE DEF before, after
  <1>14. ASSUME NEW a \in DOMAIN final, NEW b \in DOMAIN final,
                Dominates(q.vectors, a, b), Dominates(q.text, a, b),
                Dominates(q.exact, a, b), Dominates(graph, a, b),
                a \in reranked <=> b \in reranked,
                a \in reranked => RerankScore(q.term, a) >= RerankScore(q.term, b)
         PROVE  final[a] >= final[b]
    BY <1>1, <1>12, <1>13, <1>14
  <1> QED
    BY <1>12, <1>14 DEF final

---------------------------------------------------------------------------
(* The order of an answer                                                   *)

\* A deletion takes chunks, points and edges; a write brings those of the run.
LEMMA DeleteStocked ==
    ASSUME Stocked, NEW d \in Docs, DeleteRows(d), DeletePoints(d)
    PROVE  Stocked'
  <1>1. chunks' \in SUBSET chunks /\ edges' \subseteq edges
    BY DEF DeleteRows, Cut
  <1>2. points' \in SUBSET points
    BY DEF DeletePoints
  <1>3. IsFiniteSet(chunks') /\ IsFiniteSet(points')
    BY <1>1, <1>2, FS_Subset DEF Stocked
  <1> QED
    BY <1>1, <1>2, <1>3 DEF Stocked

LEMMA WrittenStock ==
    ASSUME NEW todo \in Contents
    PROVE  /\ Over(todo, ChunksOf) \subseteq KnownChunks /\ IsFiniteSet(Over(todo, ChunksOf))
           /\ \A e \in Over(todo, StoredEdges) : e.type \in EdgeTypes
  <1>1. PICK ds \in SUBSET Docs : todo \in [ds -> Versions]
    BY DEF Contents
  <1>2. Over(todo, ChunksOf) = UNION {ChunksOf(d, todo[d]) : d \in ds}
    BY <1>1 DEF Over
  <1>3. Over(todo, ChunksOf) \subseteq KnownChunks
    BY <1>1, <1>2 DEF KnownChunks
  <1>4. ASSUME NEW d \in ds PROVE IsFiniteSet(ChunksOf(d, todo[d]))
    <2> DEFINE v == todo[d]
               f == [k \in Packs(v) |-> ChunkOf(d, v, k)]
    <2>1. v \in Versions
      BY <1>1
    <2>2. Packs(v) = 1 .. Len(v.packs) /\ Len(v.packs) \in Nat
      BY <2>1, VersionsAssumption, LenProperties DEF Packs
    <2>3. IsFiniteSet(Packs(v))
      <3>1. 1 \in Int /\ Len(v.packs) \in Int
        BY <2>2
      <3> HIDE DEF v
      <3> QED
        BY <2>2, <3>1, FS_Interval
    <2>4. f \in Surjection(Packs(v), ChunksOf(d, v))
      BY DEF Surjection, ChunksOf
    <2> HIDE DEF f, v
    <2>5. IsFiniteSet(ChunksOf(d, v))
      BY <2>3, <2>4, FS_Surjection
    <2> QED
      BY <2>5 DEF v
  <1>5. IsFiniteSet(Over(todo, ChunksOf))
    <2> DEFINE S == {ChunksOf(d, todo[d]) : d \in ds}
               f == [d \in ds |-> ChunksOf(d, todo[d])]
    <2>1. f \in Surjection(ds, S)
      BY DEF Surjection
    <2>2. IsFiniteSet(ds)
      BY DocsAssumption, FS_Subset
    <2>3. \A T \in S : IsFiniteSet(T)
      BY <1>4
    <2>4. Over(todo, ChunksOf) = UNION S
      BY <1>2
    <2> HIDE DEF f, S
    <2> QED
      BY <2>1, <2>2, <2>3, <2>4, FS_Surjection, FS_UNION
  <1>6. ASSUME NEW e \in Over(todo, StoredEdges) PROVE e.type \in EdgeTypes
    <2>1. PICK d \in ds : e \in StoredEdges(d, todo[d])
      BY <1>1 DEF Over
    <2>2. PICK k \in Packs(todo[d]) : e \in EdgesOf(d, todo[d], First(todo[d], k))
      BY <2>1 DEF StoredEdges
    <2> QED
      BY <2>2 DEF EdgesOf, Edge, EdgeTypes
  <1> QED
    BY <1>3, <1>5, <1>6

LEMMA WriteRowsStocked ==
    ASSUME Stocked, NEW todo \in Contents, WriteRows(todo), points' = points
    PROVE  Stocked'
  <1> DEFINE new == Over(todo, ChunksOf)
  <1>1. PICK kept \in SUBSET chunks : chunks' = kept \cup new
    BY DEF WriteRows
  <1>2. new \subseteq KnownChunks /\ IsFiniteSet(new)
    BY WrittenStock
  <1>3. IsFiniteSet(chunks')
    <2>1. IsFiniteSet(kept)
      BY FS_Subset DEF Stocked
    <2> HIDE DEF new
    <2> QED
      BY <1>1, <1>2, <2>1, FS_Union
  <1>4. \A e \in edges' : e \in edges \/ e \in Over(todo, StoredEdges)
    BY DEF WriteRows, Cut
  <1>5. \A e \in edges' : e.type \in EdgeTypes
    BY <1>4, WrittenStock DEF Stocked
  <1> HIDE DEF new
  <1> QED
    BY <1>1, <1>2, <1>3, <1>5 DEF Stocked

LEMMA WritePointsStocked ==
    ASSUME Stocked, NEW todo \in Contents, WritePoints(todo), UNCHANGED tables
    PROVE  Stocked'
  <1> DEFINE new == Over(todo, ChunksOf)
  <1>1. PICK kept \in SUBSET points : points' = kept \cup new
    BY DEF WritePoints
  <1>2. new \subseteq KnownChunks /\ IsFiniteSet(new)
    BY WrittenStock
  <1>3. IsFiniteSet(points')
    <2>1. IsFiniteSet(kept)
      BY FS_Subset DEF Stocked
    <2> HIDE DEF new
    <2> QED
      BY <1>1, <1>2, <2>1, FS_Union
  <1> HIDE DEF new
  <1> QED
    BY <1>1, <1>2, <1>3 DEF Stocked, tables

\* Every step of the worker keeps the stock.
LEMMA NextStocked == Sound /\ Stocked /\ [IndexNext]_indexVars => Stocked'
  <1> SUFFICES ASSUME Sound, Stocked, [IndexNext]_indexVars PROVE Stocked'
    OBVIOUS
  <1>1. CASE UNCHANGED <<tables, points>>
    BY <1>1 DEF Stocked, tables
  <1>2. CASE DeleteBefore
    <2>1. PICK d \in run.left : \/ DeleteRows(d) /\ DeletePoints(d)
                                \/ UNCHANGED <<tables, points, ghosts>>
      BY <1>2 DEF DeleteBefore
    <2>2. d \in Docs
      BY <1>2 DEF DeleteBefore, Sound, RunKnown
    <2> QED
      BY <1>1, <2>1, <2>2, DeleteStocked
  <1>3. CASE Vectors
    <2>1. run.todo \in Contents
      BY <1>3 DEF Vectors, Sound, RunKnown
    <2> QED
      BY <1>3, <2>1, WritePointsStocked DEF Vectors
  <1>4. CASE Rows
    <2>1. run.todo \in Contents
      BY <1>4 DEF Rows, Sound, RunKnown
    <2> QED
      BY <1>4, <2>1, WriteRowsStocked DEF Rows
  <1>5. CASE Purge
    BY <1>5, DeleteStocked DEF Purge
  <1> QED
    BY <1>1, <1>2, <1>3, <1>4, <1>5 DEF IndexNext, BeginRun, RunFails, indexVars

\* What a request has found so far are hits of what was stored.
FoundHits ==
    query # None /\ query.stage # "answered" =>
        /\ query = [f \in Fields |-> query[f]]
        /\ query.term \in Terms /\ query.terms \in Seq(Terms)
        /\ query.bonus \in Int /\ query.limit \in Nat
        /\ Hits(query.vectors) /\ Positive(query.vectors)
        /\ Hits(query.text) /\ Positive(query.text)
        /\ Hits(query.exact) /\ Positive(query.exact)
        /\ Hits(query.found)

Ordered == Sound /\ Stocked /\ FoundHits /\ BetterHitFirst

LEMMA InitOrdered == Init => Ordered
  <1> SUFFICES ASSUME Init PROVE Ordered
    OBVIOUS
  <1>1. Stocked
    BY FS_EmptySet DEF Init, IndexInit, Stocked
  <1>2. FoundHits /\ BetterHitFirst
    BY DEF Init, FoundHits, BetterHitFirst, Answered
  <1> QED
    BY <1>1, <1>2, InitSound DEF Init, Ordered

\* A step of a request that leaves the indexes alone.
Sighted == FoundHits /\ BetterHitFirst

LEMMA AskOrdered == Ask => Sighted'
  <1> SUFFICES ASSUME Ask PROVE Sighted'
    OBVIOUS
  <1>1. ASSUME NEW code, code # "ok", query' = Status(code)
        PROVE  Sighted'
    BY <1>1 DEF Status, Sighted, FoundHits, BetterHitFirst, Answered
  <1>2. ASSUME NEW corpus, NEW request \in Requests, query' = Started(corpus, request)
        PROVE  Sighted'
    <2>1. /\ query'.stage # "answered" /\ query'.bonus = 100 /\ query'.limit = request.limit
          /\ query'.term = Head(request.terms) /\ query'.terms = Tail(request.terms)
          /\ query'.vectors = NoHits /\ query'.text = NoHits /\ query'.exact = NoHits /\ query'.found = NoHits
      BY <1>2 DEF Started
    <2>2. query' = [f \in Fields |-> query'[f]]
      BY <1>2 DEF Started, Fields
    <2>3. Head(request.terms) \in Terms /\ Tail(request.terms) \in Seq(Terms) /\ request.limit \in Nat
      BY RequestsAssumption, HeadTailProperties
    <2> QED
      BY <2>1, <2>2, <2>3, NoHitsAre DEF Sighted, FoundHits, BetterHitFirst, Answered
  <1>3. PICK corpus \in Corpora, request \in Requests :
           \/ query' = IF Refusal(corpus, request) = "none" THEN Started(corpus, request)
                       ELSE Status(Refusal(corpus, request))
           \/ query' = Status("internal_error")
    BY DEF Ask
  <1>4. Refusal(corpus, request) # "ok"
    BY DEF Refusal
  <1> QED
    BY <1>1, <1>2, <1>3, <1>4

\* The answer of a query: its scores keep the order of its four searches.
LEMMA AnswerOrdered ==
    ASSUME Stocked, FoundHits, ExpandAndAnswer
    PROVE  BetterHitFirst'
  <1> DEFINE graph == GraphHits(query)
             pre == PreRerank(query, graph)
             payloads == Collected(query.payloads, Payloads("rows", Neighbours(query), graph))
  <1>1. PICK reranked \in {{}, Reranked(query, pre)} : query' =
           [stage |-> "answered", status |-> "ok", filters |-> query.filters,
            term |-> query.term, scores |-> FinalScores(query, graph, reranked), reranked |-> reranked,
            channels |-> <<query.vectors, query.text, query.exact, graph>>, payloads |-> payloads,
            chunks |-> RankedIds(FinalScores(query, graph, reranked), query.limit)]
    BY Zenon DEF ExpandAndAnswer
  <1>2. /\ query.term \in Terms /\ query.limit \in Nat
        /\ Hits(query.vectors) /\ Positive(query.vectors) /\ Hits(query.text) /\ Positive(query.text)
        /\ Hits(query.exact) /\ Positive(query.exact)
    BY DEF FoundHits, ExpandAndAnswer
  <1>3. Hits(graph) /\ Positive(graph)
    BY <1>2, SearchesHit
  <1> HIDE DEF graph, payloads
  <1>4. reranked \in SUBSET DOMAIN PreRerank(query, graph)
    BY DEF Reranked, RankedIds
  <1> DEFINE final == FinalScores(query, graph, reranked)
  <1>5. Hits(final)
    BY <1>2, <1>3, <1>4, FinalIs
  <1>6. ASSUME NEW a \in DOMAIN final, NEW b \in DOMAIN final,
               Score(query.vectors, a) >= Score(query.vectors, b),
               Score(query.text, a) >= Score(query.text, b),
               Score(query.exact, a) >= Score(query.exact, b),
               Score(graph, a) >= Score(graph, b),
               a \in reranked <=> b \in reranked,
               a \in reranked => RerankScore(query.term, a) >= RerankScore(query.term, b)
        PROVE  final[a] >= final[b]
    <2>1. /\ Dominates(query.vectors, a, b) /\ Dominates(query.text, a, b)
          /\ Dominates(query.exact, a, b) /\ Dominates(graph, a, b)
      BY <1>2, <1>3, <1>6, ScoreDominates
    <2> QED
      BY <1>2, <1>3, <1>4, <1>6, <2>1, FinalIs
  <1> DEFINE channels == <<query.vectors, query.text, query.exact, graph>>
  <1>7. /\ query'.scores = final /\ query'.reranked = reranked /\ query'.term = query.term
        /\ query'.chunks = RankedIds(final, query.limit) /\ query'.channels = channels
    BY <1>1
  <1>8. /\ 1 \in DOMAIN channels /\ 2 \in DOMAIN channels /\ 3 \in DOMAIN channels /\ 4 \in DOMAIN channels
        /\ channels[1] = query.vectors /\ channels[2] = query.text
        /\ channels[3] = query.exact /\ channels[4] = graph
    OBVIOUS
  <1> HIDE DEF final, pre, channels
  <1> SUFFICES ASSUME NEW a \in DOMAIN final, NEW b \in DOMAIN final,
                      \A i \in DOMAIN channels : Score(channels[i], a) >= Score(channels[i], b),
                      a \in reranked <=> b \in reranked,
                      a \in reranked => RerankScore(query.term, a) >= RerankScore(query.term, b)
               PROVE  /\ final[a] >= final[b]
                      /\ b \in RankedIds(final, query.limit) /\ a \notin RankedIds(final, query.limit)
                            => final[a] = final[b]
    BY <1>7 DEF BetterHitFirst
  <1>9. /\ Score(query.vectors, a) >= Score(query.vectors, b) /\ Score(query.text, a) >= Score(query.text, b)
        /\ Score(query.exact, a) >= Score(query.exact, b) /\ Score(graph, a) >= Score(graph, b)
    BY <1>8, Zenon
  <1>10. final[a] >= final[b]
    BY <1>6, <1>9
  <1> QED
    BY <1>2, <1>5, <1>10, RankedFirst

LEMMA QueryOrdered ==
    ASSUME Stocked, Sighted,
           \/ SearchVectors \/ SearchText \/ SearchExact
           \/ ExpandSeeds \/ ExpandEdges \/ ExpandAliases \/ ExpandAndAnswer
    PROVE  Sighted'
  <1>1. /\ query # None /\ query.stage # "answered"
        /\ query = [f \in Fields |-> query[f]]
        /\ query.term \in Terms /\ query.terms \in Seq(Terms)
        /\ query.bonus \in Int /\ query.limit \in Nat
        /\ Hits(query.vectors) /\ Positive(query.vectors)
        /\ Hits(query.text) /\ Positive(query.text)
        /\ Hits(query.exact) /\ Positive(query.exact)
        /\ Hits(query.found)
    BY DEF Sighted, FoundHits, SearchVectors, SearchText, SearchExact,
           ExpandSeeds, ExpandEdges, ExpandAliases, ExpandAndAnswer
  <1>0. /\ Hits(VectorHits(query)) /\ Positive(VectorHits(query))
        /\ Hits(TextHits(query)) /\ Positive(TextHits(query))
        /\ \A n : Hits(ExactHits(query, n)) /\ Positive(ExactHits(query, n))
    BY <1>1, SearchesHit
  <1>2. CASE SearchVectors
    <2> DEFINE payloads == Collected(query.payloads, Payloads("points", PointsOf(query), VectorHits(query)))
    <2>1. CASE query' = Status("not_found") \/ query' = Status("internal_error")
      BY <2>1 DEF Status, Sighted, FoundHits, BetterHitFirst, Answered
    <2>2. CASE query' = [query EXCEPT !.stage = "text", !.vectors = VectorHits(query), !.payloads = payloads]
      <3> HIDE DEF payloads
      <3> QED
        BY <1>0, <1>1, <2>2 DEF Fields, Sighted, FoundHits, BetterHitFirst, Answered
    <2>3. \/ query' = Status("not_found") \/ query' = Status("internal_error")
          \/ query' = [query EXCEPT !.stage = "text", !.vectors = VectorHits(query), !.payloads = payloads]
      BY <1>1, <1>2 DEF SearchVectors, Fields
    <2> QED
      BY <2>1, <2>2, <2>3
  <1>3. CASE SearchText
    <2> DEFINE payloads == Collected(Payloads("rows", RowsOf(query), TextHits(query)), query.payloads)
    <2>1. query' = [query EXCEPT !.stage = "exact", !.text = TextHits(query), !.payloads = payloads]
      BY <1>1, <1>3 DEF SearchText, Fields
    <2> HIDE DEF payloads
    <2> QED
      BY <1>0, <1>1, <2>1 DEF Fields, Sighted, FoundHits, BetterHitFirst, Answered
  <1>4. CASE SearchExact
    <2> DEFINE hits == ExactHits(query, ExactK)
               payloads == Collected(query.payloads, Payloads("rows", RowsOf(query), hits))
    <2>1. query' = [query EXCEPT !.stage = "seeds", !.exact = hits, !.payloads = payloads]
      BY <1>1, <1>4 DEF SearchExact, Fields
    <2>2. Hits(hits) /\ Positive(hits)
      BY <1>0
    <2> HIDE DEF payloads, hits
    <2> QED
      BY <1>1, <2>1, <2>2 DEF Fields, Sighted, FoundHits, BetterHitFirst, Answered
  <1>5. CASE ExpandSeeds \/ ExpandEdges \/ ExpandAliases
    <2>1. /\ query'.stage # "answered" /\ query' = [f \in Fields |-> query'[f]]
          /\ query'.term = query.term /\ query'.terms = query.terms
          /\ query'.bonus = query.bonus /\ query'.limit = query.limit
          /\ query'.vectors = query.vectors /\ query'.text = query.text /\ query'.exact = query.exact
          /\ query'.found = query.found
      <3>1. /\ query'.stage # "answered" /\ query' = [f \in Fields |-> query'[f]]
            /\ \A f \in Fields \ {"stage", "seeds", "targets", "unresolved"} : query'[f] = query[f]
        BY <1>1, <1>5, ExpansionKeeps
      <3> QED
        BY <3>1 DEF Fields
    <2> QED
      BY <1>1, <2>1 DEF Sighted, FoundHits, BetterHitFirst, Answered
  <1>6. CASE ExpandAndAnswer
    <2>1. query'.stage = "answered"
      BY <1>6 DEF ExpandAndAnswer
    <2> QED
      BY <1>6, <2>1, AnswerOrdered DEF Sighted, FoundHits
  <1> QED
    BY <1>2, <1>3, <1>4, <1>5, <1>6

LEMMA LookupOrdered ==
    ASSUME Stocked, Sighted, LookupText \/ LookupFields \/ LookupExact
    PROVE  Sighted'
  <1>1. /\ query # None /\ query.stage # "answered"
        /\ query = [f \in Fields |-> query[f]]
        /\ query.term \in Terms /\ query.terms \in Seq(Terms)
        /\ query.bonus \in Int /\ query.limit \in Nat
        /\ Hits(query.vectors) /\ Positive(query.vectors)
        /\ Hits(query.text) /\ Positive(query.text)
        /\ Hits(query.exact) /\ Positive(query.exact)
        /\ Hits(query.found)
    BY DEF Sighted, FoundHits, LookupText, LookupFields, LookupExact
  <1>0. /\ Hits(Kept(query, TextHits(query), 100, 100))
        /\ Hits(Kept(query, FieldHits(query), 100, 200))
        /\ Hits(Kept(query, ExactHits(query, query.pool), 25, 300))
    <2>1. 25 \in Int /\ 100 \in Int /\ 200 \in Int /\ 300 \in Int
      OBVIOUS
    <2>2. /\ Hits(TextHits(query)) /\ Hits(FieldHits(query))
          /\ Hits(ExactHits(query, query.pool))
      BY <1>1, SearchesHit
    <2>3. Hits(Kept(query, TextHits(query), 100, 100))
      BY <1>1, <2>1, <2>2, KeptHits
    <2>4. Hits(Kept(query, FieldHits(query), 100, 200))
      BY <1>1, <2>1, <2>2, KeptHits
    <2>5. Hits(Kept(query, ExactHits(query, query.pool), 25, 300))
      BY <1>1, <2>1, <2>2, KeptHits
    <2> QED
      BY <2>3, <2>4, <2>5
  <1>2. CASE LookupText
    <2> DEFINE found == Kept(query, TextHits(query), 100, 100)
               payloads == KeptPayloads(query, TextHits(query))
    <2>1. query' = [query EXCEPT !.stage = "lookup_fields", !.found = found, !.payloads = payloads]
      BY <1>2 DEF LookupText
    <2>2. Hits(found)
      BY <1>0
    <2> HIDE DEF found, payloads
    <2> QED
      BY <1>1, <2>1, <2>2 DEF Fields, Sighted, FoundHits, BetterHitFirst, Answered
  <1>3. CASE LookupFields
    <2> DEFINE found == Kept(query, FieldHits(query), 100, 200)
               payloads == KeptPayloads(query, FieldHits(query))
    <2>1. query' = [query EXCEPT !.stage = "lookup_exact", !.found = found, !.payloads = payloads]
      BY <1>3 DEF LookupFields
    <2>2. Hits(found)
      BY <1>0
    <2> HIDE DEF found, payloads
    <2> QED
      BY <1>1, <2>1, <2>2 DEF Fields, Sighted, FoundHits, BetterHitFirst, Answered
  <1>4. CASE LookupExact
    <2> DEFINE found == Kept(query, ExactHits(query, query.pool), 25, 300)
               payloads == KeptPayloads(query, ExactHits(query, query.pool))
               bonus == Max({0, query.bonus - 1})
    <2>0. bonus \in Int
      <3>1. {0, query.bonus - 1} \in SUBSET Int /\ {0, query.bonus - 1} # {}
        BY <1>1
      <3>2. IsFiniteSet({0, query.bonus - 1})
        <4>1. {0, query.bonus - 1} = {0} \cup {query.bonus - 1}
          OBVIOUS
        <4>2. IsFiniteSet({0})
          BY FS_Singleton
        <4>3. IsFiniteSet({0} \cup {query.bonus - 1})
          BY <4>2, FS_AddElement, Zenon
        <4> QED
          BY <4>1, <4>3
      <3>3. Max({0, query.bonus - 1}) \in {0, query.bonus - 1}
        BY <3>1, <3>2, Extremes, Zenon
      <3> QED
        BY <1>1, <3>3
    <2>1. \/ /\ query.terms # <<>>
             /\ query' = [query EXCEPT !.stage = "lookup_text", !.found = found, !.payloads = payloads,
                                       !.term = Head(query.terms), !.terms = Tail(query.terms),
                                       !.bonus = Max({0, @ - 1})]
          \/ query' = [stage |-> "answered", status |-> "ok", filters |-> query.filters,
                       term |-> query.term, scores |-> found, reranked |-> {}, channels |-> <<found>>,
                       payloads |-> payloads, chunks |-> RankedIds(found, query.limit)]
      BY <1>4 DEF LookupExact
    <2>2. Hits(found)
      BY <1>0
    <2> HIDE DEF found, bonus, payloads
    <2>3. CASE /\ query.terms # <<>>
               /\ query' = [query EXCEPT !.stage = "lookup_text", !.found = found, !.payloads = payloads,
                                         !.term = Head(query.terms), !.terms = Tail(query.terms),
                                         !.bonus = Max({0, @ - 1})]
      <3>1. /\ query'.stage = "lookup_text" /\ query'.found = found /\ query'.limit = query.limit
            /\ query'.term = Head(query.terms) /\ query'.terms = Tail(query.terms) /\ query'.bonus = bonus
            /\ query'.vectors = query.vectors /\ query'.text = query.text /\ query'.exact = query.exact
            /\ query' = [f \in Fields |-> query'[f]]
        BY <1>1, <2>3 DEF Fields, bonus
      <3>2. Head(query.terms) \in Terms /\ Tail(query.terms) \in Seq(Terms)
        BY <1>1, <2>3, HeadTailProperties
      <3> QED
        BY <1>1, <2>0, <2>2, <3>1, <3>2 DEF Sighted, FoundHits, BetterHitFirst, Answered
    <2>4. CASE query' = [stage |-> "answered", status |-> "ok", filters |-> query.filters,
                         term |-> query.term, scores |-> found, reranked |-> {}, channels |-> <<found>>,
                         payloads |-> payloads, chunks |-> RankedIds(found, query.limit)]
      <3>1. /\ query'.stage = "answered" /\ query'.scores = found /\ query'.reranked = {}
            /\ query'.channels = <<found>> /\ query'.chunks = RankedIds(found, query.limit)
        BY <2>4
      <3>2. ASSUME NEW a \in DOMAIN found, NEW b \in DOMAIN found, Score(found, a) >= Score(found, b)
            PROVE  /\ found[a] >= found[b]
                   /\ b \in RankedIds(found, query.limit) /\ a \notin RankedIds(found, query.limit)
                         => found[a] = found[b]
        <4>1. found[a] >= found[b]
          BY <3>2 DEF Score
        <4> QED
          BY <1>1, <2>2, <4>1, RankedFirst
      <3>3. 1 \in DOMAIN <<found>> /\ <<found>>[1] = found
        OBVIOUS
      <3>4. BetterHitFirst'
        BY <3>1, <3>2, <3>3 DEF BetterHitFirst
      <3> QED
        BY <3>1, <3>4 DEF Sighted, FoundHits
    <2> QED
      BY <2>1, <2>3, <2>4
  <1> QED
    BY <1>2, <1>3, <1>4

\* Every step of the worker and of the service keeps the order.
LEMMA NextOrdered == Ordered /\ [Next]_vars => Ordered'
  <1> SUFFICES ASSUME Ordered, [Next]_vars PROVE Ordered'
    OBVIOUS
  <1>1. Sound' /\ Stocked'
    <2>1. [IndexNext]_indexVars
      BY DEF Next, QueryNext, WorkerNext, vars, Ask, SearchVectors, SearchText, SearchExact,
             ExpandSeeds, ExpandEdges, ExpandAliases, ExpandAndAnswer, LookupText, LookupFields, LookupExact, Delivered
    <2> QED
      BY <2>1, NextSound, NextStocked DEF Ordered
  <1>2. CASE query' = query
    BY <1>1, <1>2 DEF Ordered, FoundHits, BetterHitFirst, Answered
  <1>3. CASE /\ query # None /\ query.stage # "answered"
             /\ query' = [query EXCEPT !.overlap = @ + 1]
    <2>1. Sighted'
      BY <1>3 DEF Fields, Ordered, Sighted, FoundHits, BetterHitFirst, Answered
    <2> QED
      BY <1>1, <2>1 DEF Ordered, Sighted
  <1>4. CASE QueryNext
    <2>1. CASE Delivered
      BY <1>1, <2>1 DEF Delivered, Ordered, FoundHits, BetterHitFirst, Answered
    <2>2. CASE Ask \/ SearchVectors \/ SearchText \/ SearchExact
               \/ ExpandSeeds \/ ExpandEdges \/ ExpandAliases \/ ExpandAndAnswer
               \/ LookupText \/ LookupFields \/ LookupExact
      <3>1. Stocked /\ Sighted
        BY DEF Ordered, Sighted
      <3>2. Sighted'
        BY <2>2, <3>1, AskOrdered, QueryOrdered, LookupOrdered
      <3> QED
        BY <1>1, <3>2 DEF Ordered, Sighted
    <2> QED
      BY <1>4, <2>1, <2>2 DEF QueryNext
  <1> QED
    BY <1>2, <1>3, <1>4 DEF Next, WorkerNext, vars

---------------------------------------------------------------------------
(* The theorems                                                             *)

\* Every chunk of an answer passes the requested filters and the defaults of
\* the corpus, as the store its payload is from reads them, whatever the worker
\* writes between the searches.
THEOREM AnswerAlwaysFiltered == Spec => []AnswerFiltered
  <1>1. Filtered => AnswerFiltered
    BY DEF Filtered
  <1> QED
    BY <1>1, InitFiltered, NextFiltered, PTL DEF Spec

\* A chunk that no search ranks below another one does not get the lower score,
\* nor is it left out for the other, for any scores, weights of the two kinds of
\* query, limits and reranking, whatever the worker writes between the searches.
THEOREM BetterHitAlwaysFirst == Spec => []BetterHitFirst
  <1>1. Ordered => BetterHitFirst
    BY DEF Ordered
  <1> QED
    BY <1>1, InitOrdered, NextOrdered, PTL DEF Spec

\* The service only reads: with it, the indexes are still those of GraphIndex.
THEOREM RetrievalOnlyReads == Spec => IndexSpec
  <1>1. Init => IndexInit
    BY DEF Init
  <1>2. [Next]_vars => [IndexNext]_indexVars
    BY DEF Next, QueryNext, WorkerNext, vars, Ask, SearchVectors, SearchText, SearchExact,
           ExpandSeeds, ExpandEdges, ExpandAliases, ExpandAndAnswer, LookupText, LookupFields, LookupExact, Delivered
  <1> QED
    BY <1>1, <1>2, PTL DEF Spec, IndexSpec

=============================================================================
