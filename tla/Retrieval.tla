----------------------------- MODULE Retrieval -----------------------------
(***************************************************************************)
(* The retrieval service over the indexes of one corpus, while the worker  *)
(* rewrites them: the hybrid query and the lexical lookup                   *)
(* (retrieval_api/app: hybrid_retrieval.py, sqlite_fts_client.py,           *)
(* qdrant_client.py, reranker.py, registry_client.py, main.py).             *)
(*                                                                         *)
(* Every search is a read of its own, so the worker may delete and write    *)
(* between two of them.  Hits are kept by chunk id, with the chunk as the    *)
(* searched store had it.  Scores are small numbers; an edge weighs by the   *)
(* rank of its weight.                                                      *)
(***************************************************************************)
EXTENDS GraphIndex, FiniteSetsExt, SequencesExt

CONSTANTS
    Requests,            \* what clients ask: kind, terms, filters, limit, and
                         \* the size of one search's pool
    Corpora,             \* what the registry may answer for the corpus
    VectorScore(_, _),   \* of a term and a chunk id, 1 or more
    TextScore(_, _),     \* 0: the terms are not all in the text
    FieldScore(_, _),    \* 4: a field is the term, 3: contains it, 1: the text does, 0
    RerankScore(_, _),
    QueryAliases(_),     \* extract_query_aliases
    PrefersExact(_),     \* _prefers_exact_matching
    Precedes(_, _),      \* the order of chunk ids
    EdgePrecedes(_, _),  \* the order of edge keys
    ListFields,          \* metadata whose value is a list, but for tags
    RowFields,           \* environment, tenant_id, corpus_id, source_id
    ExactK,              \* the effective pools: the larger of the setting
    GraphK, RerankK,     \* and a multiple of the limit
    EdgeK,               \* eight times GraphK, at least 48
    MaxRerank,           \* RERANKER_MAX_CANDIDATES
    MaxOverlap           \* bound: steps of the worker during one request

Ids(cs) == {c.id : c \in cs}

KnownChunks == UNION {ChunksOf(d, v) : d \in Docs, v \in Versions}

KnownIds == Ids(KnownChunks)

Terms == UNION {ToSet(r.terms) : r \in Requests}

\* Scores can be compared, whichever term is scored against whichever chunk.
ASSUME ScoresAssumption ==
    \A term \in Terms : \A id \in KnownIds :
        /\ VectorScore(term, id) \in Int /\ TextScore(term, id) \in Int
        /\ FieldScore(term, id) \in Int /\ RerankScore(term, id) \in Int

\* A request has a limit and a term (a lookup of nothing but blanks finds nothing).
ASSUME RequestsAssumption ==
    \A r \in Requests : r.terms \in Seq(Terms) \ {<<>>} /\ r.limit \in Nat

VARIABLE query           \* the request being answered, or None

vars == <<indexVars, query>>

---------------------------------------------------------------------------
(* Corpus and filters                                                       *)

\* get_corpus: a named profile has to exist, to be enabled and to be hybrid.
ProfileUsable(corpus) == corpus.profile \in {"none", "hybrid"}

\* merge_default_filters: a requested field overrides the default of the field.
Merged(corpus, filters) == [f \in DOMAIN filters \cup DOMAIN corpus.defaults |->
    IF f \in DOMAIN filters THEN filters[f] ELSE corpus.defaults[f]]

\* invalid_filter_fields; what the defaults name is allowed.
FieldsAllowed(corpus, filters) ==
    corpus.strict => DOMAIN filters \subseteq corpus.fields \cup DOMAIN corpus.defaults

Values(chunk, f) == IF f \in DOMAIN chunk.type THEN chunk.type[f] ELSE {}

\* _build_filter_sql: a tag is looked up in the list of tags; any other list of
\* the metadata is compared as a whole, which no requested value equals.
RowAccepted(chunk, filters) ==
    \A f \in DOMAIN filters : f \notin ListFields /\ Values(chunk, f) \cap filters[f] # {}

\* _filters_to_qdrant: a list matches by its members; what the writer adds to
\* the metadata of a row is not in the metadata of a point, where it is sought.
PointAccepted(chunk, filters) ==
    \A f \in DOMAIN filters : f \notin RowFields /\ Values(chunk, f) \cap filters[f] # {}

---------------------------------------------------------------------------
(* Ranking                                                                  *)

NoHits == <<>>   \* a channel without hits

Score(hits, id) == IF id \in DOMAIN hits THEN hits[id] ELSE 0

\* _ranked_ids: by score, then by id.
Ahead(hits, a, b) ==
    hits[a] > hits[b] \/ (hits[a] = hits[b] /\ Precedes(a, b))

RankedIds(hits, limit) ==
    {c \in DOMAIN hits : Cardinality({x \in DOMAIN hits \ {c} : Ahead(hits, x, c)}) < limit}

Top(hits, limit) == [c \in RankedIds(hits, limit) |-> hits[c]]

Highest(hits) == Max({hits[c] : c \in DOMAIN hits})

Lowest(hits) == Min({hits[c] : c \in DOMAIN hits})

\* Mutant: scores taken for distances.
NormalizedInverted(hits) == [c \in DOMAIN hits |->
    IF Highest(hits) = Lowest(hits) THEN 1 ELSE Highest(hits) - hits[c]]

\* _normalize_scores, as numerators over Spread: the lowest hit gets 0, and
\* hits that are all equal get 1.
Spread(hits) ==
    IF hits = NoHits \/ Highest(hits) = Lowest(hits) THEN 1 ELSE Highest(hits) - Lowest(hits)

Normalized(hits) == [c \in DOMAIN hits |->
    IF Highest(hits) = Lowest(hits) THEN 1 ELSE hits[c] - Lowest(hits)]

\* _blend_channels, over the product of the spreads and of the weights' unit.
Denominator(channels) == FoldLeft(LAMBDA acc, ch : acc * Spread(ch[1]), 1, channels)

Blend(channels) ==
    LET part(ch, c) == ch[2] * Score(Normalized(ch[1]), c) * (Denominator(channels) \div Spread(ch[1]))
    IN  [c \in UNION {DOMAIN channels[i][1] : i \in DOMAIN channels} |->
            FoldLeft(LAMBDA acc, ch : acc + part(ch, c), 0, channels)]

---------------------------------------------------------------------------
(* The searches                                                             *)

\* The chunks of a store that pass its filter.
PointsOf(q) == {c \in points : PointAccepted(c, q.filters)}

RowsOf(q) == {c \in chunks : RowAccepted(c, q.filters)}

\* What scores at all is found.
Matching(scores) == [id \in {x \in DOMAIN scores : scores[x] > 0} |-> scores[id]]

VectorHits(q) == Top(Matching([id \in Ids(PointsOf(q)) |-> VectorScore(q.term, id)]), q.pool)

TextHits(q) == Top(Matching([id \in Ids(RowsOf(q)) |-> TextScore(q.term, id)]), q.pool)

FieldHits(q) == Top(Matching([id \in Ids(RowsOf(q)) |-> FieldScore(q.term, id)]), q.pool)

\* Fives and threes for 1.25 and 0.75.
ExactScore(q, id) ==
    LET as == {l \in links : l.chunk = id /\ \E x \in aliases : x[1] = l.node /\ x[2] \in QueryAliases(q.term)}
    IN  IF \E l \in as : l.role = "primary" THEN 5 ELSE IF as # {} THEN 3 ELSE 0

ExactHits(q, limit) == Top(Matching([id \in Ids(RowsOf(q)) |-> ExactScore(q, id)]), limit)

\* The payloads of hits, as the store had them.
Payloads(store, cs, hits) ==
    [id \in DOMAIN hits |-> [store |-> store, chunk |-> CHOOSE c \in cs : c.id = id]]

\* _collect_hits: one payload for an id, that of the hits collected last.
Collected(earlier, later) == [id \in DOMAIN earlier \cup DOMAIN later |->
    IF id \in DOMAIN later THEN later[id] ELSE earlier[id]]

---------------------------------------------------------------------------
(* The expansion by the graph: four statements, each a read of its own       *)

SeedNodes(ids) == {l.node : l \in {x \in links : x.role = "primary" /\ x.chunk \in ids}}

\* The rank of weight * role: 1, 0.8, 0.64, 0.45, 0.36.
EdgeRank(type, role) ==
    CASE type \in {"part_of", "has_section"} -> IF role = "primary" THEN 5 ELSE 4
      [] type = "refers_to" -> IF role = "primary" THEN 4 ELSE 3
      [] type \in {"next", "prev"} -> IF role = "primary" THEN 2 ELSE 1

Weight(e) == EdgeRank(e.type, "primary")

\* The heaviest edges out of the seeds.
FirstEdges(seeds) ==
    LET from == {e \in edges : e.src \in seeds}
        before(x, e) == Weight(x) > Weight(e) \/ (Weight(x) = Weight(e) /\ EdgePrecedes(x, e))
    IN  {e \in from : Cardinality({x \in from \ {e} : before(x, e)}) < EdgeK}

\* An edge without a node leads to the nodes that have its alias now.
LeadsTo(e, node) == e.dst = node \/ (e.dst = None /\ <<node, e.alias>> \in aliases)

\* The last statement joins all edges out of the seeds, not the heaviest alone.
GraphScore(q, id) ==
    LET ranks == {EdgeRank(p[1].type, p[2].role) :
                  p \in {y \in edges \X links : /\ y[1].src \in q.seeds /\ LeadsTo(y[1], y[2].node)
                                               /\ y[2].chunk = id /\ y[2].node \in q.targets}}
    IN  Max(ranks \cup {0})

\* Mutant: the neighbours are not filtered.
NeighboursUnfiltered(q) == {c \in chunks : GraphScore(q, c.id) > 0}

Neighbours(q) == {c \in RowsOf(q) : GraphScore(q, c.id) > 0}

GraphHits(q) == Top([id \in Ids(Neighbours(q)) |-> GraphScore(q, id)], GraphK)

---------------------------------------------------------------------------
(* The hybrid query                                                         *)

\* Weights in twentieths: 0.50, 0.35, 0.15, or 0.25, 0.45, 0.30.
Weights(term) == IF PrefersExact(term) THEN <<5, 9, 6>> ELSE <<10, 7, 3>>

Blended(q) ==
    LET w == Weights(q.term)
    IN  Blend(<<<<q.vectors, w[1]>>, <<q.text, w[2]>>, <<q.exact, w[3]>>>>)

\* 0.84 and 0.16 in twenty-fifths.
PreRerank(q, graph) == Blend(<<<<Blended(q), 21>>, <<graph, 4>>>>)

PreUnit(q, graph) == 25 * Denominator(<<<<Blended(q), 21>>, <<graph, 4>>>>)

\* rerank_hits scores the first candidates; one candidate is not worth it.
Reranked(q, pre) ==
    LET candidates == RankedIds(pre, RerankK)
    IN  IF Cardinality(candidates) <= 1 THEN {} ELSE RankedIds([c \in candidates |-> pre[c]], MaxRerank)

\* The final scores in a common unit: 0.35 and 0.65 of what was reranked, and
\* the scores before it of the others.
FinalScores(q, graph, reranked) ==
    LET pre == PreRerank(q, graph)
        before == [c \in reranked |-> pre[c]]
        after == [c \in reranked |-> RerankScore(q.term, c)]
        channels == <<<<before, 7>>, <<after, 13>>>>
        unit == 20 * Denominator(channels)
        mixed == Blend(channels)
    IN  IF reranked = {} THEN pre
        ELSE [c \in DOMAIN pre |->
                IF c \in reranked THEN mixed[c] * PreUnit(q, graph) ELSE pre[c] * unit]

Status(code) == [stage |-> "answered", status |-> code]

\* The registry and the profile first; a query then wants one of the two
\* indexes and a lookup the lexical file.  A query is embedded before its
\* filters are checked.
Refusal(corpus, request) ==
    IF ~corpus.known THEN "not_found"
    ELSE IF ~ProfileUsable(corpus) THEN "misconfigured"
    ELSE IF opened \cap (IF request.kind = "query" THEN {"file", "collection"} ELSE {"file"}) = {}
         THEN "not_found"
    ELSE IF ~FieldsAllowed(corpus, Merged(corpus, request.filters)) THEN "invalid_filters"
    ELSE "none"

Started(corpus, request) ==
    [stage |-> IF request.kind = "query" THEN "vectors" ELSE "lookup_text",
     term |-> Head(request.terms), terms |-> Tail(request.terms), bonus |-> 100,
     filters |-> Merged(corpus, request.filters), limit |-> request.limit, pool |-> request.pool,
     vectors |-> NoHits, text |-> NoHits, exact |-> NoHits, found |-> NoHits, payloads |-> NoHits,
     seeds |-> {}, targets |-> {}, unresolved |-> {}, overlap |-> 0]

\* The embedder may fail, which is an internal error.
Ask ==
    /\ query = None
    /\ \E corpus \in Corpora, request \in Requests :
          LET refusal == Refusal(corpus, request)
          IN  \/ query' = IF refusal = "none" THEN Started(corpus, request) ELSE Status(refusal)
              \/ request.kind = "query" /\ query' = Status("internal_error")
    /\ UNCHANGED indexVars

\* Without a collection the search says not found, whatever the rows hold.
SearchVectors ==
    /\ query # None /\ query.stage = "vectors"
    /\ \/ LET hits == VectorHits(query)
          IN  query' = IF "collection" \in opened
                       THEN [query EXCEPT !.stage = "text", !.vectors = hits,
                                          !.payloads = Collected(@, Payloads("points", PointsOf(query), hits))]
                       ELSE Status("not_found")
       \/ query' = Status("internal_error")
    /\ UNCHANGED indexVars

\* The hits of the text are collected before those of the vectors.
SearchText ==
    /\ query # None /\ query.stage = "text"
    /\ LET hits == TextHits(query)
       IN  query' = [query EXCEPT !.stage = "exact", !.text = hits,
                                  !.payloads = Collected(Payloads("rows", RowsOf(query), hits), @)]
    /\ UNCHANGED indexVars

SearchExact ==
    /\ query # None /\ query.stage = "exact"
    /\ LET hits == ExactHits(query, ExactK)
       IN  query' = [query EXCEPT !.stage = "seeds", !.exact = hits,
                                  !.payloads = Collected(@, Payloads("rows", RowsOf(query), hits))]
    /\ UNCHANGED indexVars

\* Without seeds there are no edges, and without targets no neighbours: the
\* statements the code then skips would find nothing.
ExpandSeeds ==
    /\ query # None /\ query.stage = "seeds"
    /\ query' = [query EXCEPT !.stage = "edges", !.seeds = SeedNodes(RankedIds(Blended(query), query.pool))]
    /\ UNCHANGED indexVars

ExpandEdges ==
    /\ query # None /\ query.stage = "edges"
    /\ LET found == FirstEdges(query.seeds)
       IN  query' = [query EXCEPT !.stage = "aliases", !.targets = {e.dst : e \in found} \ {None},
                                  !.unresolved = {e.alias : e \in {x \in found : x.dst = None}}]
    /\ UNCHANGED indexVars

ExpandAliases ==
    /\ query # None /\ query.stage = "aliases"
    /\ query' = [query EXCEPT !.stage = "neighbours", !.unresolved = {},
                              !.targets = @ \cup {x[1] : x \in {y \in aliases : y[2] \in query.unresolved}}]
    /\ UNCHANGED indexVars

\* The reranker is off, cannot be loaded, fails, or scores.  Every ranked id has
\* its payload, so none is fetched.
ExpandAndAnswer ==
    /\ query # None /\ query.stage = "neighbours"
    /\ LET graph == GraphHits(query)
       IN  \E reranked \in {{}, Reranked(query, PreRerank(query, graph))} :
             LET final == FinalScores(query, graph, reranked)
             IN  query' = [stage |-> "answered", status |-> "ok", filters |-> query.filters,
                           term |-> query.term, scores |-> final, reranked |-> reranked,
                           channels |-> <<query.vectors, query.text, query.exact, graph>>,
                           payloads |-> Collected(query.payloads, Payloads("rows", Neighbours(query), graph)),
                           chunks |-> RankedIds(final, query.limit)]
    /\ UNCHANGED indexVars

---------------------------------------------------------------------------
(* The lookup: three searches for each term, the best score of each chunk    *)

\* Hundredths: the hit's score, the weight of the search, the term's bonus.
Kept(q, hits, unit, base) == [c \in DOMAIN q.found \cup DOMAIN hits |->
    Max({Score(q.found, c)} \cup (IF c \in DOMAIN hits THEN {unit * hits[c] + base + q.bonus} ELSE {}))]

KeptPayloads(q, hits) == Collected(q.payloads, Payloads("rows", RowsOf(q), hits))

LookupText ==
    /\ query # None /\ query.stage = "lookup_text"
    /\ LET hits == TextHits(query)
       IN  query' = [query EXCEPT !.stage = "lookup_fields", !.found = Kept(query, hits, 100, 100),
                                  !.payloads = KeptPayloads(query, hits)]
    /\ UNCHANGED indexVars

LookupFields ==
    /\ query # None /\ query.stage = "lookup_fields"
    /\ LET hits == FieldHits(query)
       IN  query' = [query EXCEPT !.stage = "lookup_exact", !.found = Kept(query, hits, 100, 200),
                                  !.payloads = KeptPayloads(query, hits)]
    /\ UNCHANGED indexVars

LookupExact ==
    /\ query # None /\ query.stage = "lookup_exact"
    /\ LET hits == ExactHits(query, query.pool)
           found == Kept(query, hits, 25, 300)
           payloads == KeptPayloads(query, hits)
       IN  query' =
             IF query.terms # <<>>
             THEN [query EXCEPT !.stage = "lookup_text", !.found = found, !.payloads = payloads,
                                !.term = Head(query.terms), !.terms = Tail(query.terms),
                                !.bonus = Max({0, @ - 1})]
             ELSE [stage |-> "answered", status |-> "ok", filters |-> query.filters,
                   term |-> query.term, scores |-> found, reranked |-> {}, channels |-> <<found>>,
                   payloads |-> payloads, chunks |-> RankedIds(found, query.limit)]
    /\ UNCHANGED indexVars

Delivered == query # None /\ query.stage = "answered" /\ query' = None /\ UNCHANGED indexVars

---------------------------------------------------------------------------
QueryNext ==
    Ask \/ SearchVectors \/ SearchText \/ SearchExact
    \/ ExpandSeeds \/ ExpandEdges \/ ExpandAliases \/ ExpandAndAnswer
    \/ LookupText \/ LookupFields \/ LookupExact \/ Delivered

\* The worker goes on while a request is searched.
WorkerNext ==
    /\ IndexNext
    /\ \/ query = None /\ UNCHANGED query
       \/ /\ query # None /\ query.stage # "answered" /\ query.overlap < MaxOverlap
          /\ query' = [query EXCEPT !.overlap = @ + 1]

Init == IndexInit /\ query = None

Next == WorkerNext \/ QueryNext

Spec == Init /\ [][Next]_vars

---------------------------------------------------------------------------
(* Properties                                                               *)

Answered == query # None /\ query.stage = "answered" /\ query.status = "ok"

\* A payload passes the filter of the store it is from.
Accepted(hit, filters) ==
    IF hit.store = "points" THEN PointAccepted(hit.chunk, filters) ELSE RowAccepted(hit.chunk, filters)

\* Filters are applied consistently: every chunk of an answer, the neighbours
\* the graph brought and the stale points included, passes the requested
\* filters and the defaults of the corpus, as the store its payload is from
\* reads them, though another search may have found another version under its id.
AnswerFiltered ==
    Answered => \A id \in query.chunks :
                    id \in DOMAIN query.payloads /\ Accepted(query.payloads[id], query.filters)

\* Higher is more relevant: a chunk that no search of the request ranks below
\* another one, and that the reranker scores no lower when it read both, does
\* not get the lower score, nor is it left out for the other.
BetterHitFirst ==
    Answered =>
        \A a, b \in DOMAIN query.scores :
            /\ \A i \in DOMAIN query.channels : Score(query.channels[i], a) >= Score(query.channels[i], b)
            /\ a \in query.reranked <=> b \in query.reranked
            /\ a \in query.reranked => RerankScore(query.term, a) >= RerankScore(query.term, b)
            => /\ query.scores[a] >= query.scores[b]
               /\ (b \in query.chunks /\ a \notin query.chunks) => query.scores[a] = query.scores[b]

=============================================================================
