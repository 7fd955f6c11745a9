---------------------------- MODULE MCRetrieval ----------------------------
(***************************************************************************)
(* Two documents.  A version is two chunks that refer to an alias, or a      *)
(* chunk with the same place and beginning, of another type, before two     *)
(* parts of one long block: their first chunks share an id.  Ids are        *)
(* ordered by document and place; scores go by section and place.           *)
(***************************************************************************)
EXTENDS Retrieval, TLC

CONSTANTS d1, d2

Block(section, as, refs) == [section |-> section, aliases |-> as, refs |-> refs]

Law == [doc_type |-> {"law"}, source_id |-> {"r"}, topics |-> {"tax", "trade"}]

Note == [doc_type |-> {"note"}, source_id |-> {"r"}, topics |-> {"tax"}]

Two == [blocks |-> <<Block("s1", {"x"}, {"y"}), Block("s3", {"y"}, {})>>, packs |-> <<<<1, 1>>, <<2, 2>>>>,
        aliases |-> {}, text |-> "t", type |-> Law]

Split == [blocks |-> <<Block("s1", {}, {}), Block(None, {}, {"x"})>>, packs |-> <<<<1, 1>>, <<2, 2>>, <<2, 2>>>>,
          aliases |-> {"y"}, text |-> "t", type |-> Note]

MCVersions == {Two, Split}

Place(id) == (IF id[1] = d1 THEN 0 ELSE 8) + 2 * id[3] + (IF id[2] = None THEN 1 ELSE 0)

MCPrecedes(i, j) == Place(i) < Place(j)

MCVectorScore(term, id) == IF id[3] = 1 THEN 2 ELSE 1

MCTextScore(term, id) ==
    IF term = "exact" THEN (IF id[2] = None /\ id[3] = 2 THEN 2 ELSE 0)
    ELSE IF id[2] = "s1" THEN 2 ELSE IF id[2] = "s3" THEN 1 ELSE 0

MCFieldScore(term, id) == IF id[1] = d1 THEN 4 ELSE IF id[2] = None THEN 0 ELSE 1

MCRerankScore(term, id) == IF id[1] = d1 THEN 1 ELSE 2

MCQueryAliases(term) == IF term = "exact" THEN {"x"} ELSE {}

MCPrefersExact(term) == term = "exact"

\* Edges by document, end, type and the other end.
EdgeNumber(e) ==
    LET number(n) == IF n = None THEN 0
                     ELSE (IF n[1] = d1 THEN 1 ELSE 4) + (CASE n[2] = "s1" -> 1 [] n[2] = "s3" -> 2 [] OTHER -> 0)
        type == CASE e.type = "part_of" -> 0 [] e.type = "has_section" -> 1 [] e.type = "refers_to" -> 2
                  [] e.type = "next" -> 3 [] e.type = "prev" -> 4
    IN  (number(e.src) * 5 + type) * 14 + 2 * number(e.dst) + (IF e.alias = "y" THEN 1 ELSE 0)

MCEdgePrecedes(e, f) == EdgeNumber(e) < EdgeNumber(f)

NoFilters == <<>>

Of(kind, terms, filters, limit) ==
    [kind |-> kind, terms |-> terms, filters |-> filters, limit |-> limit, pool |-> limit + 1]

MCRequests ==
    {Of("query", <<"plain">>, NoFilters, 2),
     Of("query", <<"exact">>, [doc_type |-> {"law"}], 2),
     Of("query", <<"plain">>, [topics |-> {"tax"}], 2),
     Of("lookup", <<"exact", "plain">>, [doc_type |-> {"note"}], 2)}

Corpus(known, profile, strict, fields, defaults) ==
    [known |-> known, profile |-> profile, strict |-> strict, fields |-> fields, defaults |-> defaults]

MCCorpora ==
    {Corpus(TRUE, "none", FALSE, {}, NoFilters),
     Corpus(TRUE, "hybrid", TRUE, {"doc_type"}, [doc_type |-> {"note"}, source_id |-> {"r"}]),
     Corpus(TRUE, "disabled", FALSE, {}, NoFilters),
     Corpus(FALSE, "none", FALSE, {}, NoFilters)}
=============================================================================
