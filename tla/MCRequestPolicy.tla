-------------------------- MODULE MCRequestPolicy --------------------------
(***************************************************************************)
(* Three configurations: two providers that share a model, with policies   *)
(* and keys that limit each other; one provider whose models have colons;  *)
(* a third with a type that has no adapter.                                *)
(***************************************************************************)
EXTENDS RequestPolicy, TLC

MCWords == {"", "m", "m-2", "old", "p1", "p2", "Local", "local", "a", "b"}

MCLower(name) == IF name = "Local" THEN "local" ELSE name

MCDated == {<<<<"m-2">>, <<"m">>>>}

Provider(name, models, chunking, controls) ==
    [name |-> name, type |-> "openai_compat", models |-> models, default |-> Empty, chunking |-> chunking,
     controls |-> controls, max_window |-> 8, default_window |-> None]

All == {"temperature", "max_tokens", "context_length"}

First == [Provider("p1", {<<"m">>, <<"old">>}, TRUE, All) EXCEPT !.default = <<"m">>]

Second == Provider("p2", {<<"m">>}, FALSE, {"temperature"})

Local == Provider("Local", {<<"a", "b">>}, TRUE, All)

Lists(providers, models) ==
    [enabled |-> TRUE, provider |-> "p1", model |-> <<"m">>, providers |-> providers, models |-> models]

Policy(providers, models, chunking) ==
    [corpora |-> {"docs"}, corpus |-> None, filters |-> [doc_type |-> "law"], providers |-> providers,
     models |-> models, provider |-> "p1", model |-> <<"m">>, max_input |-> 0, max_output |-> 2,
     max_total |-> 4, max_top_k |-> 3, chunking |-> chunking]

Key(token, scopes, pipeline, providers, models) ==
    [token |-> token, scopes |-> scopes, pipeline |-> pipeline, providers |-> providers, models |-> models,
     max_input |-> 6, max_output |-> 3, max_total |-> None, max_top_k |-> 2]

Config(providers, pipelines, keys) ==
    [providers |-> providers, pipelines |-> pipelines, keys |-> keys, corpus |-> "home", top_k |-> 8]

Writer == Policy({"p1"}, {<<"m">>, <<"p1", "old">>}, Lists({"p1"}, {<<"m">>}))

Reader == [Policy(None, None, NoChunking) EXCEPT !.corpus = "docs", !.corpora = {}]

KeyA == Key("a", {"models:list", "chat:invoke", "rag:query"}, None, {"p1", "p2"}, {<<"m">>, <<"m-2">>})

KeyB == [Key("b", {"admin:*"}, "writer", None, None) EXCEPT !.max_total = 0]

MCConfigs ==
    <<Config({First, Second}, [writer |-> Writer, default |-> Reader], {KeyA, KeyB}),
      Config({Local}, [reader |-> Reader, default |-> Writer],
             {[KeyA EXCEPT !.scopes = {"chat:invoke", "rag:query"}], KeyB}),
      Config({Local, [Second EXCEPT !.type = "new"]}, [writer |-> Writer], {KeyB})>>

Chat ==
    [kind |-> "chat", token |-> "a", pipeline |-> None, chunking |-> FALSE, model |-> Empty,
     temperature |-> None, max_tokens |-> None, context |-> None, corpus |-> None, top_k |-> None,
     max_results |-> None, filters |-> <<>>]

MCAsks ==
    {[Chat EXCEPT !.model = m, !.token = t, !.pipeline = p] :
        m \in {Empty, <<"m">>, <<"p2", "m">>}, t \in {"a", "b"}, p \in {None, "writer"}}
    \cup {[Chat EXCEPT !.token = "old", !.model = m] :
            m \in {<<"m-2">>, <<"old">>, <<"p2", "old">>, <<"p1", "">>, <<"Local", "a", "b">>}}
    \cup {[Chat EXCEPT !.chunking = TRUE, !.token = t, !.model = m] :
            t \in {"b", "old"}, m \in {Empty, <<"m">>, <<"p1", "old">>, <<"p2", "m">>}}
    \cup {[Chat EXCEPT !.model = <<"p1", "m">>, !.max_tokens = 5, !.context = 7],
          [Chat EXCEPT !.model = <<"p1", "m">>, !.token = "b", !.context = 7],
          [Chat EXCEPT !.model = <<"p2", "m">>, !.max_tokens = 1],
          [Chat EXCEPT !.token = "none"]}
    \cup {[Chat EXCEPT !.kind = "models", !.token = t, !.pipeline = p] :
            t \in {"a", "old"}, p \in {None, "writer", "reader"}}
    \cup {[Chat EXCEPT !.kind = k, !.pipeline = p, !.corpus = c, !.top_k = 4, !.filters = [owner |-> "us"]] :
            k \in {"query", "lookup"}, p \in {None, "writer", "default"}, c \in {None, "docs"}}
=============================================================================
