--------------------------- MODULE RequestPolicy ---------------------------
(***************************************************************************)
(* What a request to the orchestrator may do: the key it comes with, the   *)
(* pipeline it names, the provider and the model that follow from both,    *)
(* the list of models, the model id of an answer and the search that goes  *)
(* to the retrieval API (orchestrator_api/app/main.py, pipeline.py,        *)
(* auth.py, provider_settings.py, provider_registry.py).                   *)
(*                                                                         *)
(* Requests keep nothing that another request reads: one caller, with one  *)
(* request after the other, stands for all.  What happens beside a request *)
(* is a reload, in a thread, that replaces the globals one by one.         *)
(*                                                                         *)
(* A model id is the sequence of its parts between colons, <<"">> when it  *)
(* is empty.  A list of providers or models is a set, None when it is not  *)
(* given; so is a limit.                                                   *)
(***************************************************************************)
EXTENDS Integers, FiniteSets, Sequences

CONSTANTS
    Configs,      \* what the registry exports, one after the other
    Asks,         \* the requests of the caller
    Words,        \* what stands between the colons of a model id
    Lower(_),     \* str.lower
    Dated,        \* <<id, known>>: id is known with "-" and more behind it
    LegacyKey,    \* ORCHESTRATOR_API_KEY, or None
    Types,        \* the types of providers there are adapters for
    Window,       \* 8192
    None

ASSUME PolicyAssumption ==
    Len(Configs) \in Nat \ {0} /\ Window \in Nat \ {0}

Empty == <<"">>

Ids == Seq(Words) \ {<<>>}

\* What lower() made lower stays as it is, and it leaves no word empty.
ASSUME WordsAssumption ==
    /\ "" \in Words
    /\ \A word \in Words : /\ Lower(word) \in Words /\ Lower(Lower(word)) = Lower(word)
                           /\ Lower(word) = "" => word = ""

\* What begins with a dated name begins with the name.
ASSUME DatedAssumption ==
    /\ Dated \subseteq (Ids \ {Empty}) \X Ids
    /\ \A pair \in Dated : pair[1] # pair[2]
    /\ \A outer, inner \in Dated : outer[2] = inner[1] => <<outer[1], inner[2]>> \in Dated

\* A record with these fields at least.
Record(r, fields) == r = [field \in DOMAIN r |-> r[field]] /\ fields \subseteq DOMAIN r

\* Limits are numbers, lists are sets, and None is neither.
Bounds(x) ==
    /\ {x.max_input, x.max_output, x.max_total, x.max_top_k} \subseteq Int \cup {None}
    /\ \A list \in {x.providers, x.models} : list # None => \A part \in SUBSET list : part # None

\* What the checks of a request may answer instead of None.
Codes ==
    {"auth_not_configured", "unauthorized", "provider_resolution_failed", "invalid_provider",
     "forbidden_provider", "forbidden_model", "internal_error", "chunking_policy_disabled",
     "provider_chunking_disabled", "forbidden_chunking_provider", "forbidden_chunking_model",
     "unsupported_client_control"}

ASSUME NoneAssumption == None \notin Int /\ None \notin Codes

ASSUME ConfigsAssumption ==
    \A i \in 1 .. Len(Configs) :
        /\ Configs[i].top_k \in Int
        /\ \A pid \in DOMAIN Configs[i].pipelines :
              /\ pid # None /\ Bounds(Configs[i].pipelines[pid])
              /\ \A policy \in {Configs[i].pipelines[pid], Configs[i].pipelines[pid].chunking} :
                    policy.provider \in Words /\ policy.model \in Ids
        /\ \A key \in Configs[i].keys : Bounds(key)
        /\ \A key, other \in Configs[i].keys : key.token = other.token => key = other
        /\ IsFiniteSet(Configs[i].providers)
        /\ \A raw \in Configs[i].providers :
              /\ Record(raw, {"name", "models", "default", "max_window", "default_window"})
              /\ raw.name \in Words \ {""} /\ raw.models \subseteq Ids \ {Empty} /\ raw.default \in Ids
              /\ {raw.max_window, raw.default_window} \subseteq Int \cup {None}

ASSUME AsksAssumption ==
    \A ask \in Asks :
        /\ Record(ask, {"kind", "token", "pipeline", "chunking", "model", "temperature", "max_tokens",
                        "context", "corpus", "filters", "top_k", "max_results"})
        /\ ask.chunking \in BOOLEAN /\ ask.model \in Ids
        /\ ask.kind = "models" => ~ask.chunking /\ ask.temperature = None /\ ask.max_tokens = None
        /\ {ask.max_tokens, ask.context, ask.top_k, ask.max_results} \subseteq Int \cup {None}

VARIABLES
    disk,     \* the index of the configuration in the runtime files
    loaded,   \* the index each global was loaded from
    reload,   \* the global a reload replaces next, "none" without one
    request,  \* how far the request is
    told      \* history: what the last list or answer told the caller, as long
              \* as no global is replaced

vars == <<disk, loaded, reload, request, told>>

\* A record with the fields of another over its own: { **a, **b }.
Merged(under, over) ==
    [field \in DOMAIN under \cup DOMAIN over |->
        IF field \in DOMAIN over THEN over[field] ELSE under[field]]

Smallest(set) == CHOOSE n \in set : \A other \in set : n <= other

Given(values) == values \ {None}

PositiveOr(n, default) == IF n = None THEN default ELSE IF n <= 0 THEN default ELSE n

---------------------------------------------------------------------------
(* What the orchestrator makes of the files. *)

\* from_dict: the default model is one of the models, the windows are positive.
LoadProvider(raw) ==
    LET largest == PositiveOr(raw.max_window, Window)
    IN  [raw EXCEPT !.models = @ \cup (IF raw.default = Empty THEN {} ELSE {raw.default}),
                    !.max_window = largest,
                    !.default_window = Smallest({largest, PositiveOr(@, largest)})]

Definitions == {LoadProvider(raw) : raw \in Configs[loaded.settings].providers}

Definition(name) == {pdef \in Definitions : pdef.name = name}

ProviderNames == {raw.name : raw \in Configs[loaded.providers].providers}

ListedModels(name) == UNION {pdef.models : pdef \in Definition(name)}

\* from_mapping: the default corpus is the fallback when the key is absent,
\* and always one of the allowed ones.
DefaultCorpus(raw, fallback) == IF "corpus" \in DOMAIN raw THEN raw.corpus ELSE fallback

AllowedCorpora(raw, fallback) == raw.corpora \cup Given({DefaultCorpus(raw, fallback)})

NoChunking ==
    [enabled |-> FALSE, provider |-> "", model |-> Empty, providers |-> None, models |-> None]

\* No pipeline: the default corpus, no list, no limit.
Unrestricted(corpus) ==
    [pipeline |-> None, corpus |-> corpus, corpora |-> Given({corpus}), filters |-> <<>>,
     providers |-> None, models |-> None, provider |-> "", model |-> Empty,
     max_input |-> None, max_output |-> None, max_total |-> None, max_top_k |-> None,
     chunking |-> NoChunking]

FromPolicy(pid, raw, fallback) ==
    [pipeline |-> pid, corpus |-> DefaultCorpus(raw, fallback), corpora |-> AllowedCorpora(raw, fallback),
     filters |-> raw.filters, providers |-> raw.providers, models |-> raw.models,
     provider |-> raw.provider, model |-> raw.model, max_input |-> raw.max_input,
     max_output |-> raw.max_output, max_total |-> raw.max_total, max_top_k |-> raw.max_top_k,
     chunking |-> raw.chunking]

LegacyContext ==
    [token |-> LegacyKey, scopes |-> {"models:list", "chat:invoke", "rag:query"}, pipeline |-> None,
     providers |-> None, models |-> None, max_input |-> None, max_output |-> None,
     max_total |-> None, max_top_k |-> None]

Keys == Configs[loaded.keys].keys

---------------------------------------------------------------------------
(* Sending, and the end of a request. *)

Idle == [at |-> "idle"]

Nothing == [kind |-> "nothing", ids |-> {}]

\* A request of the caller's own, or the next message with an id it was told.
NextMessages ==
    {[told.ask EXCEPT !.kind = "chat", !.model = id] : id \in told.ids}

Send ==
    /\ request.at \in {"idle", "refused", "searched", "listed", "answered"}
    /\ \E ask \in Asks \cup NextMessages :
          request' = [at |-> "sent", ask |-> ask, steady |-> TRUE]
    /\ UNCHANGED <<disk, loaded, reload, told>>

Proceed(at, new) ==
    /\ request' = [Merged(request, new) EXCEPT !.at = at]
    /\ UNCHANGED <<disk, loaded, reload, told>>

Refuse(code) ==
    /\ request' = [at |-> "refused", ask |-> request.ask, steady |-> request.steady, code |-> code]
    /\ UNCHANGED <<disk, loaded, reload, told>>

\* The code of the first of these conditions that holds, None without one.
FirstOf(checks) ==
    LET failing == {i \in DOMAIN checks : checks[i][1]}
    IN  IF failing = {} THEN None ELSE checks[Smallest(failing)][2]

Tell(at, what) ==
    /\ request' = [at |-> at, ask |-> request.ask, steady |-> request.steady]
    /\ told' = IF request.steady THEN Merged([ask |-> request.ask], what) ELSE Nothing
    /\ UNCHANGED <<disk, loaded, reload>>

---------------------------------------------------------------------------
(* The key: require_auth_context and require_scope, in threads of their own. *)

Scope(kind) ==
    CASE kind = "chat" -> "chat:invoke" [] kind = "models" -> "models:list" [] OTHER -> "rag:query"

\* The contexts the token stands for; the legacy key comes first.
Contexts(token) ==
    IF LegacyKey # None /\ token = LegacyKey THEN {LegacyContext}
    ELSE {entry \in Keys : entry.token = token}

HasScope(ctx, scope) == scope \in ctx.scopes \/ "admin:*" \in ctx.scopes

Authenticate ==
    /\ request.at = "sent"
    /\ LET held    == Contexts(request.ask.token)
           refusal == FirstOf(<<<<LegacyKey = None /\ Keys = {}, "auth_not_configured">>,
                                <<held = {}, "unauthorized">>>>)
       IN  \/ refusal # None /\ Refuse(refusal)
           \/ \E ctx \in held :
                 IF HasScope(ctx, Scope(request.ask.kind)) THEN Proceed("known", [ctx |-> ctx])
                 ELSE Refuse("forbidden")

---------------------------------------------------------------------------
(* The pipeline, and what remains of its limits beside those of the key. *)

Pipelines == Configs[loaded.policies].pipelines

Chunking(ask) == ask.kind = "chat" /\ ask.chunking

PipelineId(ask, ctx) ==
    LET own == IF ask.pipeline = None THEN ctx.pipeline ELSE ask.pipeline
    IN  IF own = None /\ Chunking(ask) /\ "default" \in DOMAIN Pipelines THEN "default" ELSE own

\* Mutant: the list of the key replaces the list of the policy.
BothKeyOnly(policy, key) == IF key = None THEN policy ELSE key

Both(policy, key) ==
    IF key = None THEN policy ELSE IF policy = None THEN key ELSE policy \cap key

Least(a, b) == IF Given({a, b}) = {} THEN None ELSE Smallest(Given({a, b}))

Intersected(policy, ctx) ==
    [policy EXCEPT !.providers = Both(@, ctx.providers), !.models = Both(@, ctx.models),
                   !.max_input = Least(ctx.max_input, @), !.max_output = Least(ctx.max_output, @),
                   !.max_total = Least(ctx.max_total, @), !.max_top_k = Least(ctx.max_top_k, @)]

\* default_corpus_id of the settings the policies were loaded under.
Fallback == Configs[loaded.fallback].corpus

Resolution(ask, ctx) ==
    LET pid    == PipelineId(ask, ctx)
        policy == IF pid = None THEN Unrestricted(Fallback)
                  ELSE FromPolicy(pid, Pipelines[pid], Fallback)
    IN  [Intersected(policy, ctx) EXCEPT !.filters = Merged(@, ask.filters),
                                         !.corpus = IF ask.corpus = None THEN @ ELSE ask.corpus]

OtherCorpus(ask, pid) ==
    ask.corpus # None /\ ask.corpus \notin AllowedCorpora(Pipelines[pid], Fallback)

ResolvePipeline ==
    /\ request.at = "known"
    /\ LET pid     == PipelineId(request.ask, request.ctx)
           refused == pid # None /\ (pid \in DOMAIN Pipelines => OtherCorpus(request.ask, pid))
       IN  IF refused THEN Refuse("invalid_pipeline")
           ELSE Proceed("resolved", [pipe |-> Resolution(request.ask, request.ctx),
                                     under |-> [policies |-> loaded.policies, fallback |-> loaded.fallback]])

---------------------------------------------------------------------------
(* Searches: /v1/rag/query and /v1/rag/lookup. *)

\* enforce_corpus: the corpora a request may search; it names one or takes
\* the one of its pipeline.
MaySearch(ask, pipe) ==
    IF ask.corpus = None THEN pipe.corpus # None ELSE ask.corpus \in pipe.corpora

Capped(n, default, pipe) ==
    Smallest(Given({pipe.max_top_k, IF n = None THEN default ELSE n}))

Search ==
    /\ request.at = "resolved" /\ request.ask.kind \in {"query", "lookup"}
    /\ LET ask  == request.ask
           pipe == request.pipe
           topK == IF ask.kind = "query" THEN Configs[loaded.settings].top_k ELSE 5
       IN  IF ~MaySearch(ask, pipe) THEN Refuse("invalid_pipeline")
           ELSE Proceed("searched", [corpus |-> pipe.corpus, filters |-> pipe.filters,
                                     top_k |-> Capped(ask.top_k, topK, pipe),
                                     max_results |-> Capped(ask.max_results, 20, pipe)])

---------------------------------------------------------------------------
(* Chat: the provider and the model, and whether both may be used. *)

SelectedProvider(id) == IF Len(id) = 1 THEN "" ELSE Lower(id[1])

SelectedModel(id) == IF Len(id) = 1 THEN id ELSE Tail(id)

Permitted(x, list) == list = None \/ x \in list

ModelPermitted(provider, model, list) ==
    Permitted(<<provider>> \o model, list) \/ Permitted(model, list)

\* The providers, of those the list permits, that list the model or a name it dates.
Candidates(model, list) ==
    {name \in ProviderNames :
        /\ Permitted(name, list)
        /\ \E known \in ListedModels(name) : model = known \/ <<model, known>> \in Dated}

InferenceList(ask, pipe) ==
    IF ask.chunking /\ pipe.chunking.providers # None THEN pipe.chunking.providers ELSE pipe.providers

Choose(provider, model, way) ==
    Proceed("chosen", [provider |-> provider, model |-> model, way |-> way])

Select ==
    /\ SelectedProvider(request.ask.model) # ""
    /\ IF SelectedModel(request.ask.model) = Empty THEN Refuse("model_resolution_failed")
       ELSE Choose(SelectedProvider(request.ask.model), SelectedModel(request.ask.model), "selected")

Infer ==
    LET model == SelectedModel(request.ask.model)
        found == Candidates(model, InferenceList(request.ask, request.pipe))
    IN  /\ SelectedProvider(request.ask.model) = "" /\ model # Empty
        /\ IF Cardinality(found) > 1 THEN Refuse("ambiguous_provider")
           ELSE IF found = {} THEN Refuse("provider_resolution_failed")
           ELSE \E name \in found : Choose(name, model, "inferred")

TakeDefault ==
    LET policy  == IF request.ask.chunking THEN request.pipe.chunking ELSE request.pipe
        refusal == FirstOf(<<<<request.ask.chunking /\ ~request.pipe.chunking.enabled, "chunking_policy_disabled">>,
                             <<policy.provider = "" \/ policy.model = Empty, "provider_resolution_failed">>>>)
    IN  /\ SelectedProvider(request.ask.model) = "" /\ SelectedModel(request.ask.model) = Empty
        /\ IF refusal # None THEN Refuse(refusal) ELSE Choose(Lower(policy.provider), policy.model, "default")

ResolveModel ==
    /\ request.at = "resolved" /\ request.ask.kind = "chat"
    /\ Select \/ Infer \/ TakeDefault

CheckProvider ==
    /\ request.at = "chosen"
    /\ LET pipe    == request.pipe
           chat    == ~request.ask.chunking
           refusal ==
             FirstOf(<<<<request.provider \notin ProviderNames, "invalid_provider">>,
                       <<chat /\ ~Permitted(request.provider, pipe.providers), "forbidden_provider">>,
                       <<chat /\ ~ModelPermitted(request.provider, request.model, pipe.models), "forbidden_model">>>>)
       IN  IF refusal # None THEN Refuse(refusal) ELSE Proceed("checked", <<>>)

\* The fields of a request that its provider may refuse from a client.
Controlled(ask) == {field \in {"temperature", "max_tokens"} : ask[field] # None}

ContextLength(ask, pdef, pipe) ==
    LET asked  == IF ask.context # None THEN ask.context ELSE pdef.default_window
        limits == {n \in Given({pdef.max_window, pipe.max_input, pipe.max_total}) : n > 0}
    IN  IF "context_length" \in pdef.controls THEN Smallest(limits \cup {asked}) ELSE None

\* The provider is looked up again, and its definition in settings; a reload
\* may have replaced the one and not the other.
Call ==
    /\ request.at = "checked"
    /\ LET ask      == request.ask
           chunking == request.pipe.chunking
           refusal  ==
             FirstOf(<<<<request.provider \notin ProviderNames, "internal_error">>,
                       <<Definition(request.provider) = {}, "invalid_provider">>,
                       <<ask.chunking /\ ~chunking.enabled, "chunking_policy_disabled">>,
                       <<ask.chunking /\ \E pdef \in Definition(request.provider) : ~pdef.chunking,
                         "provider_chunking_disabled">>,
                       <<ask.chunking /\ ~Permitted(request.provider, chunking.providers),
                         "forbidden_chunking_provider">>,
                       <<ask.chunking /\ ~ModelPermitted(request.provider, request.model, chunking.models),
                         "forbidden_chunking_model">>,
                       <<\E pdef \in Definition(request.provider) : ~(Controlled(ask) \subseteq pdef.controls),
                         "unsupported_client_control">>>>)
       IN  \/ refusal # None /\ Refuse(refusal)
           \/ /\ refusal = None
              /\ \E pdef \in Definition(request.provider) :
                    Proceed("called", [max_tokens |-> Least(ask.max_tokens, request.pipe.max_output),
                                       context |-> ContextLength(ask, pdef, request.pipe)])

---------------------------------------------------------------------------
(* The answer of a chat, and the list of models. *)

\* Mutant: the answer carries the name of the upstream model alone.
AnswerIdUpstream(id, provider, model) == model

AnswerId(id, provider, model) == IF Len(id) > 1 THEN <<provider>> \o model ELSE model

\* A provider answers with the name it was asked for, or with a dated one; the
\* date has no colon.
UpstreamNames(model) ==
    {model} \cup {pair[1] : pair \in {d \in Dated : d[2] = model /\ Len(d[1]) = Len(model)}}

Answer ==
    /\ request.at = "called"
    /\ \E model \in UpstreamNames(request.model) :
          Tell("answered", [kind |-> "answer", provider |-> request.provider, way |-> request.way,
                            ids |-> {AnswerId(request.ask.model, request.provider, model)}])

ProviderFails == request.at = "called" /\ Refuse("provider_error")

\* models_v1 takes the names from one global and the models from another.
ListNames ==
    /\ request.at = "resolved" /\ request.ask.kind = "models"
    /\ Proceed("listing", [names |-> ProviderNames])

\* Mutant: the ids are never prefixed.
ListedIdPlain(names, provider, model) == model

ListedId(names, provider, model) == IF Cardinality(names) > 1 THEN <<provider>> \o model ELSE model

ListModels ==
    /\ request.at = "listing"
    /\ LET pipe    == request.pipe
           offered == UNION {{name} \X ListedModels(name) : name \in request.names}
           ids     == {ListedId(request.names, pair[1], pair[2]) : pair \in
                         {p \in offered :
                            /\ Permitted(p[1], pipe.providers)
                            /\ \/ Permitted(ListedId(request.names, p[1], p[2]), pipe.models)
                               \/ Permitted(p[2], pipe.models)}}
       IN  Tell("listed", [kind |-> "list", ids |-> ids])

---------------------------------------------------------------------------
(* The files change, and a reload replaces one global after the other. *)

Export ==
    /\ disk < Len(Configs)
    /\ disk' = disk + 1
    /\ UNCHANGED <<loaded, reload, request, told>>

BeginReload ==
    /\ reload = "none"
    /\ reload' = "settings"
    /\ UNCHANGED <<disk, loaded, request, told>>

\* `steady`: history, no global was replaced since the request was sent.
Assign(globals, next) ==
    /\ reload' = next
    /\ loaded' = globals
    /\ told' = IF globals = loaded THEN told ELSE Nothing
    /\ request' = IF globals = loaded \/ request = Idle THEN request ELSE [request EXCEPT !.steady = FALSE]
    /\ UNCHANGED disk

ReloadSettings == reload = "settings" /\ Assign([loaded EXCEPT !.settings = disk], "providers")

\* A type without an adapter raises: the other globals keep what they had.
ReloadProviders ==
    /\ reload = "providers"
    /\ IF \A raw \in Configs[loaded.settings].providers : raw.type \in Types
       THEN Assign([loaded EXCEPT !.providers = loaded.settings], "policies")
       ELSE Assign(loaded, "none")

ReloadPolicies ==
    reload = "policies" /\ Assign([loaded EXCEPT !.policies = disk, !.fallback = loaded.settings], "keys")

ReloadKeys == reload = "keys" /\ Assign([loaded EXCEPT !.keys = disk], "none")

Init ==
    /\ disk = 1 /\ reload = "none"
    /\ loaded = [settings |-> 1, providers |-> 1, policies |-> 1, fallback |-> 1, keys |-> 1]
    /\ request = Idle /\ told = Nothing

Next ==
    \/ Send \/ Authenticate \/ ResolvePipeline \/ Search
    \/ ResolveModel \/ CheckProvider \/ Call \/ Answer \/ ProviderFails
    \/ ListNames \/ ListModels
    \/ Export \/ BeginReload \/ ReloadSettings \/ ReloadProviders \/ ReloadPolicies \/ ReloadKeys

Spec == Init /\ [][Next]_vars

---------------------------------------------------------------------------
(* Properties. *)

\* What the request was resolved under, as the files have it.
PolicyOf(r) ==
    IF r.pipe.pipeline = None THEN Unrestricted(Configs[r.under.fallback].corpus)
    ELSE FromPolicy(r.pipe.pipeline, Configs[r.under.policies].pipelines[r.pipe.pipeline],
                    Configs[r.under.fallback].corpus)

Positive(limits) == \A limit \in Given(limits) : limit > 0

Within(n, limits) == \A limit \in Given(limits) : n # None /\ n <= limit

\* A call that reaches a provider keeps every list and limit of the key it
\* came with and of the policy it was resolved under, whatever is reloaded
\* while it is checked: the provider, the model under one of its two names,
\* the length of the answer; a chunking call keeps those of the chunking policy.
\* The context keeps both limits of a kind when both are positive: the smaller
\* one counts, and one of zero or less counts for none.
ChatWithinLimits ==
    request.at = "called" =>
        LET r == request
            policy == PolicyOf(r)
            lists == IF r.ask.chunking THEN {policy.chunking} ELSE {r.ctx, policy}
        IN  /\ \A list \in lists : /\ Permitted(r.provider, list.providers)
                                  /\ ModelPermitted(r.provider, r.model, list.models)
            /\ r.ask.chunking => policy.chunking.enabled
            /\ Within(r.max_tokens, {r.ctx.max_output, policy.max_output})
            /\ r.context # None =>
                  /\ Positive({r.ctx.max_input, policy.max_input})
                        => Within(r.context, {r.ctx.max_input, policy.max_input})
                  /\ Positive({r.ctx.max_total, policy.max_total})
                        => Within(r.context, {r.ctx.max_total, policy.max_total})

\* A search goes to a corpus of its policy, the default one without a policy,
\* and asks for no more than key and policy allow.
SearchWithinLimits ==
    request.at = "searched" =>
        /\ request.corpus \in PolicyOf(request).corpora
        /\ \A n \in {request.top_k, request.max_results} :
              Within(n, {request.ctx.max_top_k, PolicyOf(request).max_top_k})

WithinLimits == ChatWithinLimits /\ SearchWithinLimits

\* The request takes an id it was told, with the same key and pipeline, and no
\* global was replaced since.
FollowsUp ==
    /\ request.at # "idle" /\ told # Nothing
    /\ request.ask \in NextMessages

\* An id of the list of models is served: unless the key may not chat, what
\* it is asked for next is not refused.  A colon in the id of an only
\* provider's model is read as the end of a provider's name, and a provider
\* whose name is not in lower case is not found: ids of both kinds are listed
\* and refused, and left out here.
ListedServed ==
    FollowsUp /\ told.kind = "list" /\ request.at = "refused" =>
        \/ request.code \in {"forbidden", "provider_error"}
        \/ request.ask.model[1] # Lower(request.ask.model[1])
        \/ Len(request.ask.model) > 1 /\ Cardinality(ProviderNames) = 1

\* The id of an answer, in the next message, never leads to another provider
\* (the comment at main.py:919), unless the policy had chosen the model: its
\* default need not be one its provider lists.  An id that names the provider
\* leads to the one whose name is that in lower case.
AnswerStays ==
    FollowsUp /\ told.kind = "answer" /\ told.way # "default" /\ request.at = "called" =>
        request.provider = IF Len(told.ask.model) > 1 THEN Lower(told.provider) ELSE told.provider

\* "Adds service-client constraints alongside or in addition to pipeline policy
\* limits" (policies-and-model-access.mdx:76): a positive limit of the key holds
\* whatever the policy says.
KeyLimitsHold ==
    request.at = "called" /\ request.context # None =>
        \A limit \in Given({request.ctx.max_input, request.ctx.max_total}) :
            limit > 0 => request.context <= limit
=============================================================================
