------------------------ MODULE RequestPolicy_proofs ------------------------
(***************************************************************************)
(* Proofs about RequestPolicy: for any configurations, requests and lists,  *)
(* and whatever a reload replaces in between, a call and a search keep the  *)
(* lists and limits of their key and their policy.  The invariant follows a *)
(* request through its stages: which fields it has, that its pipeline is    *)
(* narrowed by policy and key, and which checks it has passed.              *)
(***************************************************************************)
EXTENDS RequestPolicy, FiniteSetTheorems, TLAPS

---------------------------------------------------------------------------
(* The smallest of a set, and the first of the checks that fails            *)

\* A set with a smallest number: Smallest is that number.
LEMMA SmallestIsIn ==
    ASSUME NEW set, NEW n \in set, \A other \in set : n <= other
    PROVE  Smallest(set) \in set /\ \A other \in set : Smallest(set) <= other
  BY DEF Smallest

\* Of the places of up to seven checks there is a first.
LEMMA FirstIsIn ==
    ASSUME NEW set \in SUBSET (1 .. 7), set # {}
    PROVE  Smallest(set) \in set
  <1>1. \A i \in set : i = 1 \/ i = 2 \/ i = 3 \/ i = 4 \/ i = 5 \/ i = 6 \/ i = 7
    OBVIOUS
  <1>2. \E n \in set : \A other \in set : n <= other
    <2>1. CASE 1 \in set
      BY <1>1, <2>1
    <2>2. CASE 1 \notin set /\ 2 \in set
      BY <1>1, <2>2
    <2>3. CASE 1 \notin set /\ 2 \notin set /\ 3 \in set
      BY <1>1, <2>3
    <2>4. CASE 1 \notin set /\ 2 \notin set /\ 3 \notin set /\ 4 \in set
      BY <1>1, <2>4
    <2>5. CASE set \subseteq {5, 6, 7}
      <3>1. CASE 5 \in set
        BY <2>5, <3>1
      <3>2. CASE 5 \notin set /\ 6 \in set
        BY <2>5, <3>2
      <3>3. CASE set = {7}
        BY <3>3
      <3> QED
        BY <2>5, <3>1, <3>2, <3>3
    <2> QED
      BY <1>1, <2>1, <2>2, <2>3, <2>4, <2>5
  <1> QED
    BY <1>2, SmallestIsIn

\* Checks that refuse nothing all hold.
LEMMA NoRefusal ==
    ASSUME NEW n \in 1 .. 7, NEW checks, DOMAIN checks = 1 .. n,
           \A i \in 1 .. n : checks[i][2] \in Codes, FirstOf(checks) = None
    PROVE  \A i \in 1 .. n : ~checks[i][1]
  <1> DEFINE failing == {i \in DOMAIN checks : checks[i][1]}
  <1>1. failing = {}
    <2> SUFFICES ASSUME failing # {} PROVE FALSE
      OBVIOUS
    <2>1. failing \in SUBSET (1 .. 7)
      OBVIOUS
    <2>2. Smallest(failing) \in 1 .. n
      <3>1. failing \subseteq 1 .. n
        OBVIOUS
      <3> HIDE DEF failing
      <3> QED
        BY <2>1, <3>1, FirstIsIn
    <2>3. checks[Smallest(failing)][2] # None
      <3> HIDE DEF failing
      <3> QED
        BY <2>2, NoneAssumption
    <2> QED
      BY <2>3 DEF FirstOf
  <1> QED
    BY <1>1

\* A request that is not refused by three checks fails none of them.
LEMMA ThreeChecks ==
    ASSUME NEW c1, NEW c2, NEW c3,
           FirstOf(<<<<c1, "invalid_provider">>,
                       <<c2, "forbidden_provider">>,
                       <<c3, "forbidden_model">>>>) = None
    PROVE  ~c1 /\ ~c2 /\ ~c3
  <1> DEFINE checks == <<<<c1, "invalid_provider">>,
                       <<c2, "forbidden_provider">>,
                       <<c3, "forbidden_model">>>>
  <1>1. DOMAIN checks = 1 .. 3 /\ FirstOf(checks) = None
    OBVIOUS
  <1>2. checks[1][2] \in Codes /\ checks[2][2] \in Codes /\ checks[3][2] \in Codes
    BY DEF Codes
  <1>3. checks[1][1] = c1 /\ checks[2][1] = c2 /\ checks[3][1] = c3
    OBVIOUS
  <1> HIDE DEF checks
  <1>4. \A i \in 1 .. 3 : checks[i][2] \in Codes
    <2>1. \A i \in 1 .. 3 : i = 1 \/ i = 2 \/ i = 3
      OBVIOUS
    <2> QED
      BY <1>2, <2>1
  <1>5. \A i \in 1 .. 3 : ~checks[i][1]
    BY <1>1, <1>4, NoRefusal
  <1>6. ~checks[1][1] /\ ~checks[2][1] /\ ~checks[3][1]
    BY <1>5
  <1> QED
    BY <1>3, <1>6

\* A request that is not refused by seven checks fails none of them.
LEMMA SevenChecks ==
    ASSUME NEW c1, NEW c2, NEW c3, NEW c4, NEW c5, NEW c6, NEW c7,
           FirstOf(<<<<c1, "internal_error">>,
                       <<c2, "invalid_provider">>,
                       <<c3, "chunking_policy_disabled">>,
                       <<c4, "provider_chunking_disabled">>,
                       <<c5, "forbidden_chunking_provider">>,
                       <<c6, "forbidden_chunking_model">>,
                       <<c7, "unsupported_client_control">>>>) = None
    PROVE  ~c1 /\ ~c2 /\ ~c3 /\ ~c4 /\ ~c5 /\ ~c6 /\ ~c7
  <1> DEFINE checks == <<<<c1, "internal_error">>,
                       <<c2, "invalid_provider">>,
                       <<c3, "chunking_policy_disabled">>,
                       <<c4, "provider_chunking_disabled">>,
                       <<c5, "forbidden_chunking_provider">>,
                       <<c6, "forbidden_chunking_model">>,
                       <<c7, "unsupported_client_control">>>>
  <1>1. DOMAIN checks = 1 .. 7 /\ FirstOf(checks) = None
    OBVIOUS
  <1>2. checks[1][2] \in Codes /\ checks[2][2] \in Codes /\ checks[3][2] \in Codes /\ checks[4][2] \in Codes /\ checks[5][2] \in Codes /\ checks[6][2] \in Codes /\ checks[7][2] \in Codes
    BY DEF Codes
  <1>3. checks[1][1] = c1 /\ checks[2][1] = c2 /\ checks[3][1] = c3 /\ checks[4][1] = c4 /\ checks[5][1] = c5 /\ checks[6][1] = c6 /\ checks[7][1] = c7
    OBVIOUS
  <1> HIDE DEF checks
  <1>4. \A i \in 1 .. 7 : checks[i][2] \in Codes
    <2>1. \A i \in 1 .. 7 : i = 1 \/ i = 2 \/ i = 3 \/ i = 4 \/ i = 5 \/ i = 6 \/ i = 7
      OBVIOUS
    <2> QED
      BY <1>2, <2>1
  <1>5. \A i \in 1 .. 7 : ~checks[i][1]
    BY <1>1, <1>4, NoRefusal
  <1>6. ~checks[1][1] /\ ~checks[2][1] /\ ~checks[3][1] /\ ~checks[4][1] /\ ~checks[5][1] /\ ~checks[6][1] /\ ~checks[7][1]
    BY <1>5
  <1> QED
    BY <1>3, <1>6

---------------------------------------------------------------------------
(* Limits and lists                                                         *)

Limit == Int \cup {None}

\* The smaller of two limits is one of them and keeps both.
LEMMA LeastIs ==
    ASSUME NEW a \in Limit, NEW b \in Limit
    PROVE  /\ Least(a, b) \in {a, b} /\ (Least(a, b) = None => a = None /\ b = None)
           /\ Least(a, b) # None => \A x \in Given({a, b}) : x \in Int /\ Least(a, b) <= x
  <1>1. CASE Given({a, b}) = {}
    BY <1>1 DEF Least, Given
  <1>2. CASE Given({a, b}) # {}
    <2>1. Given({a, b}) \subseteq Int
      BY DEF Given, Limit
    <2>2. \E n \in Given({a, b}) : \A other \in Given({a, b}) : n <= other
      BY <1>2, <2>1 DEF Given
    <2>3. Smallest(Given({a, b})) \in Given({a, b})
          /\ \A other \in Given({a, b}) : Smallest(Given({a, b})) <= other
      BY <2>2, SmallestIsIn
    <2>4. Least(a, b) = Smallest(Given({a, b}))
      BY <1>2 DEF Least
    <2> QED
      BY <2>1, <2>3, <2>4, NoneAssumption DEF Given
  <1> QED
    BY <1>1, <1>2

\* So is the smallest of up to four numbers, one of which is given.
LEMMA SmallestOfFour ==
    ASSUME NEW a \in Int, NEW b, NEW c, NEW d, NEW set \in SUBSET {a, b, c, d}, a \in set,
           set \subseteq Int
    PROVE  Smallest(set) \in set /\ \A other \in set : Smallest(set) <= other
  <1>1. PICK m \in {a, b} \cap set : \A other \in {a, b} \cap set : m <= other
    OBVIOUS
  <1>2. PICK n \in {a, b, c} \cap set : \A other \in {a, b, c} \cap set : n <= other
    BY <1>1
  <1>3. \E n4 \in set : \A other \in set : n4 <= other
    BY <1>2
  <1> QED
    BY <1>3, SmallestIsIn

\* What both lists permit, each permits.
LEMMA BothPermit ==
    ASSUME NEW policy, NEW key, policy # None => \A part \in SUBSET policy : part # None,
           NEW x, Permitted(x, Both(policy, key))
    PROVE  Permitted(x, policy) /\ Permitted(x, key)
  BY DEF Permitted, Both

\* So it is with the two names of a model.
LEMMA BothPermitModel ==
    ASSUME NEW policy, NEW key, policy # None => \A part \in SUBSET policy : part # None,
           NEW provider, NEW model, ModelPermitted(provider, model, Both(policy, key))
    PROVE  ModelPermitted(provider, model, policy) /\ ModelPermitted(provider, model, key)
  BY BothPermit DEF ModelPermitted

\* A loaded provider has a window.
LEMMA WindowsAreNumbers ==
    ASSUME NEW name, NEW pdef \in Definition(name), loaded.settings \in 1 .. Len(Configs)
    PROVE  pdef.max_window \in Int /\ pdef.default_window \in Int
  <1>1. PICK raw \in Configs[loaded.settings].providers : pdef = LoadProvider(raw)
    BY DEF Definition, Definitions
  <1>2. Record(raw, {"models", "max_window", "default_window"})
        /\ raw.max_window \in Limit /\ raw.default_window \in Limit
    <2>1. raw \in Configs[loaded.settings].providers
      BY <1>1
    <2>2. /\ Record(raw, {"name", "models", "default", "max_window", "default_window"})
          /\ {raw.max_window, raw.default_window} \subseteq Int \cup {None}
      BY <2>1, ConfigsAssumption
    <2> QED
      BY <2>2 DEF Limit, Record
  <1> DEFINE largest == PositiveOr(raw.max_window, Window)
             default == PositiveOr(raw.default_window, largest)
  <1>3. largest \in Int /\ default \in Int
    BY <1>2, PolicyAssumption DEF PositiveOr, Limit
  <1>4. Smallest({largest, default}) \in {largest, default}
    <2> HIDE DEF largest, default
    <2>1. \E n \in {largest, default} : \A other \in {largest, default} : n <= other
      BY <1>3
    <2> QED
      BY <2>1, SmallestIsIn
  <1>5. pdef.max_window = largest /\ pdef.default_window = Smallest({largest, default})
    BY <1>1, <1>2 DEF LoadProvider, Record
  <1> QED
    BY <1>3, <1>4, <1>5

---------------------------------------------------------------------------
(* The invariant                                                            *)

\* What a caller asks, and what it asks next.
Asked(ask) ==
    /\ Record(ask, {"kind", "chunking", "model", "max_tokens", "context", "corpus", "top_k", "max_results"})
    /\ ask.chunking \in BOOLEAN
    /\ {ask.max_tokens, ask.context, ask.top_k, ask.max_results} \subseteq Limit

Indices == 1 .. Len(Configs)

Loads ==
    /\ disk \in Indices
    /\ loaded \in [settings : Indices, providers : Indices, policies : Indices,
                    fallback : Indices, keys : Indices]

Sent(r) == Record(r, {"at", "ask", "steady"}) /\ Asked(r.ask)

Recognised(r) == Sent(r) /\ "ctx" \in DOMAIN r /\ Bounds(r.ctx)

\* The limits and lists of the pipeline are those of the policy and of the key.
Narrowed(pipe, policy, ctx) ==
    /\ Bounds(policy)
    /\ pipe.providers = Both(policy.providers, ctx.providers)
    /\ pipe.models = Both(policy.models, ctx.models)
    /\ pipe.max_input = Least(ctx.max_input, policy.max_input)
    /\ pipe.max_output = Least(ctx.max_output, policy.max_output)
    /\ pipe.max_total = Least(ctx.max_total, policy.max_total)
    /\ pipe.max_top_k = Least(ctx.max_top_k, policy.max_top_k)
    /\ pipe.chunking = policy.chunking
    /\ pipe.corpora = policy.corpora

\* The corpus is the one that was asked for, or the one of the policy.
Placed(r, policy) ==
    IF r.ask.corpus = None THEN r.pipe.corpus = None \/ r.pipe.corpus \in policy.corpora
    ELSE r.pipe.corpus = r.ask.corpus

Resolved(r) ==
    /\ Recognised(r)
    /\ {"pipe", "under"} \subseteq DOMAIN r
    /\ Narrowed(r.pipe, PolicyOf(r), r.ctx)
    /\ Placed(r, PolicyOf(r))

Chosen(r) == Resolved(r) /\ {"provider", "model", "way"} \subseteq DOMAIN r

\* A chat has passed the lists of its pipeline; those of the chunking policy
\* are looked at in the call.
Checked(r) ==
    /\ Chosen(r)
    /\ ~r.ask.chunking => /\ Permitted(r.provider, r.pipe.providers)
                          /\ ModelPermitted(r.provider, r.model, r.pipe.models)

Called(r) == Checked(r) /\ {"max_tokens", "context"} \subseteq DOMAIN r

Searched(r) == Resolved(r) /\ {"corpus", "top_k", "max_results"} \subseteq DOMAIN r

Stage(r) ==
    /\ r.at # "idle" => Sent(r)
    /\ r.at = "known" => Recognised(r)
    /\ r.at \in {"resolved", "listing"} => Resolved(r)
    /\ r.at = "chosen" => Chosen(r)
    /\ r.at = "checked" => Checked(r)
    /\ r.at = "called" => Called(r)
    /\ r.at = "searched" => Searched(r)

Told == told # Nothing => Asked(told.ask)

Honoured == Loads /\ Told /\ Stage(request) /\ WithinLimits

\* A request that goes on has its new fields and keeps the others.
LEMMA ProceedIs ==
    ASSUME NEW at, NEW new, Proceed(at, new), Record(request, {"at"}), "at" \notin DOMAIN new
    PROVE  /\ Record(request', {"at"}) /\ request'.at = at
           /\ DOMAIN request' = DOMAIN request \cup DOMAIN new
           /\ \A f \in DOMAIN new : request'[f] = new[f]
           /\ \A f \in DOMAIN request \ (DOMAIN new \cup {"at"}) : request'[f] = request[f]
           /\ Loads /\ Told => Loads' /\ Told'
  <1> DEFINE merged == Merged(request, new)
  <1>1. /\ merged = [f \in DOMAIN merged |-> merged[f]] /\ DOMAIN merged = DOMAIN request \cup DOMAIN new
        /\ \A f \in DOMAIN merged : merged[f] = IF f \in DOMAIN new THEN new[f] ELSE request[f]
    BY DEF Merged
  <1>2. request' = [merged EXCEPT !.at = at] /\ UNCHANGED <<disk, loaded, told>>
    BY DEF Proceed
  <1>3. "at" \in DOMAIN merged
    BY <1>1 DEF Record
  <1> HIDE DEF merged
  <1>4. Loads /\ Told => Loads' /\ Told'
    BY <1>2 DEF Loads, Told, Nothing
  <1>5. /\ DOMAIN request' = DOMAIN merged /\ request' = [f \in DOMAIN merged |-> request'[f]]
        /\ request'.at = at /\ \A f \in DOMAIN merged \ {"at"} : request'[f] = merged[f]
    BY <1>2, <1>3
  <1> QED
    BY <1>1, <1>3, <1>4, <1>5 DEF Record

\* What was settled about a request stays settled while it goes on.
LEMMA SettledStays ==
    ASSUME NEW r, NEW s, Record(s, {"at"}), DOMAIN r \subseteq DOMAIN s,
           NEW fields, \A f \in DOMAIN r \cap fields : s[f] = r[f],
           {"ask", "ctx", "pipe", "under"} \subseteq fields
    PROVE  /\ Sent(r) => Sent(s)
           /\ Recognised(r) => Recognised(s)
           /\ Resolved(r) => Resolved(s)
           /\ {"provider", "model", "way"} \subseteq fields =>
                (Chosen(r) => Chosen(s)) /\ (Checked(r) => Checked(s))
  <1>1. Sent(r) => Sent(s)
    BY DEF Sent, Record
  <1>2. Recognised(r) => Recognised(s)
    BY <1>1 DEF Recognised
  <1>3. Resolved(r) => Resolved(s) /\ s.ask = r.ask /\ s.pipe = r.pipe
    <2> SUFFICES ASSUME Resolved(r) PROVE Resolved(s) /\ s.ask = r.ask /\ s.pipe = r.pipe
      OBVIOUS
    <2>1. {"ask", "ctx", "pipe", "under"} \subseteq DOMAIN r
      BY DEF Resolved, Recognised, Sent, Record
    <2>2. s.ask = r.ask /\ s.ctx = r.ctx /\ s.pipe = r.pipe /\ s.under = r.under
      BY <2>1
    <2>3. PolicyOf(s) = PolicyOf(r)
      BY <2>2 DEF PolicyOf
    <2> QED
      BY <1>2, <2>1, <2>2, <2>3 DEF Resolved, Placed
  <1>4. ASSUME {"provider", "model", "way"} \subseteq fields, Chosen(r)
        PROVE  Chosen(s) /\ s.provider = r.provider /\ s.model = r.model
    BY <1>3, <1>4 DEF Chosen
  <1>5. ASSUME {"provider", "model", "way"} \subseteq fields, Checked(r)
        PROVE  Checked(s)
    BY <1>3, <1>4, <1>5 DEF Checked, Chosen
  <1> QED
    BY <1>1, <1>2, <1>3, <1>4, <1>5

\* The properties are about two stages only.
LEMMA OtherStages ==
    ASSUME request.at \notin {"called", "searched"} PROVE WithinLimits
  BY DEF WithinLimits, ChatWithinLimits, SearchWithinLimits

LEMMA InitHonoured == Init => Honoured
  <1> SUFFICES ASSUME Init PROVE Honoured
    OBVIOUS
  <1>1. request.at = "idle" /\ told = Nothing /\ Loads
    BY PolicyAssumption DEF Init, Idle, Loads, Indices
  <1> QED
    BY <1>1, OtherStages DEF Honoured, Told, Stage

LEMMA RefuseHonoured ==
    ASSUME Honoured, Sent(request), NEW code, Refuse(code)
    PROVE  Honoured'
  <1>1. request'.at = "refused" /\ Sent(request')
    BY DEF Refuse, Sent, Record
  <1>2. WithinLimits'
    BY <1>1 DEF WithinLimits, ChatWithinLimits, SearchWithinLimits
  <1>3. Loads' /\ Told'
    BY DEF Refuse, Honoured, Loads, Told, Nothing
  <1> QED
    BY <1>1, <1>2, <1>3 DEF Honoured, Stage

LEMMA TellHonoured ==
    ASSUME Honoured, Sent(request), NEW at \in {"listed", "answered"}, NEW what, "ask" \notin DOMAIN what, Tell(at, what)
    PROVE  Honoured'
  <1>1. request'.at = at /\ Sent(request')
    BY DEF Tell, Sent, Record
  <1>2. WithinLimits'
    BY <1>1 DEF WithinLimits, ChatWithinLimits, SearchWithinLimits
  <1>3. Loads' /\ (told' # Nothing => told'.ask = request.ask)
    BY DEF Tell, Honoured, Loads, Merged
  <1> QED
    BY <1>1, <1>2, <1>3 DEF Honoured, Stage, Told, Sent

LEMMA SendHonoured == ASSUME Honoured, Send PROVE Honoured'
  <1>1. PICK ask \in Asks \cup NextMessages : request' = [at |-> "sent", ask |-> ask, steady |-> TRUE]
    BY DEF Send
  <1>2. Asked(ask)
    <2>1. CASE ask \in Asks
      BY <2>1, AsksAssumption DEF Asked, Limit, Record
    <2>2. CASE ask \in NextMessages
      <3>1. PICK id \in told.ids : ask = [told.ask EXCEPT !.kind = "chat", !.model = id]
        BY <2>2 DEF NextMessages
      <3>2. Asked(told.ask)
        BY <3>1 DEF Honoured, Told, Nothing
      <3> QED
        BY <3>1, <3>2 DEF Asked, Record
    <2> QED
      BY <2>1, <2>2
  <1>3. request'.at = "sent" /\ Sent(request')
    BY <1>1, <1>2 DEF Sent, Record
  <1>4. WithinLimits'
    BY <1>3 DEF WithinLimits, ChatWithinLimits, SearchWithinLimits
  <1>5. Loads' /\ Told'
    BY DEF Send, Honoured, Loads, Told, Nothing
  <1> QED
    BY <1>3, <1>4, <1>5 DEF Honoured, Stage

---------------------------------------------------------------------------
(* The steps of a request                                                   *)

LEMMA AuthenticateHonoured == ASSUME Honoured, Authenticate PROVE Honoured'
  <1>1. Sent(request)
    BY DEF Honoured, Stage, Authenticate
  <1>2. ASSUME NEW code, Refuse(code) PROVE Honoured'
    BY <1>1, <1>2, RefuseHonoured
  <1>3. ASSUME NEW ctx \in Contexts(request.ask.token), Proceed("known", [ctx |-> ctx])
        PROVE  Honoured'
    <2>1. Bounds(ctx)
      <3>1. CASE ctx = LegacyContext
        BY <3>1 DEF LegacyContext, Bounds
      <3>2. CASE ctx \in Keys
        BY <3>2, ConfigsAssumption DEF Keys, Honoured, Loads, Indices
      <3> QED
        BY <1>3, <3>1, <3>2 DEF Contexts
    <2>2. /\ Record(request', {"at"}) /\ request'.at = "known" /\ Loads' /\ Told'
          /\ DOMAIN request' = DOMAIN request \cup {"ctx"} /\ request'.ctx = ctx
          /\ \A f \in DOMAIN request \ {"ctx", "at"} : request'[f] = request[f]
      <3> DEFINE new == [known \in {"ctx"} |-> ctx]
      <3>1. DOMAIN new = {"ctx"} /\ new["ctx"] = ctx /\ new = [ctx |-> ctx]
        OBVIOUS
      <3>2. Record(request, {"at"})
        BY <1>1 DEF Sent, Record
      <3> HIDE DEF new
      <3> QED
        BY <1>3, <3>1, <3>2, ProceedIs DEF Honoured
    <2>3. Sent(request')
      BY <1>1, <2>2 DEF Sent, Record
    <2>4. Recognised(request')
      BY <2>1, <2>2, <2>3 DEF Recognised
    <2> QED
      BY <2>2, <2>3, <2>4 DEF Honoured, Stage, WithinLimits, ChatWithinLimits, SearchWithinLimits
  <1> QED
    BY <1>2, <1>3 DEF Authenticate

\* The fields of a policy as a request has it.
PolicyFields ==
    {"pipeline", "corpus", "corpora", "filters", "providers", "models", "provider", "model",
     "max_input", "max_output", "max_total", "max_top_k", "chunking"}

\* A policy has the fields of an unrestricted one.
LEMMA PolicyRecords ==
    ASSUME NEW corpus, NEW pid, NEW raw
    PROVE  Record(Unrestricted(corpus), PolicyFields) /\ Record(FromPolicy(pid, raw, corpus), PolicyFields)
  BY DEF Unrestricted, FromPolicy, PolicyFields, Record

\* What the intersection with a key leaves of a policy.
LEMMA IntersectedIs ==
    ASSUME NEW policy, Record(policy, PolicyFields), Bounds(policy), NEW ctx, NEW pipe,
           \A f \in PolicyFields \ {"filters", "corpus"} : pipe[f] = Intersected(policy, ctx)[f]
    PROVE  Narrowed(pipe, policy, ctx) /\ pipe.pipeline = policy.pipeline
  <1> DEFINE q == Intersected(policy, ctx)
  <1>1. Record(q, PolicyFields) /\ DOMAIN q = DOMAIN policy
    BY DEF Intersected, Record, PolicyFields
  <1>2. /\ q.providers = Both(policy.providers, ctx.providers)
        /\ q.models = Both(policy.models, ctx.models)
        /\ q.max_input = Least(ctx.max_input, policy.max_input)
        /\ q.max_output = Least(ctx.max_output, policy.max_output)
        /\ q.max_total = Least(ctx.max_total, policy.max_total)
        /\ q.max_top_k = Least(ctx.max_top_k, policy.max_top_k)
        /\ q.chunking = policy.chunking
        /\ q.corpora = policy.corpora
        /\ q.pipeline = policy.pipeline
    BY DEF Intersected, Record, PolicyFields
  <1> HIDE DEF q
  <1>3. \A f \in PolicyFields \ {"filters", "corpus"} : pipe[f] = q[f]
    BY DEF q
  <1> QED
    BY <1>2, <1>3 DEF Narrowed, PolicyFields

\* A resolution is narrowed by its policy and its key, and placed in a corpus.
LEMMA ResolutionIs ==
    ASSUME Loads, NEW ask, NEW ctx, NEW pid, pid = PipelineId(ask, ctx),
           pid = None \/ pid \in DOMAIN Pipelines,
           NEW policy, policy = IF pid = None THEN Unrestricted(Fallback)
                                ELSE FromPolicy(pid, Pipelines[pid], Fallback)
    PROVE  /\ Narrowed(Resolution(ask, ctx), policy, ctx)
           /\ Resolution(ask, ctx).corpus = IF ask.corpus = None THEN policy.corpus ELSE ask.corpus
           /\ Resolution(ask, ctx).pipeline = pid
           /\ policy.corpus = None \/ policy.corpus \in policy.corpora
  <1>1. Record(policy, PolicyFields)
    BY PolicyRecords
  <1>2. Bounds(policy) /\ policy.pipeline = pid
    <2>1. CASE pid = None
      BY <2>1 DEF Unrestricted, Bounds
    <2>2. CASE pid # None
      <3>1. Bounds(Pipelines[pid])
        BY <2>2, ConfigsAssumption DEF Pipelines, Loads, Indices
      <3> QED
        BY <2>2, <3>1 DEF FromPolicy, Bounds
    <2> QED
      BY <2>1, <2>2
  <1>3. policy.corpus = None \/ policy.corpus \in policy.corpora
    BY DEF Unrestricted, FromPolicy, AllowedCorpora, Given
  <1>4. Record(Intersected(policy, ctx), PolicyFields)
    BY <1>1 DEF Intersected, Record, PolicyFields
  <1>5. Intersected(policy, ctx).corpus = policy.corpus
    BY <1>1 DEF Intersected, Record, PolicyFields
  <1>6. PICK filters : Resolution(ask, ctx) =
          [Intersected(policy, ctx) EXCEPT !.filters = filters,
                                           !.corpus = IF ask.corpus = None THEN policy.corpus ELSE ask.corpus]
    BY <1>4, <1>5 DEF Resolution, Record, PolicyFields
  <1> DEFINE pipe == Resolution(ask, ctx)
             corpus == IF ask.corpus = None THEN policy.corpus ELSE ask.corpus
  <1>7. /\ \A f \in PolicyFields \ {"filters", "corpus"} : pipe[f] = Intersected(policy, ctx)[f]
        /\ pipe.corpus = corpus
    <2> HIDE DEF corpus
    <2> QED
      BY <1>4, <1>6 DEF Record, PolicyFields, corpus
  <1>8. Narrowed(pipe, policy, ctx) /\ pipe.pipeline = policy.pipeline
    <2> HIDE DEF pipe, corpus
    <2> QED
      BY <1>1, <1>2, <1>7, IntersectedIs
  <1> QED
    BY <1>2, <1>3, <1>7, <1>8

LEMMA ResolvePipelineHonoured == ASSUME Honoured, ResolvePipeline PROVE Honoured'
  <1> DEFINE ask == request.ask
             ctx == request.ctx
             pid == PipelineId(ask, ctx)
             policy == IF pid = None THEN Unrestricted(Fallback) ELSE FromPolicy(pid, Pipelines[pid], Fallback)
             new == [pipe |-> Resolution(ask, ctx),
                     under |-> [policies |-> loaded.policies, fallback |-> loaded.fallback]]
  <1>1. Recognised(request) /\ Sent(request) /\ Loads
    BY DEF Honoured, Stage, ResolvePipeline, Recognised
  <1>2. ASSUME NEW code, Refuse(code) PROVE Honoured'
    BY <1>1, <1>2, RefuseHonoured
  <1>3. ASSUME pid = None \/ pid \in DOMAIN Pipelines, Proceed("resolved", new) PROVE Honoured'
    <2>1. /\ Narrowed(new.pipe, policy, ctx) /\ new.pipe.pipeline = pid
          /\ new.pipe.corpus = IF ask.corpus = None THEN policy.corpus ELSE ask.corpus
          /\ policy.corpus = None \/ policy.corpus \in policy.corpora
      <3> HIDE DEF ask, ctx
      <3> QED
        BY <1>1, <1>3, ResolutionIs
    <2>2. /\ DOMAIN new = {"pipe", "under"} /\ new["pipe"] = new.pipe
          /\ new["under"] = [policies |-> loaded.policies, fallback |-> loaded.fallback]
      OBVIOUS
    <2>3. Record(request, {"at"})
      BY <1>1 DEF Sent, Record
    <2>4. /\ Record(request', {"at"}) /\ request'.at = "resolved" /\ Loads' /\ Told'
          /\ DOMAIN request' = DOMAIN request \cup {"pipe", "under"}
          /\ request'.pipe = new.pipe
          /\ request'.under = [policies |-> loaded.policies, fallback |-> loaded.fallback]
          /\ \A f \in DOMAIN request \ {"pipe", "under", "at"} : request'[f] = request[f]
      <3> HIDE DEF new
      <3>1. "at" \notin DOMAIN new
        BY <2>2
      <3>2. /\ Record(request', {"at"}) /\ request'.at = "resolved" /\ Loads' /\ Told'
            /\ DOMAIN request' = DOMAIN request \cup DOMAIN new
            /\ \A f \in DOMAIN new : request'[f] = new[f]
            /\ \A f \in DOMAIN request \ (DOMAIN new \cup {"at"}) : request'[f] = request[f]
        BY <1>3, <2>3, <3>1, ProceedIs DEF Honoured
      <3> QED
        BY <2>2, <3>2
    <2>5. request'.ask = ask /\ request'.ctx = ctx
      BY <1>1, <2>4 DEF Recognised, Sent, Record
    <2>6. Recognised(request')
      BY <1>1, <2>4, <2>5 DEF Recognised, Sent, Record
    <2>7. PolicyOf(request') = policy
      <3>1. /\ request'.pipe.pipeline = pid /\ request'.under.policies = loaded.policies
            /\ request'.under.fallback = loaded.fallback
        BY <2>1, <2>4
      <3> HIDE DEF pid
      <3> QED
        BY <3>1 DEF PolicyOf, Fallback, Pipelines
    <2>8. Resolved(request')
      <3> HIDE DEF policy, new, ask, ctx
      <3> QED
        BY <2>1, <2>4, <2>5, <2>6, <2>7 DEF Resolved, Placed
    <2> HIDE DEF new
    <2> QED
      BY <2>4, <2>6, <2>8, OtherStages DEF Honoured, Stage, WithinLimits, ChatWithinLimits, SearchWithinLimits, Recognised
  <1> QED
    BY <1>2, <1>3 DEF ResolvePipeline

\* A request that is resolved goes on.
LEMMA GoesOn ==
    ASSUME Honoured, Resolved(request), NEW at, NEW new, Proceed(at, new),
           DOMAIN new \cap {"at", "ask", "ctx", "pipe", "under"} = {}
    PROVE  /\ Loads' /\ Told' /\ Resolved(request') /\ request'.at = at
           /\ \A f \in DOMAIN new : f \in DOMAIN request' /\ request'[f] = new[f]
           /\ request'.ask = request.ask /\ request'.ctx = request.ctx /\ request'.pipe = request.pipe
           /\ PolicyOf(request') = PolicyOf(request)
           /\ DOMAIN new \cap {"provider", "model", "way"} = {} =>
                 /\ Chosen(request) => Chosen(request') /\ request'.provider = request.provider
                                       /\ request'.model = request.model
                 /\ Checked(request) => Checked(request')
  <1>1. Record(request, {"at"}) /\ {"ask", "ctx", "pipe", "under"} \subseteq DOMAIN request
    BY DEF Resolved, Recognised, Sent, Record
  <1>2. /\ Record(request', {"at"}) /\ request'.at = at /\ Loads' /\ Told'
        /\ DOMAIN request' = DOMAIN request \cup DOMAIN new
        /\ \A f \in DOMAIN new : request'[f] = new[f]
        /\ \A f \in DOMAIN request \ (DOMAIN new \cup {"at"}) : request'[f] = request[f]
    <2>1. "at" \notin DOMAIN new
      OBVIOUS
    <2> QED
      BY <1>1, <2>1, ProceedIs DEF Honoured
  <1>3. \A f \in {"ask", "ctx", "pipe", "under"} : request'[f] = request[f]
    BY <1>1, <1>2
  <1>4. Resolved(request')
    BY <1>2, <1>3, SettledStays
  <1>5. ASSUME DOMAIN new \cap {"provider", "model", "way"} = {}
        PROVE  /\ Chosen(request) => Chosen(request') /\ request'.provider = request.provider
                                      /\ request'.model = request.model
               /\ Checked(request) => Checked(request')
    <2> DEFINE fields == {"ask", "ctx", "pipe", "under", "provider", "model", "way"}
    <2>1. \A f \in DOMAIN request \cap fields : request'[f] = request[f]
      BY <1>2, <1>3, <1>5
    <2>2. (Chosen(request) => Chosen(request')) /\ (Checked(request) => Checked(request'))
      <3>1. {"ask", "ctx", "pipe", "under"} \subseteq fields /\ {"provider", "model", "way"} \subseteq fields
        OBVIOUS
      <3>2. DOMAIN request \subseteq DOMAIN request'
        BY <1>2
      <3> HIDE DEF fields
      <3> QED
        BY <1>2, <2>1, <3>1, <3>2, SettledStays
    <2> QED
      BY <2>1, <2>2 DEF Chosen
  <1>6. /\ request'.ask = request.ask /\ request'.ctx = request.ctx /\ request'.pipe = request.pipe
        /\ PolicyOf(request') = PolicyOf(request)
    BY <1>3 DEF PolicyOf
  <1> QED
    BY <1>2, <1>4, <1>5, <1>6

\* What a search may ask for is a number within both limits.
LEMMA CappedIs ==
    ASSUME NEW n \in Limit, NEW default \in Int, NEW pipe, NEW policy, NEW ctx,
           Bounds(policy), Bounds(ctx), pipe.max_top_k = Least(ctx.max_top_k, policy.max_top_k)
    PROVE  Within(Capped(n, default, pipe), {ctx.max_top_k, policy.max_top_k})
  <1> DEFINE asked == IF n = None THEN default ELSE n
             cap == Least(ctx.max_top_k, policy.max_top_k)
  <1>1. ctx.max_top_k \in Limit /\ policy.max_top_k \in Limit
    BY DEF Bounds, Limit
  <1>2. asked \in Int
    BY DEF Limit
  <1>3. cap \in {ctx.max_top_k, policy.max_top_k}
        /\ (cap = None => ctx.max_top_k = None /\ policy.max_top_k = None)
        /\ (cap # None => \A x \in Given({ctx.max_top_k, policy.max_top_k}) : x \in Int /\ cap <= x)
    BY <1>1, LeastIs
  <1>4. cap \in Limit
    BY <1>1, <1>3
  <1>5. asked # None
    BY <1>2, NoneAssumption
  <1> HIDE DEF asked, cap
  <1>6. Capped(n, default, pipe) = Least(cap, asked)
    BY <1>5 DEF Capped, Least, Given, asked, cap
  <1>7. /\ Least(cap, asked) \in Int
        /\ cap # None => Least(cap, asked) <= cap
    BY <1>2, <1>4, <1>5, LeastIs DEF Given, Limit
  <1>8. \A x \in Given({ctx.max_top_k, policy.max_top_k}) : Least(cap, asked) <= x
    BY <1>1, <1>3, <1>4, <1>7 DEF Given, Limit
  <1> QED
    BY <1>6, <1>7, <1>8, NoneAssumption DEF Within

LEMMA SearchHonoured == ASSUME Honoured, Search PROVE Honoured'
  <1> DEFINE ask == request.ask
             pipe == request.pipe
             topK == IF ask.kind = "query" THEN Configs[loaded.settings].top_k ELSE 5
             new == [corpus |-> pipe.corpus, filters |-> pipe.filters,
                     top_k |-> Capped(ask.top_k, topK, pipe), max_results |-> Capped(ask.max_results, 20, pipe)]
  <1>1. Resolved(request) /\ Sent(request)
    BY DEF Honoured, Stage, Search, Resolved, Recognised
  <1>2. ASSUME NEW code, Refuse(code) PROVE Honoured'
    BY <1>1, <1>2, RefuseHonoured
  <1>3. ASSUME MaySearch(ask, pipe), Proceed("searched", new) PROVE Honoured'
    <2>1. /\ DOMAIN new = {"corpus", "filters", "top_k", "max_results"}
          /\ new["corpus"] = pipe.corpus
          /\ new["top_k"] = Capped(ask.top_k, topK, pipe)
          /\ new["max_results"] = Capped(ask.max_results, 20, pipe)
      OBVIOUS
    <2>2. /\ Loads' /\ Told' /\ Resolved(request') /\ request'.at = "searched"
          /\ \A f \in DOMAIN new : f \in DOMAIN request' /\ request'[f] = new[f]
          /\ request'.ctx = request.ctx /\ PolicyOf(request') = PolicyOf(request)
      <3>1. DOMAIN new \cap {"at", "ask", "ctx", "pipe", "under"} = {}
        BY <2>1
      <3> HIDE DEF new
      <3> QED
        BY <1>1, <1>3, <3>1, GoesOn
    <2>3. /\ request'.corpus = pipe.corpus
          /\ request'.top_k = Capped(ask.top_k, topK, pipe)
          /\ request'.max_results = Capped(ask.max_results, 20, pipe)
          /\ {"corpus", "top_k", "max_results"} \subseteq DOMAIN request'
      <3> HIDE DEF new, topK, pipe, ask
      <3> QED
        BY <2>1, <2>2
    <2>4. /\ ask.top_k \in Limit /\ ask.max_results \in Limit /\ topK \in Int
          /\ Bounds(request.ctx) /\ Bounds(PolicyOf(request))
          /\ pipe.max_top_k = Least(request.ctx.max_top_k, PolicyOf(request).max_top_k)
      <3>1. Configs[loaded.settings].top_k \in Int
        BY ConfigsAssumption DEF Honoured, Loads, Indices
      <3> QED
        BY <1>1, <3>1 DEF Resolved, Recognised, Sent, Asked, Narrowed
    <2>5. /\ Within(request'.top_k, {request.ctx.max_top_k, PolicyOf(request).max_top_k})
          /\ Within(request'.max_results, {request.ctx.max_top_k, PolicyOf(request).max_top_k})
      <3> HIDE DEF topK, pipe, ask
      <3>1. 20 \in Int
        OBVIOUS
      <3> QED
        BY <2>3, <2>4, <3>1, CappedIs
    <2>6. request'.corpus \in PolicyOf(request).corpora
      <3>1. pipe.corpora = PolicyOf(request).corpora /\ Placed(request, PolicyOf(request))
        BY <1>1 DEF Resolved, Narrowed
      <3> QED
        BY <1>3, <2>3, <3>1 DEF Placed, MaySearch
    <2>7. SearchWithinLimits' /\ ChatWithinLimits'
      <3> HIDE DEF new
      <3> QED
        BY <2>2, <2>5, <2>6 DEF SearchWithinLimits, ChatWithinLimits
    <2>8. Stage(request')
      <3> HIDE DEF new
      <3> QED
        BY <2>2, <2>3 DEF Stage, Searched, Resolved, Recognised
    <2> QED
      BY <2>2, <2>7, <2>8 DEF Honoured, WithinLimits
  <1> QED
    BY <1>2, <1>3 DEF Search

\* A provider and a model that are chosen say nothing of the lists yet.
LEMMA ChooseHonoured ==
    ASSUME Honoured, Resolved(request), NEW provider, NEW model, NEW way, Choose(provider, model, way)
    PROVE  Honoured'
  <1> DEFINE new == [provider |-> provider, model |-> model, way |-> way]
  <1>1. DOMAIN new = {"provider", "model", "way"}
    OBVIOUS
  <1>2. /\ Loads' /\ Told' /\ Resolved(request') /\ request'.at = "chosen"
        /\ \A f \in DOMAIN new : f \in DOMAIN request'
    <2>1. DOMAIN new \cap {"at", "ask", "ctx", "pipe", "under"} = {} /\ Proceed("chosen", new)
      BY DEF Choose
    <2> HIDE DEF new
    <2> QED
      BY <2>1, GoesOn
  <1>3. Chosen(request')
    <2> HIDE DEF new
    <2> QED
      BY <1>1, <1>2 DEF Chosen
  <1>4. WithinLimits'
    BY <1>2 DEF WithinLimits, ChatWithinLimits, SearchWithinLimits
  <1> QED
    BY <1>2, <1>3, <1>4 DEF Honoured, Stage, Resolved, Recognised

LEMMA ResolveModelHonoured == ASSUME Honoured, ResolveModel PROVE Honoured'
  <1>1. Resolved(request) /\ Sent(request)
    BY DEF Honoured, Stage, ResolveModel, Resolved, Recognised
  <1>2. ASSUME NEW code, Refuse(code) PROVE Honoured'
    BY <1>1, <1>2, RefuseHonoured
  <1>3. ASSUME NEW provider, NEW model, NEW way, Choose(provider, model, way) PROVE Honoured'
    BY <1>1, <1>3, ChooseHonoured
  <1>4. CASE Select
    BY <1>2, <1>3, <1>4 DEF Select
  <1>5. CASE Infer
    BY <1>2, <1>3, <1>5 DEF Infer
  <1>6. CASE TakeDefault
    BY <1>2, <1>3, <1>6 DEF TakeDefault
  <1> QED
    BY <1>4, <1>5, <1>6 DEF ResolveModel

LEMMA CheckProviderHonoured == ASSUME Honoured, CheckProvider PROVE Honoured'
  <1> DEFINE c1 == request.provider \notin ProviderNames
             c2 == ~request.ask.chunking /\ ~Permitted(request.provider, request.pipe.providers)
             c3 == ~request.ask.chunking /\ ~ModelPermitted(request.provider, request.model, request.pipe.models)
             refusal == FirstOf(<<<<c1, "invalid_provider">>, <<c2, "forbidden_provider">>,
                                  <<c3, "forbidden_model">>>>)
  <1>1. Chosen(request) /\ Resolved(request) /\ Sent(request)
    BY DEF Honoured, Stage, CheckProvider, Chosen, Resolved, Recognised
  <1>2. ASSUME NEW code, Refuse(code) PROVE Honoured'
    BY <1>1, <1>2, RefuseHonoured
  <1>3. ASSUME refusal = None, Proceed("checked", <<>>) PROVE Honoured'
    <2>1. ~c2 /\ ~c3
      <3> HIDE DEF c1, c2, c3
      <3> QED
        BY <1>3, ThreeChecks
    <2>2. Checked(request)
      BY <1>1, <2>1 DEF Checked
    <2>3. Loads' /\ Told' /\ Checked(request') /\ request'.at = "checked"
      <3>1. DOMAIN <<>> \cap {"at", "ask", "ctx", "pipe", "under"} = {}
            /\ DOMAIN <<>> \cap {"provider", "model", "way"} = {}
        OBVIOUS
      <3> HIDE DEF refusal
      <3> QED
        BY <1>1, <1>3, <2>2, <3>1, GoesOn
    <2>4. WithinLimits'
      BY <2>3 DEF WithinLimits, ChatWithinLimits, SearchWithinLimits
    <2> QED
      BY <2>3, <2>4 DEF Honoured, Stage, Checked, Chosen, Resolved, Recognised
  <1>4. \/ Refuse(refusal)
        \/ refusal = None /\ Proceed("checked", <<>>)
    BY DEF CheckProvider
  <1> QED
    BY <1>2, <1>3, <1>4

\* A limit of a kind counts in the context: it is none or positive.
LEMMA ContextIs ==
    ASSUME NEW ask, Asked(ask), NEW pdef, pdef.max_window \in Int, pdef.default_window \in Int,
           NEW pipe, pipe.max_input \in Limit, pipe.max_total \in Limit,
           NEW context, context = ContextLength(ask, pdef, pipe), context # None
    PROVE  /\ pipe.max_input # None /\ pipe.max_input > 0 => context <= pipe.max_input
           /\ pipe.max_total # None /\ pipe.max_total > 0 => context <= pipe.max_total
           /\ context \in Int
  <1> DEFINE asked == IF ask.context # None THEN ask.context ELSE pdef.default_window
             limits == {n \in Given({pdef.max_window, pipe.max_input, pipe.max_total}) : n > 0}
             set == limits \cup {asked}
  <1>1. asked \in Int
    BY DEF Asked, Limit
  <1>2. set \subseteq Int /\ set \in SUBSET {asked, pdef.max_window, pipe.max_input, pipe.max_total}
    BY <1>1 DEF Given, Limit
  <1>3. context = Smallest(set)
    BY DEF ContextLength
  <1>4. /\ pipe.max_input # None /\ pipe.max_input > 0 => pipe.max_input \in set
        /\ pipe.max_total # None /\ pipe.max_total > 0 => pipe.max_total \in set
        /\ asked \in set
    BY DEF Given
  <1> HIDE DEF set, asked, limits
  <1>5. Smallest(set) \in set /\ \A other \in set : Smallest(set) <= other
    BY <1>1, <1>2, <1>4, SmallestOfFour
  <1> QED
    BY <1>2, <1>3, <1>4, <1>5

\* Both limits of a kind are kept when both are positive.
LEMMA KindKept ==
    ASSUME NEW a \in Limit, NEW b \in Limit, NEW n \in Int,
           Least(a, b) # None /\ Least(a, b) > 0 => n <= Least(a, b), Positive({a, b})
    PROVE  Within(n, {a, b})
  <1>1. CASE Least(a, b) = None
    BY <1>1, LeastIs DEF Within, Given
  <1>2. CASE Least(a, b) # None
    <2>1. Least(a, b) \in Given({a, b}) /\ \A x \in Given({a, b}) : x \in Int /\ Least(a, b) <= x
      BY <1>2, LeastIs DEF Given
    <2>2. n <= Least(a, b)
      BY <1>2, <2>1 DEF Positive
    <2> QED
      BY <2>1, <2>2, NoneAssumption DEF Within
  <1> QED
    BY <1>1, <1>2

\* What has passed every check of a call is within the lists of its key and policy.
LEMMA ListsKept ==
    ASSUME Checked(request), NEW policy, policy = PolicyOf(request), NEW chunking, chunking = request.pipe.chunking,
           ~(request.ask.chunking /\ ~chunking.enabled),
           ~(request.ask.chunking /\ ~Permitted(request.provider, chunking.providers)),
           ~(request.ask.chunking /\ ~ModelPermitted(request.provider, request.model, chunking.models))
    PROVE  /\ \A list \in IF request.ask.chunking THEN {policy.chunking} ELSE {request.ctx, policy} :
                 /\ Permitted(request.provider, list.providers)
                 /\ ModelPermitted(request.provider, request.model, list.models)
           /\ request.ask.chunking => policy.chunking.enabled
  <1>1. Narrowed(request.pipe, policy, request.ctx)
    BY DEF Checked, Chosen, Resolved
  <1>2. CASE request.ask.chunking
    BY <1>1, <1>2 DEF Narrowed
  <1>3. CASE ~request.ask.chunking
    <2>1. /\ Permitted(request.provider, Both(policy.providers, request.ctx.providers))
          /\ ModelPermitted(request.provider, request.model, Both(policy.models, request.ctx.models))
      BY <1>1, <1>3 DEF Narrowed, Checked
    <2>2. /\ policy.providers # None => \A part \in SUBSET policy.providers : part # None
          /\ policy.models # None => \A part \in SUBSET policy.models : part # None
      BY <1>1 DEF Narrowed, Bounds
    <2>3. Permitted(request.provider, policy.providers) /\ Permitted(request.provider, request.ctx.providers)
      BY <2>1, <2>2, BothPermit
    <2>4. /\ ModelPermitted(request.provider, request.model, policy.models)
          /\ ModelPermitted(request.provider, request.model, request.ctx.models)
      BY <2>1, <2>2, BothPermitModel
    <2> QED
      BY <1>3, <2>3, <2>4
  <1> QED
    BY <1>2, <1>3

\* So are its length and its context.
LEMMA LengthsKept ==
    ASSUME Honoured, Checked(request), NEW pdef \in Definition(request.provider),
           NEW policy, policy = PolicyOf(request), NEW tokens, NEW context,
           tokens = Least(request.ask.max_tokens, request.pipe.max_output),
           context = ContextLength(request.ask, pdef, request.pipe)
    PROVE  /\ Within(tokens, {request.ctx.max_output, policy.max_output})
           /\ context # None =>
                 /\ Positive({request.ctx.max_input, policy.max_input})
                       => Within(context, {request.ctx.max_input, policy.max_input})
                 /\ Positive({request.ctx.max_total, policy.max_total})
                       => Within(context, {request.ctx.max_total, policy.max_total})
  <1> DEFINE ctx == request.ctx
             ask == request.ask
             pipe == request.pipe
  <1>1. Narrowed(pipe, policy, ctx) /\ Bounds(ctx) /\ Bounds(policy) /\ Asked(ask)
    BY DEF Checked, Chosen, Resolved, Recognised, Sent, Narrowed
  <1>2. /\ ctx.max_input \in Limit /\ policy.max_input \in Limit
        /\ ctx.max_output \in Limit /\ policy.max_output \in Limit
        /\ ctx.max_total \in Limit /\ policy.max_total \in Limit
    BY <1>1 DEF Bounds, Limit
  <1>3. /\ pipe.max_input = Least(ctx.max_input, policy.max_input)
        /\ pipe.max_output = Least(ctx.max_output, policy.max_output)
        /\ pipe.max_total = Least(ctx.max_total, policy.max_total)
    BY <1>1 DEF Narrowed
  <1>4. pipe.max_input \in Limit /\ pipe.max_output \in Limit /\ pipe.max_total \in Limit
    <2>1. \A a, b \in Limit : Least(a, b) \in Limit
      BY LeastIs
    <2> HIDE DEF ctx, pipe
    <2> QED
      BY <1>2, <1>3, <2>1
  <1>5. Within(tokens, {ctx.max_output, policy.max_output})
    <2>1. ask.max_tokens \in Limit
      BY <1>1 DEF Asked
    <2>2. /\ tokens = None => pipe.max_output = None
          /\ tokens # None => tokens \in Int /\ (pipe.max_output # None => tokens <= pipe.max_output)
      BY <1>4, <2>1, LeastIs DEF Given, Limit
    <2>3. \A a, b \in Limit :
             /\ Least(a, b) = None => a = None /\ b = None
             /\ Least(a, b) # None => \A x \in Given({a, b}) : x \in Int /\ Least(a, b) <= x
      BY LeastIs
    <2> HIDE DEF ctx, pipe, ask
    <2>4. pipe.max_output = None => ctx.max_output = None /\ policy.max_output = None
      BY <1>2, <1>3, <2>3
    <2>5. pipe.max_output # None =>
             \A x \in Given({ctx.max_output, policy.max_output}) : x \in Int /\ pipe.max_output <= x
      BY <1>2, <1>3, <2>3
    <2> QED
      BY <1>4, <2>2, <2>4, <2>5 DEF Within, Given, Limit
  <1>6. ASSUME context # None
        PROVE  /\ Positive({ctx.max_input, policy.max_input}) => Within(context, {ctx.max_input, policy.max_input})
               /\ Positive({ctx.max_total, policy.max_total}) => Within(context, {ctx.max_total, policy.max_total})
    <2>1. pdef.max_window \in Int /\ pdef.default_window \in Int
      BY WindowsAreNumbers DEF Honoured, Loads, Indices
    <2>2. /\ pipe.max_input # None /\ pipe.max_input > 0 => context <= pipe.max_input
          /\ pipe.max_total # None /\ pipe.max_total > 0 => context <= pipe.max_total
          /\ context \in Int
      BY <1>1, <1>4, <1>6, <2>1, ContextIs
    <2> HIDE DEF ctx, pipe, ask
    <2> QED
      BY <1>2, <1>3, <2>2, KindKept
  <1> QED
    BY <1>5, <1>6

LEMMA CallHonoured == ASSUME Honoured, Call PROVE Honoured'
  <1> DEFINE ask == request.ask
             chunking == request.pipe.chunking
             c1 == request.provider \notin ProviderNames
             c2 == Definition(request.provider) = {}
             c3 == ask.chunking /\ ~chunking.enabled
             c4 == ask.chunking /\ \E pdef \in Definition(request.provider) : ~pdef.chunking
             c5 == ask.chunking /\ ~Permitted(request.provider, chunking.providers)
             c6 == ask.chunking /\ ~ModelPermitted(request.provider, request.model, chunking.models)
             c7 == \E pdef \in Definition(request.provider) : ~(Controlled(ask) \subseteq pdef.controls)
             refusal == FirstOf(<<<<c1, "internal_error">>, <<c2, "invalid_provider">>,
                                  <<c3, "chunking_policy_disabled">>, <<c4, "provider_chunking_disabled">>,
                                  <<c5, "forbidden_chunking_provider">>, <<c6, "forbidden_chunking_model">>,
                                  <<c7, "unsupported_client_control">>>>)
             New(pdef) == [max_tokens |-> Least(ask.max_tokens, request.pipe.max_output),
                           context |-> ContextLength(ask, pdef, request.pipe)]
  <1>1. Checked(request) /\ Resolved(request) /\ Sent(request)
    BY DEF Honoured, Stage, Call, Checked, Chosen, Resolved, Recognised
  <1>2. ASSUME NEW code, Refuse(code) PROVE Honoured'
    BY <1>1, <1>2, RefuseHonoured
  <1>3. ASSUME refusal = None, NEW pdef \in Definition(request.provider), Proceed("called", New(pdef))
        PROVE  Honoured'
    <2> DEFINE new == New(pdef)
               policy == PolicyOf(request)
    <2>1. ~c3 /\ ~c5 /\ ~c6
      <3> HIDE DEF c1, c2, c3, c4, c5, c6, c7
      <3> QED
        BY <1>3, SevenChecks
    <2>2. DOMAIN new = {"max_tokens", "context"}
          /\ new["max_tokens"] = Least(ask.max_tokens, request.pipe.max_output)
          /\ new["context"] = ContextLength(ask, pdef, request.pipe)
      OBVIOUS
    <2>3. /\ Loads' /\ Told' /\ Checked(request') /\ request'.at = "called"
          /\ \A f \in DOMAIN new : f \in DOMAIN request' /\ request'[f] = new[f]
          /\ request'.ask = request.ask /\ request'.ctx = request.ctx /\ PolicyOf(request') = policy
          /\ request'.provider = request.provider /\ request'.model = request.model
      <3>1. DOMAIN new \cap {"at", "ask", "ctx", "pipe", "under"} = {}
            /\ DOMAIN new \cap {"provider", "model", "way"} = {} /\ Proceed("called", new)
        BY <1>3, <2>2
      <3>2. Chosen(request)
        BY <1>1 DEF Checked
      <3> HIDE DEF new, refusal, policy
      <3> QED
        BY <1>1, <3>1, <3>2, GoesOn DEF policy
    <2>4. /\ request'.max_tokens = Least(ask.max_tokens, request.pipe.max_output)
          /\ request'.context = ContextLength(ask, pdef, request.pipe)
          /\ {"max_tokens", "context"} \subseteq DOMAIN request'
      <3> HIDE DEF new, ask
      <3> QED
        BY <2>2, <2>3
    <2>5. /\ \A list \in IF ask.chunking THEN {policy.chunking} ELSE {request.ctx, policy} :
                 /\ Permitted(request.provider, list.providers)
                 /\ ModelPermitted(request.provider, request.model, list.models)
          /\ ask.chunking => policy.chunking.enabled
      <3> HIDE DEF policy
      <3> QED
        BY <1>1, <2>1, ListsKept DEF policy
    <2>6. /\ Within(request'.max_tokens, {request.ctx.max_output, policy.max_output})
          /\ request'.context # None =>
                 /\ Positive({request.ctx.max_input, policy.max_input})
                       => Within(request'.context, {request.ctx.max_input, policy.max_input})
                 /\ Positive({request.ctx.max_total, policy.max_total})
                       => Within(request'.context, {request.ctx.max_total, policy.max_total})
      <3> HIDE DEF new, policy
      <3> QED
        BY <1>1, <1>3, <2>4, LengthsKept DEF policy
    <2>7. ChatWithinLimits' /\ SearchWithinLimits'
      <3> HIDE DEF new, policy
      <3> QED
        BY <2>3, <2>5, <2>6 DEF ChatWithinLimits, SearchWithinLimits
    <2>8. Stage(request')
      <3> HIDE DEF new, policy
      <3> QED
        BY <2>3, <2>4 DEF Stage, Called, Checked, Chosen, Resolved, Recognised
    <2> QED
      BY <2>3, <2>7, <2>8 DEF Honoured, WithinLimits
  <1>4. \/ Refuse(refusal)
        \/ refusal = None /\ \E pdef \in Definition(request.provider) : Proceed("called", New(pdef))
    BY DEF Call
  <1> QED
    BY <1>2, <1>3, <1>4

LEMMA AnswersHonoured ==
    ASSUME Honoured, Answer \/ ListModels \/ ProviderFails \/ ListNames
    PROVE  Honoured'
  <1>1. Sent(request)
    BY DEF Honoured, Stage, Answer, ListModels, ProviderFails, ListNames
  <1>2. CASE Answer
    <2>1. PICK ids : Tell("answered", [kind |-> "answer", provider |-> request.provider,
                                      way |-> request.way, ids |-> ids])
      BY <1>2 DEF Answer
    <2> QED
      BY <1>1, <2>1, TellHonoured
  <1>3. CASE ListModels
    <2>1. PICK ids : Tell("listed", [kind |-> "list", ids |-> ids])
      BY <1>3 DEF ListModels
    <2> QED
      BY <1>1, <2>1, TellHonoured
  <1>4. CASE ProviderFails
    BY <1>1, <1>4, RefuseHonoured DEF ProviderFails
  <1>5. CASE ListNames
    <2> DEFINE new == [names |-> ProviderNames]
    <2>1. Resolved(request) /\ Proceed("listing", new)
      BY <1>5 DEF ListNames, Honoured, Stage
    <2>2. DOMAIN new \cap {"at", "ask", "ctx", "pipe", "under"} = {}
      OBVIOUS
    <2>3. Loads' /\ Told' /\ Resolved(request') /\ request'.at = "listing"
      <3> HIDE DEF new
      <3> QED
        BY <2>1, <2>2, GoesOn
    <2>4. WithinLimits'
      BY <2>3 DEF WithinLimits, ChatWithinLimits, SearchWithinLimits
    <2> QED
      BY <2>3, <2>4 DEF Honoured, Stage, Resolved, Recognised
  <1> QED
    BY <1>2, <1>3, <1>4, <1>5

---------------------------------------------------------------------------
(* The files and the reload beside the request                              *)

\* A reload touches no more of a request than its history.
LEMMA AssignHonoured ==
    ASSUME Honoured, NEW globals, NEW next, Assign(globals, next),
           globals \in [settings : Indices, providers : Indices, policies : Indices,
                        fallback : Indices, keys : Indices]
    PROVE  Honoured'
  <1>1. Loads' /\ Told'
    BY DEF Assign, Honoured, Loads, Told, Nothing
  <1>2. CASE request' = request
    BY <1>1, <1>2 DEF Honoured, Stage, Sent, WithinLimits, ChatWithinLimits, SearchWithinLimits
  <1>3. CASE request # Idle /\ request' = [request EXCEPT !.steady = FALSE]
    <2>1. CASE request.at = "idle"
      <3>1. request'.at = "idle"
        BY <1>3, <2>1
      <3> QED
        BY <1>1, <3>1 DEF Honoured, Stage, WithinLimits, ChatWithinLimits, SearchWithinLimits
    <2>2. CASE request.at # "idle"
      <3>1. Record(request, {"at", "ask", "steady"})
        BY <2>2 DEF Honoured, Stage, Sent
      <3>2. /\ Record(request', {"at", "ask", "steady"}) /\ DOMAIN request' = DOMAIN request
            /\ \A f \in DOMAIN request \ {"steady"} : request'[f] = request[f]
        BY <1>3, <3>1 DEF Record
      <3>3. request'.at = request.at
        BY <3>1, <3>2 DEF Record
      <3> DEFINE fields == {"ask", "ctx", "pipe", "under", "provider", "model", "way"}
      <3>4. \A f \in DOMAIN request \cap fields : request'[f] = request[f]
        BY <3>2
      <3>5. /\ Sent(request) => Sent(request')
            /\ Recognised(request) => Recognised(request')
            /\ Resolved(request) => Resolved(request')
            /\ Chosen(request) => Chosen(request')
            /\ Checked(request) => Checked(request')
        <4>1. {"ask", "ctx", "pipe", "under"} \subseteq fields /\ {"provider", "model", "way"} \subseteq fields
          OBVIOUS
        <4>2. Record(request', {"at"}) /\ DOMAIN request \subseteq DOMAIN request'
          BY <3>2 DEF Record
        <4> HIDE DEF fields
        <4> QED
          BY <3>4, <4>1, <4>2, SettledStays
      <3>6. Stage(request')
        BY <3>2, <3>3, <3>5 DEF Honoured, Stage, Called, Searched
      <3>7. ChatWithinLimits'
        <4> SUFFICES ASSUME request.at = "called" PROVE ChatWithinLimits'
          BY <3>3 DEF ChatWithinLimits
        <4>1. {"ask", "ctx", "pipe", "under", "provider", "model", "max_tokens", "context"} \subseteq DOMAIN request
          BY DEF Honoured, Stage, Called, Checked, Chosen, Resolved, Recognised, Sent, Record
        <4>2. /\ request'.ask = request.ask /\ request'.ctx = request.ctx
              /\ request'.provider = request.provider /\ request'.model = request.model
              /\ request'.max_tokens = request.max_tokens /\ request'.context = request.context
              /\ PolicyOf(request') = PolicyOf(request)
          BY <3>2, <4>1 DEF PolicyOf
        <4> QED
          BY <3>3, <4>2 DEF Honoured, WithinLimits, ChatWithinLimits
      <3>8. SearchWithinLimits'
        <4> SUFFICES ASSUME request.at = "searched" PROVE SearchWithinLimits'
          BY <3>3 DEF SearchWithinLimits
        <4>1. {"ctx", "pipe", "under", "corpus", "top_k", "max_results"} \subseteq DOMAIN request
          BY DEF Honoured, Stage, Searched, Resolved, Recognised
        <4>2. /\ request'.ctx = request.ctx /\ request'.corpus = request.corpus
              /\ request'.top_k = request.top_k /\ request'.max_results = request.max_results
              /\ PolicyOf(request') = PolicyOf(request)
          BY <3>2, <4>1 DEF PolicyOf
        <4> QED
          BY <3>3, <4>2 DEF Honoured, WithinLimits, SearchWithinLimits
      <3> QED
        BY <1>1, <3>6, <3>7, <3>8 DEF Honoured, WithinLimits
    <2> QED
      BY <2>1, <2>2
  <1> QED
    BY <1>2, <1>3 DEF Assign

LEMMA ReloadHonoured ==
    ASSUME Honoured, ReloadSettings \/ ReloadProviders \/ ReloadPolicies \/ ReloadKeys
    PROVE  Honoured'
  <1> DEFINE Globals == [settings : Indices, providers : Indices, policies : Indices,
                         fallback : Indices, keys : Indices]
  <1>1. disk \in Indices /\ loaded \in Globals
    BY DEF Honoured, Loads
  <1>2. /\ [loaded EXCEPT !.settings = disk] \in Globals
        /\ [loaded EXCEPT !.providers = loaded.settings] \in Globals
        /\ [loaded EXCEPT !.policies = disk, !.fallback = loaded.settings] \in Globals
        /\ [loaded EXCEPT !.keys = disk] \in Globals
    BY <1>1
  <1> QED
    BY <1>1, <1>2, AssignHonoured DEF ReloadSettings, ReloadProviders, ReloadPolicies, ReloadKeys

LEMMA ExportHonoured == ASSUME Honoured, Export \/ BeginReload PROVE Honoured'
  <1>1. request' = request /\ told' = told /\ loaded' = loaded
    BY DEF Export, BeginReload
  <1>2. Loads'
    BY <1>1, PolicyAssumption DEF Export, BeginReload, Honoured, Loads, Indices
  <1> QED
    BY <1>1, <1>2 DEF Honoured, Told, Nothing, Stage, WithinLimits, ChatWithinLimits, SearchWithinLimits

---------------------------------------------------------------------------
(* The theorem                                                              *)

LEMMA NextHonoured == Honoured /\ [Next]_vars => Honoured'
  <1> SUFFICES ASSUME Honoured, [Next]_vars PROVE Honoured'
    OBVIOUS
  <1>1. CASE UNCHANGED vars
    BY <1>1 DEF vars, Honoured, Loads, Told, Nothing, Stage, WithinLimits, ChatWithinLimits, SearchWithinLimits
  <1>2. CASE Next
    BY <1>2, SendHonoured, AuthenticateHonoured, ResolvePipelineHonoured, SearchHonoured, ResolveModelHonoured,
       CheckProviderHonoured, CallHonoured, AnswersHonoured, ReloadHonoured, ExportHonoured DEF Next
  <1> QED
    BY <1>1, <1>2

\* Whatever is configured and reloaded, a call that reaches a provider and a
\* search that reaches the retrieval service keep the lists and limits of the
\* key they came with and of the policy they were resolved under.
THEOREM AlwaysWithinLimits == Spec => []WithinLimits
  <1>1. Honoured => WithinLimits
    BY DEF Honoured
  <1> QED
    BY <1>1, InitHonoured, NextHonoured, PTL DEF Spec

---------------------------------------------------------------------------
(* What the caller is told                                                  *)

\* A request as it can be sent.
WellAsked(ask) ==
    /\ Record(ask, {"kind", "token", "pipeline", "chunking", "model", "temperature", "max_tokens",
                    "context", "corpus", "filters", "top_k", "max_results"})
    /\ ask.chunking \in BOOLEAN /\ ask.model \in Ids
    /\ ask.kind = "models" => ~ask.chunking /\ ask.temperature = None /\ ask.max_tokens = None

TurnedAway(ask, ctx) ==
    LET pid == PipelineId(ask, ctx)
    IN  pid # None /\ (pid \in DOMAIN Pipelines => OtherCorpus(ask, pid))

\* The list of models offers the model of this provider.
Offered(pipe, name, model) ==
    /\ name \in ProviderNames /\ model \in ListedModels(name)
    /\ Permitted(name, pipe.providers)
    /\ Permitted(ListedId(ProviderNames, name, model), pipe.models) \/ Permitted(model, pipe.models)

\* What is chosen, and how, for the model id of a request.
Decision(ask, pipe, provider, model, way) ==
    /\ provider \in Words /\ model \in Ids
    /\ \/ /\ way = "selected" /\ SelectedProvider(ask.model) # ""
          /\ provider = SelectedProvider(ask.model) /\ model = SelectedModel(ask.model)
       \/ /\ way = "inferred" /\ SelectedProvider(ask.model) = ""
          /\ model = SelectedModel(ask.model) /\ model # Empty
          /\ Candidates(model, InferenceList(ask, pipe)) = {provider}
       \/ /\ way = "default" /\ SelectedProvider(ask.model) = "" /\ SelectedModel(ask.model) = Empty

\* What is known of a request follows from the globals as they are.
KnownNow(r) == r.ctx \in Contexts(r.ask.token)

ResolvedNow(r) == KnownNow(r) /\ r.pipe = Resolution(r.ask, r.ctx) /\ ~TurnedAway(r.ask, r.ctx)

Now(r) ==
    /\ r.at = "known" => KnownNow(r)
    /\ r.at \in {"resolved", "listing"} => ResolvedNow(r)
    /\ r.at = "listing" => r.names = ProviderNames /\ r.ask.kind = "models"
    /\ r.at \in {"chosen", "checked", "called"} =>
          /\ ResolvedNow(r) /\ r.ask.kind = "chat"
          /\ Decision(r.ask, r.pipe, r.provider, r.model, r.way)

Current ==
    request.at # "idle" =>
        WellAsked(request.ask) /\ request.steady \in BOOLEAN /\ (request.steady => Now(request))

\* So does what the caller was told.
Backing(t) ==
    /\ WellAsked(t.ask) /\ t.ids \subseteq Ids
    /\ t.ask.kind = "chat" \/ t.ask.kind = "models"
    /\ \E ctx \in Contexts(t.ask.token) :
          /\ ~TurnedAway(t.ask, ctx)
          /\ t.kind = "list" =>
                /\ t.ask.kind = "models"
                /\ \A id \in t.ids : \E name, model :
                      /\ Offered(Resolution(t.ask, ctx), name, model)
                      /\ id = ListedId(ProviderNames, name, model)
          /\ t.kind = "answer" =>
                \E model :
                   /\ Decision(t.ask, Resolution(t.ask, ctx), t.provider, model, t.way)
                   /\ \A id \in t.ids : \E up \in UpstreamNames(model) :
                         id = AnswerId(t.ask.model, t.provider, up)

Backed == told # Nothing => request.at # "idle" /\ request.steady /\ Backing(told)

Consistent == Honoured /\ Current /\ Backed /\ ListedServed

\* While no global is replaced, all of it stays.
LEMMA NowStays ==
    ASSUME loaded' = loaded, NEW r, NEW t
    PROVE  (Now(r)' <=> Now(r)) /\ (Backing(t)' <=> Backing(t)) /\ ProviderNames' = ProviderNames
  <1>1. /\ Keys' = Keys /\ Pipelines' = Pipelines /\ Fallback' = Fallback
        /\ ProviderNames' = ProviderNames /\ Definitions' = Definitions
    BY DEF Keys, Pipelines, Fallback, ProviderNames, Definitions
  <1>2. \A name : ListedModels(name)' = ListedModels(name)
    BY <1>1 DEF ListedModels, Definition
  <1>3. \A token : Contexts(token)' = Contexts(token)
    BY <1>1 DEF Contexts
  <1>4. \A ask, ctx : PipelineId(ask, ctx)' = PipelineId(ask, ctx)
    BY <1>1 DEF PipelineId
  <1>5. \A ask, ctx : /\ Resolution(ask, ctx)' = Resolution(ask, ctx)
                      /\ TurnedAway(ask, ctx)' <=> TurnedAway(ask, ctx)
    <2>1. \A ask, ctx : Resolution(ask, ctx)' = Resolution(ask, ctx)
      BY <1>1, <1>4 DEF Resolution
    <2>2. \A ask, pid : OtherCorpus(ask, pid)' <=> OtherCorpus(ask, pid)
      BY <1>1 DEF OtherCorpus
    <2>3. \A ask, ctx : TurnedAway(ask, ctx)' <=> TurnedAway(ask, ctx)
      BY <1>1, <1>4, <2>2, Zenon DEF TurnedAway
    <2> QED
      BY <2>1, <2>3
  <1>6. \A model, list : Candidates(model, list)' = Candidates(model, list)
    BY <1>1, <1>2 DEF Candidates
  <1>7. /\ \A pipe, name, model : Offered(pipe, name, model)' <=> Offered(pipe, name, model)
        /\ \A ask, pipe, p, m, w : Decision(ask, pipe, p, m, w)' <=> Decision(ask, pipe, p, m, w)
    <2>1. \A pipe, name, model : Offered(pipe, name, model)' <=> Offered(pipe, name, model)
      BY <1>1, <1>2, Zenon DEF Offered
    <2>2. \A ask, pipe, p, m, w : Decision(ask, pipe, p, m, w)' <=> Decision(ask, pipe, p, m, w)
      <3> TAKE ask, pipe, p, m, w
      <3>1. Candidates(m, InferenceList(ask, pipe))' = Candidates(m, InferenceList(ask, pipe))
        BY <1>6
      <3> QED
        BY <3>1 DEF Decision
    <2> QED
      BY <2>1, <2>2
  <1>8. Now(r)' <=> Now(r)
    BY <1>1, <1>3, <1>5, <1>7 DEF Now, KnownNow, ResolvedNow
  <1>9. Backing(t)' <=> Backing(t)
    BY <1>1, <1>3, <1>5, <1>7 DEF Backing
  <1> QED
    BY <1>1, <1>8, <1>9

---------------------------------------------------------------------------
(* Ids, keys and providers                                                  *)

LEMMA OneOrMore == \A n \in Nat \ {0} : n = 1 <=> ~(n > 1)
  OBVIOUS

LEMMA NotEmpty == ASSUME NEW id \in Seq(Words), Len(id) # 0 PROVE id \in Ids
  BY DEF Ids

\* The provider's name, the rest, and how they are put together.
LEMMA IdIs ==
    /\ \A id \in Ids : Len(id) \in Nat \ {0} /\ id[1] \in Words /\ SelectedProvider(id) \in Words
                       /\ SelectedModel(id) \in Ids
    /\ \A name \in Words, model \in Ids :
          /\ <<name>> \o model \in Ids /\ Len(<<name>> \o model) > 1
          /\ (<<name>> \o model)[1] = name /\ SelectedModel(<<name>> \o model) = model
    /\ Empty \in Ids
  <1>1. ASSUME NEW id \in Ids
        PROVE  Len(id) \in Nat \ {0} /\ id[1] \in Words /\ SelectedProvider(id) \in Words /\ SelectedModel(id) \in Ids
    <2>1. id \in Seq(Words) /\ id # <<>>
      BY DEF Ids
    <2>2. Len(id) \in Nat \ {0} /\ id[1] \in Words
      BY <2>1
    <2>3. Len(id) # 1 => Tail(id) \in Ids
      <3> SUFFICES ASSUME Len(id) # 1 PROVE Tail(id) \in Ids
        OBVIOUS
      <3>1. Tail(id) \in Seq(Words) /\ Len(Tail(id)) = Len(id) - 1
        BY <2>1
      <3>2. Len(Tail(id)) # 0
        BY <2>2, <3>1
      <3> QED
        BY <3>1, <3>2, NotEmpty
    <2> QED
      BY <2>2, <2>3, WordsAssumption DEF SelectedProvider, SelectedModel
  <1>2. ASSUME NEW name \in Words, NEW model \in Ids
        PROVE  /\ <<name>> \o model \in Ids /\ Len(<<name>> \o model) > 1
               /\ (<<name>> \o model)[1] = name /\ SelectedModel(<<name>> \o model) = model
    <2> DEFINE id == <<name>> \o model
    <2>1. model \in Seq(Words) /\ Len(model) \in Nat \ {0}
      BY <1>1 DEF Ids
    <2>2. id \in Seq(Words) /\ Len(id) = 1 + Len(model) /\ id[1] = name
      BY <2>1
    <2>3. Tail(id) = model
      BY <2>1, <2>2
    <2>4. Len(id) > 1 /\ Len(id) # 0 /\ Len(id) # 1
      BY <2>1, <2>2
    <2>5. id \in Ids
      BY <2>2, <2>4, NotEmpty
    <2>6. SelectedModel(id) = model
      BY <2>3, <2>4 DEF SelectedModel
    <2> QED
      BY <2>2, <2>4, <2>5, <2>6
  <1>3. Empty \in Ids
    <2>1. \A word \in Words : <<word>> \in Seq(Words) /\ Len(<<word>>) # 0
      OBVIOUS
    <2>2. <<"">> \in Seq(Words) /\ Len(<<"">>) # 0
      BY <2>1, WordsAssumption, Zenon
    <2> QED
      BY <2>2, NotEmpty DEF Empty
  <1> QED
    BY <1>1, <1>2, <1>3

LEMMA PrefixedId ==
    ASSUME NEW name \in Words, NEW model \in Ids, NEW id, id = <<name>> \o model
    PROVE  id \in Ids /\ Len(id) > 1 /\ Len(id) # 1 /\ id[1] = name /\ SelectedModel(id) = model
  <1>1. id \in Ids /\ Len(id) > 1 /\ id[1] = name /\ SelectedModel(id) = model
    BY IdIs
  <1>2. Len(id) \in Nat \ {0}
    BY <1>1, IdIs
  <1> QED
    BY <1>1, <1>2

\* A provider answers with an id as long as the one it was asked for.
LEMMA UpstreamIs ==
    ASSUME NEW model \in Ids, NEW up \in UpstreamNames(model)
    PROVE  up \in Ids /\ Len(up) = Len(model) /\ (up = model \/ (up # Empty /\ <<up, model>> \in Dated))
  <1>1. CASE up = model
    BY <1>1, Zenon
  <1>2. CASE up # model
    <2>1. PICK pair \in Dated : pair[2] = model /\ Len(pair[1]) = Len(model) /\ up = pair[1]
      BY <1>2 DEF UpstreamNames
    <2>2. pair \in (Ids \ {Empty}) \X Ids
      BY DatedAssumption
    <2>3. pair = <<up, model>> /\ pair[1] \in Ids \ {Empty}
      BY <2>1, <2>2
    <2> QED
      BY <2>1, <2>2, <2>3
  <1> QED
    BY <1>1, <1>2

\* A token stands for one key.
LEMMA OneContext ==
    ASSUME Loads, NEW token, NEW ctx \in Contexts(token), NEW other \in Contexts(token)
    PROVE  ctx = other
  <1>1. loaded.keys \in 1 .. Len(Configs)
    BY DEF Loads, Indices
  <1>2. \A key, twin \in Keys : key.token = twin.token => key = twin
    BY <1>1, ConfigsAssumption DEF Keys
  <1> QED
    BY <1>2 DEF Contexts

NextMessage(ask, id) == [ask EXCEPT !.kind = "chat", !.model = id]

\* The next message has the key and the pipeline of the one that was answered.
LEMMA SameResolution ==
    ASSUME NEW ask, WellAsked(ask), ask.kind = "chat" \/ ask.kind = "models", NEW id \in Ids,
           NEW next, next = NextMessage(ask, id)
    PROVE  /\ WellAsked(next) /\ next.kind = "chat" /\ next.model = id /\ next.token = ask.token
           /\ next.chunking = ask.chunking /\ next.temperature = ask.temperature /\ next.max_tokens = ask.max_tokens
           /\ \A ctx : Resolution(next, ctx) = Resolution(ask, ctx) /\ (TurnedAway(next, ctx) <=> TurnedAway(ask, ctx))
  <1>1. /\ next.kind = "chat" /\ next.model = id /\ next.token = ask.token
        /\ next.chunking = ask.chunking /\ next.temperature = ask.temperature /\ next.max_tokens = ask.max_tokens
        /\ next.pipeline = ask.pipeline /\ next.corpus = ask.corpus /\ next.filters = ask.filters
    BY DEF WellAsked, Record, NextMessage
  <1>2. WellAsked(next)
    BY DEF WellAsked, Record, NextMessage
  <1>3. \A ctx : PipelineId(next, ctx) = PipelineId(ask, ctx)
    BY <1>1 DEF PipelineId, Chunking, WellAsked
  <1>4. \A ctx : Resolution(next, ctx) = Resolution(ask, ctx)
    BY <1>1, <1>3 DEF Resolution
  <1>5. \A ctx : TurnedAway(next, ctx) <=> TurnedAway(ask, ctx)
    BY <1>1, <1>3, Zenon DEF TurnedAway, OtherCorpus
  <1> QED
    BY <1>1, <1>2, <1>4, <1>5

\* Names and models of the providers.
LEMMA ProvidersAre ==
    ASSUME Loads
    PROVE  /\ IsFiniteSet(ProviderNames) /\ ProviderNames \subseteq Words \ {""}
           /\ \A name : ListedModels(name) \subseteq Ids \ {Empty}
           /\ \A name, model : model \in ListedModels(name) => Definition(name) # {}
  <1> DEFINE raws == Configs[loaded.providers].providers
             f == [raw \in raws |-> raw.name]
  <1>1. IsFiniteSet(raws) /\ \A raw \in raws : raw.name \in Words \ {""}
    BY ConfigsAssumption DEF Loads, Indices
  <1>2. ProviderNames \subseteq Words \ {""}
    BY <1>1 DEF ProviderNames
  <1>3. IsFiniteSet(ProviderNames)
    <2>1. f \in Surjection(raws, ProviderNames)
      BY DEF Surjection, ProviderNames
    <2> QED
      BY <1>1, <2>1, FS_Surjection
  <1>4. ASSUME NEW name, NEW pdef \in Definition(name) PROVE pdef.models \subseteq Ids \ {Empty}
    <2>1. PICK raw \in Configs[loaded.settings].providers : pdef = LoadProvider(raw)
      BY DEF Definition, Definitions
    <2>2. /\ Record(raw, {"name", "models", "default", "max_window", "default_window"})
          /\ raw.models \subseteq Ids \ {Empty} /\ raw.default \in Ids
      BY <2>1, ConfigsAssumption DEF Loads, Indices
    <2>3. pdef.models = raw.models \cup (IF raw.default = Empty THEN {} ELSE {raw.default})
      BY <2>1, <2>2 DEF LoadProvider, Record
    <2> QED
      BY <2>2, <2>3
  <1>5. /\ \A name : ListedModels(name) \subseteq Ids \ {Empty}
        /\ \A name, model : model \in ListedModels(name) => Definition(name) # {}
    BY <1>4 DEF ListedModels
  <1> QED
    BY <1>2, <1>3, <1>5

\* Of no more than one provider there is this one only.
LEMMA SoleProvider ==
    ASSUME Loads, NEW names \in SUBSET ProviderNames, NEW name \in names
    PROVE  /\ Cardinality(names) \in Nat
           /\ ~(Cardinality(names) > 1) => names = {name} /\ Cardinality(names) = 1
           /\ names = {name} => ~(Cardinality(names) > 1)
  <1>1. IsFiniteSet(names)
    BY ProvidersAre, FS_Subset
  <1>2. Cardinality(names) \in Nat
    BY <1>1, FS_CardinalityType
  <1>3. Cardinality(names) # 0
    BY <1>1, FS_EmptySet
  <1>4. Cardinality(names) = 1 <=> \E x : names = {x}
    BY <1>1, FS_Singleton
  <1> QED
    BY <1>2, <1>3, <1>4

\* Checks that all hold refuse nothing.
LEMMA NothingFails ==
    ASSUME NEW checks, \A i \in DOMAIN checks : ~checks[i][1]
    PROVE  FirstOf(checks) = None
  <1>1. {i \in DOMAIN checks : checks[i][1]} = {}
    OBVIOUS
  <1> QED
    BY <1>1 DEF FirstOf

LEMMA TwoPass ==
    ASSUME NEW c1, NEW c2, ~c1, ~c2, NEW t1, NEW t2
    PROVE  FirstOf(<<<<c1, t1>>, <<c2, t2>>>>) = None
  <1> DEFINE checks == <<<<c1, t1>>, <<c2, t2>>>>
  <1>1. DOMAIN checks = 1 .. 2 /\ checks[1][1] = c1 /\ checks[2][1] = c2
    OBVIOUS
  <1>2. \A i \in 1 .. 2 : i = 1 \/ i = 2
    OBVIOUS
  <1> HIDE DEF checks
  <1> QED
    BY <1>1, <1>2, NothingFails DEF checks

---------------------------------------------------------------------------
(* Where an id leads that the caller was told                               *)

\* A listed id leads to the provider and the model it was listed for, and
\* both are permitted.
LEMMA ListedLeads ==
    ASSUME Loads, NEW ask, WellAsked(ask), ~ask.chunking, NEW pipe, NEW name, NEW model,
           Offered(pipe, name, model), ask.model = ListedId(ProviderNames, name, model),
           ask.model[1] = Lower(ask.model[1]), ~(Len(ask.model) > 1 /\ Cardinality(ProviderNames) = 1)
    PROVE  /\ SelectedModel(ask.model) = model /\ model # Empty
           /\ SelectedProvider(ask.model) \in {"", name}
           /\ SelectedProvider(ask.model) = "" => Candidates(model, InferenceList(ask, pipe)) = {name}
           /\ name \in ProviderNames /\ Permitted(name, pipe.providers)
           /\ ModelPermitted(name, model, pipe.models) /\ Definition(name) # {}
  <1>1. /\ name \in ProviderNames /\ name \in Words /\ name # "" /\ model \in Ids /\ model # Empty
        /\ Definition(name) # {} /\ Permitted(name, pipe.providers)
    BY ProvidersAre DEF Offered
  <1>2. ModelPermitted(name, model, pipe.models)
    BY Zenon DEF Offered, ModelPermitted, ListedId
  <1>3. Cardinality(ProviderNames) \in Nat
        /\ (~(Cardinality(ProviderNames) > 1) => ProviderNames = {name} /\ Cardinality(ProviderNames) = 1)
    BY <1>1, SoleProvider
  <1>4. CASE Cardinality(ProviderNames) > 1
    <2>1. ask.model = <<name>> \o model
      BY <1>4 DEF ListedId
    <2>2. Len(ask.model) # 1 /\ ask.model[1] = name /\ SelectedModel(ask.model) = model
      <3>1. name \in Words /\ model \in Ids
        BY <1>1
      <3>2. \A id : id = <<name>> \o model => Len(id) # 1 /\ id[1] = name /\ SelectedModel(id) = model
        <4> TAKE id
        <4> HAVE id = <<name>> \o model
        <4>1. Len(id) # 1 /\ id[1] = name
          BY <3>1, PrefixedId
        <4>2. SelectedModel(id) = model
          BY <3>1, PrefixedId
        <4> QED
          BY <4>1, <4>2
      <3> QED
        BY <2>1, <3>2, Zenon
    <2>3. SelectedProvider(ask.model) = name
      BY <2>2, Zenon DEF SelectedProvider
    <2> QED
      BY <1>1, <1>2, <2>2, <2>3
  <1>5. CASE ~(Cardinality(ProviderNames) > 1)
    <2>1. ask.model = model /\ Len(ask.model) \in Nat \ {0}
      BY <1>1, <1>5, IdIs DEF ListedId
    <2>2. Len(ask.model) = 1
      BY <1>3, <1>5, <2>1, OneOrMore, Zenon
    <2>3. SelectedModel(ask.model) = model /\ SelectedProvider(ask.model) = ""
      BY <2>1, <2>2 DEF SelectedModel, SelectedProvider
    <2>4. Candidates(model, InferenceList(ask, pipe)) = {name}
      <3>1. InferenceList(ask, pipe) = pipe.providers
        BY DEF InferenceList
      <3>2. name \in Candidates(model, pipe.providers)
        BY <1>1 DEF Candidates, Offered
      <3>3. Candidates(model, pipe.providers) \subseteq ProviderNames
        BY DEF Candidates
      <3> QED
        BY <1>3, <1>5, <3>1, <3>2, <3>3
    <2> QED
      BY <1>1, <1>2, <2>3, <2>4
  <1> QED
    BY <1>4, <1>5

\* The id of an answer leads to the provider that gave the answer.
LEMMA AnswerLeads ==
    ASSUME Loads, NEW ask, WellAsked(ask), NEW pipe, NEW provider, NEW model, NEW way, way # "default",
           Decision(ask, pipe, provider, model, way), NEW up \in UpstreamNames(model),
           NEW next, next.model = AnswerId(ask.model, provider, up), next.chunking = ask.chunking,
           NEW p, NEW m, NEW w, Decision(next, pipe, p, m, w)
    PROVE  p = IF Len(ask.model) > 1 THEN Lower(provider) ELSE provider
  <1>1. provider \in Words /\ model \in Ids /\ ask.model \in Ids
    BY DEF Decision, WellAsked
  <1>2. up \in Ids /\ Len(up) = Len(model) /\ (up = model \/ (up # Empty /\ <<up, model>> \in Dated))
    BY <1>1, UpstreamIs
  <1>3. Len(ask.model) \in Nat \ {0} /\ Len(up) \in Nat \ {0}
    BY <1>1, <1>2, IdIs
  <1>4. provider # ""
    <2>1. CASE way = "selected"
      BY <2>1 DEF Decision
    <2>2. CASE way # "selected"
      <3>1. provider \in ProviderNames
        BY <2>2 DEF Decision, Candidates
      <3> QED
        BY <3>1, ProvidersAre
    <2> QED
      BY <2>1, <2>2
  <1>5. CASE Len(ask.model) > 1
    <2>1. next.model = <<provider>> \o up
      BY <1>5 DEF AnswerId
    <2>2. SelectedProvider(next.model) = Lower(provider)
      <3>1. next.model[1] = provider /\ Len(next.model) # 1
        BY <1>1, <1>2, <2>1, PrefixedId
      <3> QED
        BY <3>1 DEF SelectedProvider
    <2>3. Lower(provider) # ""
      BY <1>1, <1>4, WordsAssumption
    <2> QED
      BY <1>5, <2>2, <2>3 DEF Decision
  <1>6. CASE ~(Len(ask.model) > 1)
    <2>1. Len(ask.model) = 1
      BY <1>3, <1>6, OneOrMore, Zenon
    <2>2. /\ model = ask.model /\ model # Empty
          /\ Candidates(model, InferenceList(ask, pipe)) = {provider}
      BY <2>1 DEF Decision, SelectedProvider, SelectedModel
    <2>3. next.model = up /\ Len(up) = 1 /\ up # Empty
      BY <1>2, <1>6, <2>1, <2>2 DEF AnswerId
    <2>4. Candidates(up, InferenceList(next, pipe)) = {p}
      BY <2>3 DEF Decision, SelectedProvider, SelectedModel
    <2>5. provider \in Candidates(up, InferenceList(next, pipe))
      <3>1. InferenceList(next, pipe) = InferenceList(ask, pipe)
        BY DEF InferenceList
      <3>2. provider \in ProviderNames /\ Permitted(provider, InferenceList(ask, pipe))
        BY <2>2 DEF Candidates
      <3>3. PICK known \in ListedModels(provider) : model = known \/ <<model, known>> \in Dated
        BY <2>2 DEF Candidates
      <3>4. up = known \/ <<up, known>> \in Dated
        <4>1. CASE up = model
          BY <3>3, <4>1
        <4>2. CASE <<up, model>> \in Dated /\ model = known
          BY <4>2
        <4>3. CASE <<up, model>> \in Dated /\ <<model, known>> \in Dated
          BY <4>3, DatedAssumption
        <4> QED
          BY <1>2, <3>3, <4>1, <4>2, <4>3
      <3> QED
        BY <3>1, <3>2, <3>3, <3>4 DEF Candidates
    <2> QED
      BY <1>6, <2>4, <2>5
  <1> QED
    BY <1>5, <1>6

---------------------------------------------------------------------------
(* The steps, with what the caller was told                                 *)

\* The request asks for an id of the list that is told, none of those that the
\* list gives and the selector refuses.
Follows ==
    /\ told # Nothing /\ told.kind = "list" /\ request.ask \in NextMessages
    /\ request.ask.model[1] = Lower(request.ask.model[1])
    /\ ~(Len(request.ask.model) > 1 /\ Cardinality(ProviderNames) = 1)

\* What such a request needs is there.
LEMMA FollowsIs ==
    ASSUME Consistent, request.at # "idle", Follows
    PROVE  /\ request.ask.kind = "chat" /\ ~request.ask.chunking /\ Controlled(request.ask) = {}
           /\ WellAsked(request.ask) /\ Now(request) /\ Loads
           /\ \E ctx \in Contexts(request.ask.token) :
                 /\ ~TurnedAway(request.ask, ctx)
                 /\ \E name, model : /\ Offered(Resolution(request.ask, ctx), name, model)
                                     /\ request.ask.model = ListedId(ProviderNames, name, model)
  <1>1. Backing(told) /\ request.steady /\ WellAsked(request.ask) /\ Now(request) /\ Loads
    BY DEF Consistent, Backed, Current, Follows, Honoured
  <1>2. PICK id \in told.ids : request.ask = [told.ask EXCEPT !.kind = "chat", !.model = id]
    BY DEF Follows, NextMessages
  <1>3. WellAsked(told.ask) /\ id \in Ids /\ told.kind = "list"
    BY <1>1 DEF Backing, Follows
  <1>4. PICK ctx \in Contexts(told.ask.token) :
          /\ ~TurnedAway(told.ask, ctx) /\ told.ask.kind = "models"
          /\ \A other \in told.ids : \E name, model :
                /\ Offered(Resolution(told.ask, ctx), name, model)
                /\ other = ListedId(ProviderNames, name, model)
    BY <1>1, <1>3, Zenon DEF Backing
  <1>5. /\ request.ask.kind = "chat" /\ request.ask.model = id /\ request.ask.token = told.ask.token
        /\ request.ask.chunking = told.ask.chunking /\ request.ask.temperature = told.ask.temperature
        /\ request.ask.max_tokens = told.ask.max_tokens
        /\ Resolution(request.ask, ctx) = Resolution(told.ask, ctx)
        /\ TurnedAway(request.ask, ctx) <=> TurnedAway(told.ask, ctx)
    <2> DEFINE ask == told.ask
               next == request.ask
    <2>1. WellAsked(ask) /\ ask.kind = "models" /\ id \in Ids /\ next = NextMessage(ask, id)
      BY <1>2, <1>3, <1>4 DEF NextMessage
    <2> HIDE DEF ask, next
    <2>2. /\ next.kind = "chat" /\ next.model = id /\ next.token = ask.token
          /\ next.chunking = ask.chunking /\ next.temperature = ask.temperature /\ next.max_tokens = ask.max_tokens
          /\ \A c : Resolution(next, c) = Resolution(ask, c) /\ (TurnedAway(next, c) <=> TurnedAway(ask, c))
      BY <2>1, SameResolution
    <2> QED
      BY <2>2, Zenon DEF ask, next
  <1>6. ~told.ask.chunking /\ told.ask.temperature = None /\ told.ask.max_tokens = None
    BY <1>3, <1>4 DEF WellAsked
  <1>7. Controlled(request.ask) = {}
    BY <1>5, <1>6 DEF Controlled
  <1>8. \E c \in Contexts(request.ask.token) :
           /\ ~TurnedAway(request.ask, c)
           /\ \E name, model : /\ Offered(Resolution(request.ask, c), name, model)
                               /\ request.ask.model = ListedId(ProviderNames, name, model)
    <2>1. ctx \in Contexts(request.ask.token)
      BY <1>5
    <2> WITNESS ctx \in Contexts(request.ask.token)
    <2>2. PICK name, model : Offered(Resolution(told.ask, ctx), name, model) /\ id = ListedId(ProviderNames, name, model)
      BY <1>2, <1>4
    <2> QED
      BY <1>4, <1>5, <2>2
  <1> QED
    BY <1>1, <1>5, <1>6, <1>7, <1>8

\* Once it is resolved, with its provider and its model.
LEMMA FollowsLeads ==
    ASSUME Consistent, request.at \in {"resolved", "chosen", "checked", "called"}, Follows
    PROVE  \E name, model :
              /\ SelectedModel(request.ask.model) = model /\ model # Empty
              /\ SelectedProvider(request.ask.model) \in {"", name}
              /\ SelectedProvider(request.ask.model) = "" =>
                    Candidates(model, InferenceList(request.ask, request.pipe)) = {name}
              /\ name \in ProviderNames /\ Permitted(name, request.pipe.providers)
              /\ ModelPermitted(name, model, request.pipe.models) /\ Definition(name) # {}
              /\ request.at # "resolved" => request.provider = name /\ request.model = model
  <1>1. /\ ~request.ask.chunking /\ WellAsked(request.ask) /\ Now(request) /\ Loads
        /\ \E ctx \in Contexts(request.ask.token) :
                 /\ ~TurnedAway(request.ask, ctx)
                 /\ \E name, model : /\ Offered(Resolution(request.ask, ctx), name, model)
                                     /\ request.ask.model = ListedId(ProviderNames, name, model)
    BY FollowsIs
  <1>2. ResolvedNow(request)
    BY <1>1 DEF Now
  <1>2a. PICK ctx \in Contexts(request.ask.token) :
            \E name, model : /\ Offered(Resolution(request.ask, ctx), name, model)
                             /\ request.ask.model = ListedId(ProviderNames, name, model)
    BY <1>1
  <1>3. PICK name, model :
           /\ Offered(Resolution(request.ask, ctx), name, model)
           /\ request.ask.model = ListedId(ProviderNames, name, model)
    BY <1>2a
  <1>4. ctx = request.ctx /\ request.pipe = Resolution(request.ask, ctx)
    BY <1>1, <1>2, <1>2a, OneContext DEF ResolvedNow, KnownNow
  <1>5. Offered(request.pipe, name, model)
    BY <1>3, <1>4
  <1>6. /\ SelectedModel(request.ask.model) = model /\ model # Empty
        /\ SelectedProvider(request.ask.model) \in {"", name}
        /\ SelectedProvider(request.ask.model) = "" =>
              Candidates(model, InferenceList(request.ask, request.pipe)) = {name}
        /\ name \in ProviderNames /\ Permitted(name, request.pipe.providers)
        /\ ModelPermitted(name, model, request.pipe.models) /\ Definition(name) # {}
    BY <1>1, <1>3, <1>5, ListedLeads DEF Follows
  <1>7. request.at # "resolved" => request.provider = name /\ request.model = model
    <2> SUFFICES ASSUME request.at # "resolved" PROVE request.provider = name /\ request.model = model
      OBVIOUS
    <2>1. Decision(request.ask, request.pipe, request.provider, request.model, request.way)
      BY <1>1 DEF Now
    <2> QED
      BY <1>6, <2>1 DEF Decision
  <1> QED
    BY <1>6, <1>7

\* Before and after a request ends or goes on, it asks the same.
LEMMA RefuseConsistent ==
    ASSUME Consistent, Honoured', request.at # "idle", NEW code, Refuse(code),
           Follows => code \in {"forbidden", "provider_error"}
    PROVE  Consistent'
  <1>1. /\ request'.at = "refused" /\ request'.ask = request.ask /\ request'.steady = request.steady
        /\ request'.code = code /\ told' = told /\ loaded' = loaded
    BY DEF Refuse
  <1>2. Current'
    <2>1. Now(request)'
      BY <1>1 DEF Now
    <2> QED
      BY <1>1, <2>1 DEF Consistent, Current
  <1>3. Backed'
    BY <1>1, NowStays DEF Consistent, Backed, Nothing
  <1>4. ListedServed'
    <2> SUFFICES ASSUME FollowsUp', told'.kind = "list", request'.code \notin {"forbidden", "provider_error"},
                        request'.ask.model[1] = Lower(request'.ask.model[1]),
                        ~(Len(request'.ask.model) > 1 /\ Cardinality(ProviderNames') = 1)
                 PROVE  FALSE
      BY Zenon DEF ListedServed
    <2>1. ProviderNames' = ProviderNames /\ NextMessages' = NextMessages
      BY <1>1, NowStays DEF NextMessages
    <2>2. Follows
      BY <1>1, <2>1 DEF FollowsUp, Follows, Nothing
    <2> QED
      BY <1>1, <2>2
  <1> QED
    BY <1>2, <1>3, <1>4 DEF Consistent

\* A request that goes on, and what is now known of it.
LEMMA ProceedConsistent ==
    ASSUME Consistent, Honoured', request.at # "idle", NEW at, at \notin {"idle", "refused"}, NEW new, Proceed(at, new),
           DOMAIN new \cap {"at", "ask", "steady"} = {}, request.steady => Now(request')
    PROVE  Consistent'
  <1>1. Record(request, {"at", "ask", "steady"}) /\ told' = told /\ loaded' = loaded
    BY DEF Consistent, Honoured, Stage, Sent, Proceed
  <1>2. /\ request'.at = at /\ request'.ask = request.ask /\ request'.steady = request.steady
    <2>1. /\ Record(request, {"at"}) /\ "at" \notin DOMAIN new
          /\ {"ask", "steady"} \subseteq DOMAIN request \ (DOMAIN new \cup {"at"})
      BY <1>1 DEF Record
    <2> QED
      BY <2>1, ProceedIs
  <1>3. Current'
    <2>1. request.steady => Now(request)'
      BY <1>1, NowStays
    <2> QED
      BY <1>1, <1>2, <2>1 DEF Consistent, Current
  <1>4. Backed'
    BY <1>1, <1>2, NowStays DEF Consistent, Backed, Nothing
  <1>5. ListedServed'
    BY <1>2 DEF ListedServed
  <1> QED
    BY <1>3, <1>4, <1>5 DEF Consistent

LEMMA SendConsistent == ASSUME Consistent, Honoured', Send PROVE Consistent'
  <1>1. PICK ask \in Asks \cup NextMessages : request' = [at |-> "sent", ask |-> ask, steady |-> TRUE]
    BY DEF Send
  <1>2. WellAsked(ask)
    <2>1. CASE ask \in Asks
      BY <2>1, AsksAssumption DEF WellAsked
    <2>2. CASE ask \in NextMessages
      <3>1. PICK id \in told.ids : ask = NextMessage(told.ask, id)
        BY <2>2 DEF NextMessages, NextMessage
      <3>2. Backing(told)
        BY <3>1 DEF Consistent, Backed, Nothing
      <3>3. WellAsked(told.ask) /\ (told.ask.kind = "chat" \/ told.ask.kind = "models") /\ id \in Ids
        BY <3>2 DEF Backing
      <3> QED
        BY <3>1, <3>3, SameResolution
    <2> QED
      BY <2>1, <2>2
  <1>3. request'.at = "sent" /\ request'.ask = ask /\ request'.steady = TRUE /\ told' = told /\ loaded' = loaded
    BY <1>1 DEF Send
  <1>4. Current'
    BY <1>2, <1>3 DEF Current, Now
  <1>5. Backed'
    BY <1>3, NowStays DEF Consistent, Backed, Nothing
  <1> QED
    BY <1>3, <1>4, <1>5 DEF Consistent, ListedServed

LEMMA AuthenticateConsistent == ASSUME Consistent, Honoured', Authenticate PROVE Consistent'
  <1> DEFINE held == Contexts(request.ask.token)
             refusal == FirstOf(<<<<LegacyKey = None /\ Keys = {}, "auth_not_configured">>,
                                  <<held = {}, "unauthorized">>>>)
  <1>1. request.at = "sent" /\ request.at # "idle"
    BY DEF Authenticate
  <1>2. CASE refusal # None /\ Refuse(refusal)
    <2>1. ~Follows
      <3> SUFFICES ASSUME Follows PROVE FALSE
        OBVIOUS
      <3>1. PICK ctx : ctx \in held
        BY <1>1, FollowsIs
      <3>2. ~(held = {}) /\ ~(LegacyKey = None /\ Keys = {})
        BY <3>1 DEF Contexts
      <3>3. refusal = None
        <4> HIDE DEF held
        <4> QED
          BY <3>2, TwoPass
      <3> QED
        BY <1>2, <3>3
    <2> HIDE DEF refusal
    <2> QED
      BY <1>1, <1>2, <2>1, RefuseConsistent
  <1>3. CASE Refuse("forbidden")
    BY <1>1, <1>3, RefuseConsistent
  <1>4. ASSUME NEW ctx \in held, Proceed("known", [ctx |-> ctx]) PROVE Consistent'
    <2> DEFINE new == [ctx |-> ctx]
    <2>1. DOMAIN new = {"ctx"} /\ new["ctx"] = ctx
      OBVIOUS
    <2>2. Record(request, {"at", "ask"}) /\ "at" \notin DOMAIN new
      BY <1>1, <2>1 DEF Consistent, Honoured, Stage, Sent, Record
    <2>3. request'.at = "known" /\ request'.ctx = ctx /\ request'.ask = request.ask
      <3>1. Record(request, {"at"}) /\ "ask" \in DOMAIN request \ (DOMAIN new \cup {"at"})
        BY <2>1, <2>2 DEF Record
      <3> HIDE DEF new
      <3> QED
        BY <1>4, <2>1, <2>2, <3>1, ProceedIs DEF new
    <2>4. Now(request')
      BY <1>4, <2>3 DEF Now, KnownNow
    <2>5. DOMAIN new \cap {"at", "ask", "steady"} = {}
      BY <2>1
    <2> HIDE DEF new
    <2> QED
      BY <1>1, <1>4, <2>4, <2>5, ProceedConsistent DEF new
  <1> QED
    BY <1>2, <1>3, <1>4 DEF Authenticate

LEMMA ResolvePipelineConsistent == ASSUME Consistent, Honoured', ResolvePipeline PROVE Consistent'
  <1> DEFINE new == [pipe |-> Resolution(request.ask, request.ctx),
                     under |-> [policies |-> loaded.policies, fallback |-> loaded.fallback]]
  <1>1. request.at = "known" /\ request.at # "idle"
    BY DEF ResolvePipeline
  <1>2. CASE TurnedAway(request.ask, request.ctx) /\ Refuse("invalid_pipeline")
    <2>1. ~Follows
      <3> SUFFICES ASSUME Follows PROVE FALSE
        OBVIOUS
      <3>1. Now(request) /\ Loads
        BY <1>1, FollowsIs
      <3>2. PICK ctx \in Contexts(request.ask.token) : ~TurnedAway(request.ask, ctx)
        BY <1>1, FollowsIs
      <3>3. ctx = request.ctx
        BY <1>1, <3>1, <3>2, OneContext DEF Now, KnownNow
      <3> QED
        BY <1>2, <3>2, <3>3
    <2> QED
      BY <1>1, <1>2, <2>1, RefuseConsistent
  <1>3. CASE ~TurnedAway(request.ask, request.ctx) /\ Proceed("resolved", new)
    <2>1. DOMAIN new = {"pipe", "under"} /\ new["pipe"] = Resolution(request.ask, request.ctx)
      OBVIOUS
    <2> HIDE DEF new
    <2>2. /\ Record(request, {"at"}) /\ "at" \notin DOMAIN new
          /\ {"ask", "ctx"} \subseteq DOMAIN request \ (DOMAIN new \cup {"at"})
      BY <1>1, <2>1 DEF Consistent, Honoured, Stage, Sent, Recognised, Record
    <2>3. /\ request'.at = "resolved" /\ request'.ask = request.ask /\ request'.ctx = request.ctx
          /\ request'.pipe = Resolution(request.ask, request.ctx)
      BY <1>3, <2>1, <2>2, ProceedIs
    <2>4. request.steady => Now(request')
      BY <1>1, <1>3, <2>3 DEF Now, ResolvedNow, KnownNow, Consistent, Current
    <2>5. DOMAIN new \cap {"at", "ask", "steady"} = {}
      BY <2>1
    <2> QED
      BY <1>1, <1>3, <2>4, <2>5, ProceedConsistent
  <1> QED
    BY <1>2, <1>3, Zenon DEF ResolvePipeline, TurnedAway

LEMMA SearchConsistent == ASSUME Consistent, Honoured', Search PROVE Consistent'
  <1> DEFINE ask == request.ask
             pipe == request.pipe
             topK == IF ask.kind = "query" THEN Configs[loaded.settings].top_k ELSE 5
             new == [corpus |-> pipe.corpus, filters |-> pipe.filters,
                     top_k |-> Capped(ask.top_k, topK, pipe), max_results |-> Capped(ask.max_results, 20, pipe)]
  <1>1. request.at = "resolved" /\ request.at # "idle" /\ ~Follows
    BY FollowsIs DEF Search
  <1>2. CASE Refuse("invalid_pipeline")
    BY <1>1, <1>2, RefuseConsistent
  <1>3. CASE Proceed("searched", new)
    <2>1. DOMAIN new = {"corpus", "filters", "top_k", "max_results"}
      OBVIOUS
    <2> HIDE DEF new
    <2>2. Resolved(request) /\ DOMAIN new \cap {"at", "ask", "ctx", "pipe", "under"} = {}
      BY <1>1, <2>1 DEF Consistent, Honoured, Stage
    <2>3. request'.at = "searched"
      BY <1>3, <2>2, GoesOn DEF Consistent
    <2>4. Now(request') /\ DOMAIN new \cap {"at", "ask", "steady"} = {}
      BY <2>1, <2>3 DEF Now
    <2> QED
      BY <1>1, <1>3, <2>4, ProceedConsistent
  <1> QED
    BY <1>2, <1>3 DEF Search

\* The defaults of a pipeline are a provider's name and the id of a model.
LEMMA DefaultsAre ==
    ASSUME Loads, NEW ask, NEW ctx, ~TurnedAway(ask, ctx)
    PROVE  \A part \in {Resolution(ask, ctx), Resolution(ask, ctx).chunking} :
              part.provider \in Words /\ part.model \in Ids
  <1> DEFINE pid == PipelineId(ask, ctx)
             policy == IF pid = None THEN Unrestricted(Fallback) ELSE FromPolicy(pid, Pipelines[pid], Fallback)
             inter == Intersected(policy, ctx)
             pipe == Resolution(ask, ctx)
  <1>1. pid # None => pid \in DOMAIN Pipelines
    BY DEF TurnedAway
  <1>2. /\ policy.provider \in Words /\ policy.model \in Ids
        /\ policy.chunking.provider \in Words /\ policy.chunking.model \in Ids
    <2>1. CASE pid = None
      BY <2>1, IdIs, WordsAssumption DEF Unrestricted, NoChunking
    <2>2. CASE pid # None
      <3>1. \A part \in {Pipelines[pid], Pipelines[pid].chunking} : part.provider \in Words /\ part.model \in Ids
        BY <1>1, <2>2, ConfigsAssumption DEF Loads, Indices, Pipelines
      <3>2. /\ policy.provider = Pipelines[pid].provider /\ policy.model = Pipelines[pid].model
            /\ policy.chunking = Pipelines[pid].chunking
        BY <2>2 DEF FromPolicy
      <3> HIDE DEF policy, pid
      <3> QED
        BY <3>1, <3>2
    <2> QED
      BY <2>1, <2>2
  <1>3. Record(policy, PolicyFields)
    BY PolicyRecords
  <1> HIDE DEF policy
  <1>4. /\ Record(inter, PolicyFields) /\ inter.provider = policy.provider /\ inter.model = policy.model
        /\ inter.chunking = policy.chunking
    BY <1>3 DEF Intersected, Record, PolicyFields
  <1>5. pipe = [inter EXCEPT !.filters = Merged(@, ask.filters), !.corpus = IF ask.corpus = None THEN @ ELSE ask.corpus]
    BY Zenon DEF Resolution, policy
  <1>6. pipe.provider = inter.provider /\ pipe.model = inter.model /\ pipe.chunking = inter.chunking
    <2> HIDE DEF inter, pipe
    <2> QED
      BY <1>4, <1>5 DEF Record, PolicyFields
  <1> QED
    BY <1>2, <1>4, <1>6

LEMMA ChooseConsistent ==
    ASSUME Consistent, Honoured', request.at = "resolved", request.ask.kind = "chat",
           NEW provider, NEW model, NEW way, Choose(provider, model, way),
           request.steady => Decision(request.ask, request.pipe, provider, model, way)
    PROVE  Consistent'
  <1> DEFINE new == [provider |-> provider, model |-> model, way |-> way]
  <1>1. /\ DOMAIN new = {"provider", "model", "way"} /\ new["provider"] = provider
        /\ new["model"] = model /\ new["way"] = way
    OBVIOUS
  <1>2. Proceed("chosen", new)
    BY DEF Choose
  <1> HIDE DEF new
  <1>3. Resolved(request) /\ DOMAIN new \cap {"at", "ask", "ctx", "pipe", "under"} = {}
    BY <1>1 DEF Consistent, Honoured, Stage
  <1>4. /\ request'.at = "chosen" /\ request'.ask = request.ask /\ request'.ctx = request.ctx
        /\ request'.pipe = request.pipe
        /\ \A f \in DOMAIN new : request'[f] = new[f]
    BY <1>2, <1>3, GoesOn DEF Consistent
  <1>5. request'.provider = provider /\ request'.model = model /\ request'.way = way
    BY <1>1, <1>4
  <1>6. request.steady => Now(request')
    BY <1>4, <1>5 DEF Now, ResolvedNow, KnownNow, Consistent, Current
  <1>7. DOMAIN new \cap {"at", "ask", "steady"} = {}
    BY <1>1
  <1> QED
    BY <1>2, <1>6, <1>7, ProceedConsistent

LEMMA ResolveModelConsistent == ASSUME Consistent, Honoured', ResolveModel PROVE Consistent'
  <1> DEFINE id == request.ask.model
  <1>1. /\ request.at = "resolved" /\ request.at # "idle" /\ request.ask.kind = "chat"
        /\ request.ask.chunking \in BOOLEAN /\ id \in Ids /\ Loads
        /\ request.steady => ResolvedNow(request)
    BY DEF ResolveModel, Consistent, Current, Now, WellAsked, Honoured
  <1>2. /\ SelectedProvider(id) \in Words /\ SelectedModel(id) \in Ids
    BY <1>1, IdIs
  <1>3. Follows =>
           /\ SelectedModel(id) # Empty
           /\ SelectedProvider(id) = "" =>
                \E name : Candidates(SelectedModel(id), InferenceList(request.ask, request.pipe)) = {name}
    BY <1>1, FollowsLeads
  <1> HIDE DEF id
  <1>4. CASE Select
    <2>1. SelectedProvider(id) # ""
      BY <1>4 DEF Select, id
    <2>2. CASE SelectedModel(id) = Empty /\ Refuse("model_resolution_failed")
      BY <1>1, <1>3, <2>2, RefuseConsistent
    <2>3. CASE Choose(SelectedProvider(id), SelectedModel(id), "selected")
      <3>1. Decision(request.ask, request.pipe, SelectedProvider(id), SelectedModel(id), "selected")
        BY <1>2, <2>1 DEF Decision, id
      <3> QED
        BY <1>1, <2>3, <3>1, ChooseConsistent
    <2> QED
      BY <1>4, <2>2, <2>3 DEF Select, id
  <1>5. CASE Infer
    <2> DEFINE model == SelectedModel(id)
               found == Candidates(model, InferenceList(request.ask, request.pipe))
    <2>1. SelectedProvider(id) = "" /\ model # Empty /\ found \in SUBSET ProviderNames
      BY <1>5 DEF Infer, Candidates, id
    <2>2. CASE Cardinality(found) > 1 /\ Refuse("ambiguous_provider")
      <3>1. ~Follows
        <4> SUFFICES ASSUME Follows PROVE FALSE
          OBVIOUS
        <4>1. PICK name : found = {name}
          BY <1>3, <2>1
        <4> HIDE DEF found
        <4> QED
          BY <1>1, <2>1, <2>2, <4>1, SoleProvider
      <3> QED
        BY <1>1, <2>2, <3>1, RefuseConsistent
    <2>3. CASE found = {} /\ Refuse("provider_resolution_failed")
      <3>1. ~Follows
        BY <1>3, <2>1, <2>3
      <3> QED
        BY <1>1, <2>3, <3>1, RefuseConsistent
    <2>4. ASSUME ~(Cardinality(found) > 1), NEW name \in found, Choose(name, model, "inferred") PROVE Consistent'
      <3>1. found = {name} /\ name \in Words
        <4> HIDE DEF found
        <4> QED
          BY <1>1, <2>1, <2>4, SoleProvider, ProvidersAre
      <3>2. Decision(request.ask, request.pipe, name, model, "inferred")
        BY <1>2, <2>1, <3>1 DEF Decision, id
      <3> QED
        BY <1>1, <2>4, <3>2, ChooseConsistent
    <2> QED
      BY <1>5, <2>2, <2>3, <2>4 DEF Infer, id
  <1>6. CASE TakeDefault
    <2> DEFINE policy == IF request.ask.chunking THEN request.pipe.chunking ELSE request.pipe
    <2>1. SelectedProvider(id) = "" /\ SelectedModel(id) = Empty /\ ~Follows
      BY <1>3, <1>6 DEF TakeDefault, id
    <2>2. ASSUME NEW code, Refuse(code) PROVE Consistent'
      BY <1>1, <2>1, <2>2, RefuseConsistent
    <2>3. CASE Choose(Lower(policy.provider), policy.model, "default")
      <3>1. ASSUME request.steady PROVE Lower(policy.provider) \in Words /\ policy.model \in Ids
        <4>1. policy.provider \in Words /\ policy.model \in Ids
          BY <1>1, <3>1, DefaultsAre DEF ResolvedNow
        <4> HIDE DEF policy
        <4> QED
          BY <4>1, WordsAssumption
      <3>2. request.steady => Decision(request.ask, request.pipe, Lower(policy.provider), policy.model, "default")
        BY <2>1, <3>1 DEF Decision, id
      <3> HIDE DEF policy
      <3> QED
        BY <1>1, <2>3, <3>2, ChooseConsistent
    <2> QED
      BY <1>6, <2>2, <2>3 DEF TakeDefault
  <1> QED
    BY <1>4, <1>5, <1>6 DEF ResolveModel

LEMMA ThreePass ==
    ASSUME NEW c1, NEW c2, NEW c3, ~c1, ~c2, ~c3, NEW t1, NEW t2, NEW t3
    PROVE  FirstOf(<<<<c1, t1>>, <<c2, t2>>, <<c3, t3>>>>) = None
  <1> DEFINE checks == <<<<c1, t1>>, <<c2, t2>>, <<c3, t3>>>>
  <1>1. DOMAIN checks = 1 .. 3 /\ checks[1][1] = c1 /\ checks[2][1] = c2 /\ checks[3][1] = c3
    OBVIOUS
  <1>2. \A i \in 1 .. 3 : i = 1 \/ i = 2 \/ i = 3
    OBVIOUS
  <1> HIDE DEF checks
  <1> QED
    BY <1>1, <1>2, NothingFails DEF checks

LEMMA SevenPass ==
    ASSUME NEW c1, NEW c2, NEW c3, NEW c4, NEW c5, NEW c6, NEW c7,
           ~c1, ~c2, ~c3, ~c4, ~c5, ~c6, ~c7,
           NEW t1, NEW t2, NEW t3, NEW t4, NEW t5, NEW t6, NEW t7
    PROVE  FirstOf(<<<<c1, t1>>, <<c2, t2>>, <<c3, t3>>, <<c4, t4>>, <<c5, t5>>, <<c6, t6>>, <<c7, t7>>>>) = None
  <1> DEFINE checks == <<<<c1, t1>>, <<c2, t2>>, <<c3, t3>>, <<c4, t4>>, <<c5, t5>>, <<c6, t6>>, <<c7, t7>>>>
  <1>1. /\ DOMAIN checks = 1 .. 7 /\ checks[1][1] = c1 /\ checks[2][1] = c2 /\ checks[3][1] = c3
        /\ checks[4][1] = c4 /\ checks[5][1] = c5 /\ checks[6][1] = c6 /\ checks[7][1] = c7
    OBVIOUS
  <1>2. \A i \in 1 .. 7 : i = 1 \/ i = 2 \/ i = 3 \/ i = 4 \/ i = 5 \/ i = 6 \/ i = 7
    OBVIOUS
  <1> HIDE DEF checks
  <1> QED
    BY <1>1, <1>2, NothingFails DEF checks

\* A request whose provider and model are chosen goes on with both.
LEMMA ChosenGoesOn ==
    ASSUME Consistent, Honoured', request.at \in {"chosen", "checked"}, NEW at \in {"checked", "called"},
           NEW new, Proceed(at, new),
           DOMAIN new \cap {"at", "ask", "steady", "ctx", "pipe", "under", "provider", "model", "way"} = {}
    PROVE  Consistent'
  <1>1. Resolved(request) /\ Chosen(request) /\ Record(request, {"at"})
    BY DEF Consistent, Honoured, Stage, Checked, Chosen, Resolved, Recognised, Sent, Record
  <1>2. /\ {"ask", "ctx", "pipe", "provider", "model", "way"} \subseteq DOMAIN request
    BY <1>1 DEF Chosen, Resolved, Recognised, Sent, Record
  <1>3. /\ request'.at = at /\ \A f \in DOMAIN request \ (DOMAIN new \cup {"at"}) : request'[f] = request[f]
    <2>1. "at" \notin DOMAIN new
      OBVIOUS
    <2> QED
      BY <1>1, <2>1, ProceedIs
  <1>4. /\ request'.ask = request.ask /\ request'.ctx = request.ctx /\ request'.pipe = request.pipe
        /\ request'.provider = request.provider /\ request'.model = request.model /\ request'.way = request.way
    BY <1>2, <1>3
  <1>5. request.steady => Now(request')
    BY <1>3, <1>4 DEF Now, ResolvedNow, KnownNow, Consistent, Current
  <1>6. DOMAIN new \cap {"at", "ask", "steady"} = {}
    OBVIOUS
  <1> QED
    BY <1>5, <1>6, ProceedConsistent

LEMMA CheckProviderConsistent == ASSUME Consistent, Honoured', CheckProvider PROVE Consistent'
  <1> DEFINE pipe == request.pipe
             chat == ~request.ask.chunking
             c1 == request.provider \notin ProviderNames
             c2 == chat /\ ~Permitted(request.provider, pipe.providers)
             c3 == chat /\ ~ModelPermitted(request.provider, request.model, pipe.models)
             refusal == FirstOf(<<<<c1, "invalid_provider">>, <<c2, "forbidden_provider">>, <<c3, "forbidden_model">>>>)
  <1>1. request.at = "chosen" /\ request.at # "idle"
    BY DEF CheckProvider
  <1>2. CASE refusal # None /\ Refuse(refusal)
    <2>1. ~Follows
      <3> SUFFICES ASSUME Follows PROVE FALSE
        OBVIOUS
      <3>1. ~c1 /\ ~c2 /\ ~c3
        BY <1>1, FollowsLeads
      <3> HIDE DEF c1, c2, c3
      <3> QED
        BY <1>2, <3>1, ThreePass
    <2> HIDE DEF refusal
    <2> QED
      BY <1>1, <1>2, <2>1, RefuseConsistent
  <1>3. CASE Proceed("checked", <<>>)
    <2>1. DOMAIN <<>> = {}
      OBVIOUS
    <2> DEFINE new == <<>>
    <2>2. Proceed("checked", new) /\ DOMAIN new \cap {"at", "ask", "steady", "ctx", "pipe", "under", "provider", "model", "way"} = {}
      BY <1>3, <2>1
    <2> HIDE DEF new
    <2> QED
      BY <1>1, <2>2, ChosenGoesOn
  <1> QED
    BY <1>2, <1>3 DEF CheckProvider

LEMMA CallConsistent == ASSUME Consistent, Honoured', Call PROVE Consistent'
  <1> DEFINE ask == request.ask
             chunking == request.pipe.chunking
             c1 == request.provider \notin ProviderNames
             c2 == Definition(request.provider) = {}
             c3 == ask.chunking /\ ~chunking.enabled
             c4 == ask.chunking /\ \E pdef \in Definition(request.provider) : ~pdef.chunking
             c5 == ask.chunking /\ ~Permitted(request.provider, chunking.providers)
             c6 == ask.chunking /\ ~ModelPermitted(request.provider, request.model, chunking.models)
             c7 == \E pdef \in Definition(request.provider) : ~(Controlled(ask) \subseteq pdef.controls)
             refusal == FirstOf(<<<<c1, "internal_error">>, <<c2, "invalid_provider">>,
                                  <<c3, "chunking_policy_disabled">>, <<c4, "provider_chunking_disabled">>,
                                  <<c5, "forbidden_chunking_provider">>, <<c6, "forbidden_chunking_model">>,
                                  <<c7, "unsupported_client_control">>>>)
             New(pdef) == [max_tokens |-> Least(ask.max_tokens, request.pipe.max_output),
                           context |-> ContextLength(ask, pdef, request.pipe)]
  <1>1. request.at = "checked" /\ request.at # "idle"
    BY DEF Call
  <1>2. CASE refusal # None /\ Refuse(refusal)
    <2>1. ~Follows
      <3> SUFFICES ASSUME Follows PROVE FALSE
        OBVIOUS
      <3>1. ~c1 /\ ~c2
        BY <1>1, FollowsLeads
      <3>2. ~ask.chunking /\ Controlled(ask) = {}
        BY <1>1, FollowsIs
      <3>3. ~c3 /\ ~c4 /\ ~c5 /\ ~c6 /\ ~c7
        BY <3>2
      <3> HIDE DEF c1, c2, c3, c4, c5, c6, c7
      <3> QED
        BY <1>2, <3>1, <3>3, SevenPass
    <2> HIDE DEF refusal
    <2> QED
      BY <1>1, <1>2, <2>1, RefuseConsistent
  <1>3. ASSUME NEW pdef \in Definition(request.provider), Proceed("called", New(pdef)) PROVE Consistent'
    <2> DEFINE new == New(pdef)
    <2>1. DOMAIN new = {"max_tokens", "context"}
      OBVIOUS
    <2>2. Proceed("called", new) /\ DOMAIN new \cap {"at", "ask", "steady", "ctx", "pipe", "under", "provider", "model", "way"} = {}
      BY <1>3, <2>1
    <2> HIDE DEF new
    <2> QED
      BY <1>1, <2>2, ChosenGoesOn
  <1>4. \/ refusal # None /\ Refuse(refusal)
        \/ refusal = None /\ \E pdef \in Definition(request.provider) : Proceed("called", New(pdef))
    BY DEF Call
  <1> QED
    BY <1>2, <1>3, <1>4

\* What is told backs the ids of the next messages.
LEMMA TellConsistent ==
    ASSUME Consistent, Honoured', request.at # "idle", NEW at \in {"listed", "answered"}, NEW what, Tell(at, what),
           NEW t, t = Merged([ask |-> request.ask], what), request.steady => Backing(t)
    PROVE  Consistent'
  <1>1. request'.at = at /\ request'.ask = request.ask /\ request'.steady = request.steady /\ loaded' = loaded
        /\ told' = IF request.steady THEN t ELSE Nothing
    BY DEF Tell
  <1>2. Current'
    BY <1>1 DEF Consistent, Current, Now
  <1>3. Backed'
    <2>1. CASE request.steady
      BY <1>1, <2>1, NowStays DEF Backed
    <2>2. CASE ~request.steady
      BY <1>1, <2>2 DEF Backed, Nothing
    <2> QED
      BY <2>1, <2>2
  <1> QED
    BY <1>1, <1>2, <1>3 DEF Consistent, ListedServed

LEMMA AnswerConsistent == ASSUME Consistent, Honoured', Answer PROVE Consistent'
  <1>1. PICK up \in UpstreamNames(request.model) :
          Tell("answered", [kind |-> "answer", provider |-> request.provider, way |-> request.way,
                            ids |-> {AnswerId(request.ask.model, request.provider, up)}])
    BY DEF Answer
  <1> DEFINE what == [kind |-> "answer", provider |-> request.provider, way |-> request.way,
                      ids |-> {AnswerId(request.ask.model, request.provider, up)}]
             t == Merged([ask |-> request.ask], what)
  <1>2. /\ t.ask = request.ask /\ t.kind = "answer" /\ t.provider = request.provider /\ t.way = request.way
        /\ t.ids = {AnswerId(request.ask.model, request.provider, up)}
    BY DEF Merged
  <1>3. request.at = "called" /\ WellAsked(request.ask)
    BY DEF Answer, Consistent, Current
  <1> HIDE DEF t
  <1>4. ASSUME request.steady PROVE Backing(t)
    <2>1. /\ ResolvedNow(request) /\ request.ask.kind = "chat"
          /\ Decision(request.ask, request.pipe, request.provider, request.model, request.way)
      BY <1>3, <1>4 DEF Consistent, Current, Now
    <2>2. AnswerId(request.ask.model, request.provider, up) \in Ids
      <3>1. up \in Ids /\ request.provider \in Words
        BY <2>1, UpstreamIs DEF Decision
      <3> QED
        BY <3>1, PrefixedId DEF AnswerId
    <2>3. request.ctx \in Contexts(t.ask.token) /\ ~TurnedAway(t.ask, request.ctx)
          /\ request.pipe = Resolution(t.ask, request.ctx)
      BY <1>2, <2>1 DEF ResolvedNow, KnownNow
    <2>4. \A id \in t.ids : \E other \in UpstreamNames(request.model) : id = AnswerId(t.ask.model, t.provider, other)
      BY <1>2
    <2>5. Decision(t.ask, Resolution(t.ask, request.ctx), t.provider, request.model, t.way)
      BY <1>2, <2>1, <2>3
    <2>6. t.kind # "list" /\ WellAsked(t.ask) /\ t.ids \subseteq Ids /\ t.ask.kind = "chat"
      BY <1>2, <1>3, <2>1, <2>2
    <2> QED
      BY <2>3, <2>4, <2>5, <2>6 DEF Backing
  <1> HIDE DEF what
  <1> QED
    BY <1>1, <1>3, <1>4, TellConsistent DEF t, what

LEMMA ListModelsConsistent == ASSUME Consistent, Honoured', ListModels PROVE Consistent'
  <1> DEFINE pipe == request.pipe
             offered == UNION {{name} \X ListedModels(name) : name \in request.names}
             ids == {ListedId(request.names, pair[1], pair[2]) : pair \in
                       {p \in offered :
                          /\ Permitted(p[1], pipe.providers)
                          /\ \/ Permitted(ListedId(request.names, p[1], p[2]), pipe.models)
                             \/ Permitted(p[2], pipe.models)}}
             what == [kind |-> "list", ids |-> ids]
             t == Merged([ask |-> request.ask], what)
  <1>1. request.at = "listing" /\ WellAsked(request.ask) /\ Loads /\ Tell("listed", what)
    BY DEF ListModels, Consistent, Current, Honoured
  <1>2. t.ask = request.ask /\ t.kind = "list" /\ t.ids = ids
    <2> HIDE DEF ids
    <2> QED
      BY DEF Merged
  <1>3. ASSUME request.steady PROVE Backing(t)
    <2>1. ResolvedNow(request) /\ request.ask.kind = "models" /\ request.names = ProviderNames
      BY <1>1, <1>3 DEF Consistent, Current, Now
    <2>2. ASSUME NEW id \in ids
          PROVE  \E name, model : Offered(pipe, name, model) /\ id = ListedId(ProviderNames, name, model)
      <3>1. PICK pair \in offered : /\ Permitted(pair[1], pipe.providers)
                                    /\ \/ Permitted(ListedId(request.names, pair[1], pair[2]), pipe.models)
                                       \/ Permitted(pair[2], pipe.models)
                                    /\ id = ListedId(request.names, pair[1], pair[2])
        <4> HIDE DEF offered, pipe
        <4> QED
          BY <2>2
      <3>2. PICK name \in request.names : \E model \in ListedModels(name) : pair = <<name, model>>
        BY <3>1
      <3>3. PICK model \in ListedModels(name) : pair = <<name, model>>
        BY <3>2
      <3>4. Offered(pipe, name, model) /\ id = ListedId(ProviderNames, name, model)
        BY <2>1, <3>1, <3>2, <3>3 DEF Offered
      <3> QED
        BY <3>4
    <2>3. ASSUME NEW name, NEW model, Offered(pipe, name, model)
          PROVE  ListedId(ProviderNames, name, model) \in Ids
      <3>1. name \in Words /\ model \in Ids
        BY <1>1, <2>3, ProvidersAre DEF Offered
      <3> QED
        BY <3>1, PrefixedId DEF ListedId
    <2>4. request.ctx \in Contexts(t.ask.token) /\ ~TurnedAway(t.ask, request.ctx)
          /\ pipe = Resolution(t.ask, request.ctx)
      BY <1>2, <2>1 DEF ResolvedNow, KnownNow
    <2> HIDE DEF t, ids, pipe
    <2>5. WellAsked(t.ask) /\ t.ask.kind = "models" /\ t.ids \subseteq Ids
      BY <1>1, <1>2, <2>1, <2>2, <2>3
    <2>6. t.kind # "answer" /\ \A id \in t.ids : \E name, model :
             Offered(Resolution(t.ask, request.ctx), name, model) /\ id = ListedId(ProviderNames, name, model)
      BY <1>2, <2>2, <2>4
    <2> QED
      BY <2>4, <2>5, <2>6 DEF Backing
  <1> HIDE DEF ids
  <1> HIDE DEF what
  <1> QED
    BY <1>1, <1>3, TellConsistent

LEMMA ListNamesConsistent == ASSUME Consistent, Honoured', ListNames PROVE Consistent'
  <1> DEFINE new == [names |-> ProviderNames]
  <1>1. DOMAIN new = {"names"} /\ new["names"] = ProviderNames
    OBVIOUS
  <1>2. Proceed("listing", new) /\ request.at = "resolved" /\ request.at # "idle" /\ request.ask.kind = "models"
    BY DEF ListNames
  <1> HIDE DEF new
  <1>3. Resolved(request) /\ DOMAIN new \cap {"at", "ask", "ctx", "pipe", "under"} = {}
    BY <1>1, <1>2 DEF Consistent, Honoured, Stage
  <1>4. /\ request'.at = "listing" /\ request'.ask = request.ask /\ request'.ctx = request.ctx
        /\ request'.pipe = request.pipe /\ request'.names = ProviderNames
    BY <1>1, <1>2, <1>3, GoesOn DEF Consistent
  <1>5. request.steady => Now(request')
    BY <1>2, <1>4 DEF Now, ResolvedNow, KnownNow, Consistent, Current
  <1>6. DOMAIN new \cap {"at", "ask", "steady"} = {}
    BY <1>1
  <1> QED
    BY <1>2, <1>5, <1>6, ProceedConsistent

LEMMA StillConsistent ==
    ASSUME Consistent, Honoured', UNCHANGED <<loaded, request, told>>
    PROVE  Consistent'
  <1>1. /\ Now(request)' <=> Now(request)
        /\ Backing(told)' <=> Backing(told)
        /\ ProviderNames' = ProviderNames /\ NextMessages' = NextMessages
    BY NowStays DEF NextMessages
  <1> QED
    BY <1>1 DEF Consistent, Current, Backed, Nothing, ListedServed, FollowsUp

\* A reload that replaces a global with another ends what was told.
LEMMA AssignConsistent ==
    ASSUME Consistent, Honoured', NEW globals, NEW next, Assign(globals, next)
    PROVE  Consistent'
  <1>1. CASE globals = loaded
    <2>1. request' = request /\ told' = told /\ loaded' = loaded
      BY <1>1 DEF Assign
    <2> QED
      BY <2>1, StillConsistent
  <1>2. CASE globals # loaded
    <2>1. told' = Nothing /\ request' = IF request = Idle THEN request ELSE [request EXCEPT !.steady = FALSE]
      BY <1>2 DEF Assign
    <2>2. Backed' /\ ListedServed'
      BY <2>1 DEF Backed, ListedServed, FollowsUp
    <2>3. Current'
      <3> SUFFICES ASSUME request'.at # "idle" PROVE Current'
        BY DEF Current
      <3>1. request # Idle /\ request' = [request EXCEPT !.steady = FALSE]
        BY <2>1 DEF Idle
      <3>2. request.at # "idle"
        BY <3>1
      <3>3. Record(request, {"at", "ask", "steady"})
        BY <3>2 DEF Consistent, Honoured, Stage, Sent
      <3>4. request'.ask = request.ask /\ request'.steady = FALSE
        BY <3>1, <3>3 DEF Record
      <3> QED
        BY <3>2, <3>4 DEF Consistent, Current
    <2> QED
      BY <2>2, <2>3 DEF Consistent
  <1> QED
    BY <1>1, <1>2

---------------------------------------------------------------------------
(* The theorem                                                              *)

LEMMA InitConsistent == Init => Consistent
  <1> SUFFICES ASSUME Init PROVE Consistent
    OBVIOUS
  <1>1. request.at = "idle" /\ told = Nothing
    BY DEF Init, Idle
  <1> QED
    BY <1>1, InitHonoured DEF Consistent, Current, Backed, ListedServed

LEMMA NextConsistent == Consistent /\ [Next]_vars => Consistent'
  <1> SUFFICES ASSUME Consistent, [Next]_vars PROVE Consistent'
    OBVIOUS
  <1>1. Honoured'
    BY NextHonoured DEF Consistent
  <1>2. CASE UNCHANGED <<loaded, request, told>>
    BY <1>1, <1>2, StillConsistent
  <1>3. CASE ProviderFails
    BY <1>1, <1>3, RefuseConsistent DEF ProviderFails
  <1>4. CASE Export \/ BeginReload \/ UNCHANGED vars
    BY <1>2, <1>4 DEF Export, BeginReload, vars
  <1>5. CASE ReloadSettings \/ ReloadProviders \/ ReloadPolicies \/ ReloadKeys
    BY <1>1, <1>5, AssignConsistent DEF ReloadSettings, ReloadProviders, ReloadPolicies, ReloadKeys
  <1> QED
    BY <1>1, <1>3, <1>4, <1>5, SendConsistent, AuthenticateConsistent, ResolvePipelineConsistent,
       SearchConsistent, ResolveModelConsistent, CheckProviderConsistent, CallConsistent, AnswerConsistent,
       ListNamesConsistent, ListModelsConsistent DEF Next

\* The id of an answer leads back to the provider that gave it.
LEMMA AnswersStay == Consistent => AnswerStays
  <1> SUFFICES ASSUME Consistent, FollowsUp, told.kind = "answer", told.way # "default", request.at = "called"
               PROVE  request.provider = IF Len(told.ask.model) > 1 THEN Lower(told.provider) ELSE told.provider
    BY DEF AnswerStays
  <1>1. Backing(told) /\ Now(request) /\ Loads /\ WellAsked(told.ask)
    BY DEF Consistent, Backed, Current, FollowsUp, Honoured, Backing
  <1>2. PICK id \in told.ids : request.ask = NextMessage(told.ask, id)
    BY DEF FollowsUp, NextMessages, NextMessage
  <1>2a. PICK ctx \in Contexts(told.ask.token) : \E model :
          /\ Decision(told.ask, Resolution(told.ask, ctx), told.provider, model, told.way)
          /\ \A other \in told.ids : \E up \in UpstreamNames(model) :
                other = AnswerId(told.ask.model, told.provider, up)
    BY <1>1 DEF Backing
  <1>3. PICK model :
          /\ Decision(told.ask, Resolution(told.ask, ctx), told.provider, model, told.way)
          /\ \A other \in told.ids : \E up \in UpstreamNames(model) :
                other = AnswerId(told.ask.model, told.provider, up)
    BY <1>2a
  <1>4. PICK up \in UpstreamNames(model) : id = AnswerId(told.ask.model, told.provider, up)
    BY <1>3
  <1>5. id \in Ids /\ (told.ask.kind = "chat" \/ told.ask.kind = "models")
    BY <1>1 DEF Backing
  <1>6. /\ request.ask.model = id /\ request.ask.token = told.ask.token
        /\ request.ask.chunking = told.ask.chunking
        /\ Resolution(request.ask, ctx) = Resolution(told.ask, ctx)
    BY <1>1, <1>2, <1>5, SameResolution
  <1>7. /\ request.ctx \in Contexts(request.ask.token) /\ request.pipe = Resolution(request.ask, request.ctx)
        /\ Decision(request.ask, request.pipe, request.provider, request.model, request.way)
    BY <1>1 DEF Now, ResolvedNow, KnownNow
  <1>8. request.ctx = ctx
    BY <1>1, <1>3, <1>6, <1>7, OneContext
  <1> QED
    BY <1>1, <1>3, <1>4, <1>6, <1>7, <1>8, AnswerLeads

\* While no global is replaced, an id of the list of models is served: the
\* next message with it is refused only when the key may not chat, when the
\* provider fails, or for one of the two kinds of ids that the list gives and
\* the selector of providers reads otherwise.
THEOREM ListedAlwaysServed == Spec => []ListedServed
  <1>1. Consistent => ListedServed
    BY DEF Consistent
  <1> QED
    BY <1>1, InitConsistent, NextConsistent, PTL DEF Spec

\* The id an answer carries never leads the next message to another provider,
\* under any configurations, dates and spellings of names.
THEOREM AnswersAlwaysStay == Spec => []AnswerStays
  BY AnswersStay, InitConsistent, NextConsistent, PTL DEF Spec

=============================================================================
