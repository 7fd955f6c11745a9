# TLA+ models of TokenStream

TokenStream puts an OpenAI-compatible gateway, a retrieval service and an
ingestion pipeline behind one management API.  This directory holds TLA+
specifications of its stateful parts, the TLC configurations that check them on
small instances and TLAPS proofs about them.  A module `X` models a component, `MCX` gives
its constants values for TLC, and the theorems are in the modules `..._proofs` (table in
section 13).  Paths below are relative to the
repository root; `db.py` is `packages/config_auth/app/db.py`.

    tlc -workers 2 -config jobs.cfg MCIngestionJobs.tla
    tlapm Ingestion_proofs.tla

## 1. The system

| Part | State it keeps | Operations | Talks to |
| --- | --- | --- | --- |
| Registry (`packages/config_auth`, hosted by `services/dev-ui`) | SQLite tables: corpora, corpus_sources, ingestion_jobs, providers, policies, processors, profiles, RAG and MCP settings, users, sessions, API keys, audit events | management calls (threads of a FastAPI pool), internal calls of the worker | worker (purge), orchestrator (reload), runtime snapshot files, object store |
| Ingestion worker (`services/ingestion_worker`) | the jobs it polled, the run in progress; nothing survives a restart | poll, claim, run, heartbeat, report; purge endpoint | registry over HTTP, embedder, Qdrant, the lexical SQLite file, orchestrator (LLM chunking) |
| Index stores | Qdrant points, lexical rows, graph nodes, edges, aliases and links | upsert and delete by the worker, read by retrieval | worker, retrieval API |
| Runtime snapshots | eight JSON files | written by the registry, read by orchestrator and worker | registry, orchestrator |
| Orchestrator (`services/orchestrator_api`) | providers, policies, API keys, RAG tools in module globals; MCP clients | chat completions with a tool loop, reload, request policies | providers, MCP servers, retrieval API, snapshots |
| MCP clients (`app/mcp`) | session id, pending requests, reader task | connect, request, close, re-initialise | MCP servers |
| Provider adapters (`services/common/common/llm`) | none across calls | bounded retry of HTTP calls | model providers |
| Chunking helper (`services/common/common/chunking.py`) | a locked LRU cache | chunk plan of a block from an LLM answer | orchestrator |
| Retrieval API (`services/retrieval_api`) | none across calls | hybrid search with filters and graph expansion, lexical lookup | Qdrant, lexical file, registry |
| Accounts (`packages/config_auth`) | tables of users, roles, sessions and machine keys | login, logout, replacement of the users, creation and revocation of keys | every management call |

What is hard in it:

* **Check, then act.** Python's `sqlite3` opens a transaction at the first DML
  statement and not at a SELECT.  A repository method that selects, decides and
  writes is therefore two steps with room for others between them
  (`delete_corpus`, `cancel_ingestion_job`, `update_corpus_source`, ...), unless its
  first statement is the write (`claim_ingestion_job`, `heartbeat_ingestion_job`,
  `import_corpus_registry_bundle`).
* **Lost and late calls.** Worker and registry speak HTTP with client timeouts.  A
  request whose client has given up is still executed, now or later.
* **Restarts.** A worker keeps its run in memory.  A restart leaves the row in
  `running`, the indexes half written, and nobody who knows.
* **Two stores, no transaction.** An ingest deletes from SQLite, then from Qdrant,
  and later upserts to Qdrant, then to SQLite.  It can stop, fail or be joined by
  another run or a purge between any two of these.
* **Derived readiness.** Whether a corpus is ready is computed from timestamps that
  are taken before the write they stamp.
* **Copies of configuration.** A change is committed, exported to files and reloaded
  by the orchestrator in three separate steps, each of which can fail or overtake
  another change's.
* **Reads between writes.** A retrieval makes several searches, a login several
  connections, a chat completion looks its provider up twice: what was read first may
  be gone or replaced at the next step.
* **One client, many calls.** Chat completions share the client of an MCP server: its
  session, its pending requests and its event stream.
* **Answers of a model as data.** A chunk plan is whatever offsets a model returns, and
  the rest of the ingest relies on a plan that covers the text.
* **Tool loop and retries.** A chat completion alternates with tools for a bounded
  number of rounds, falls back to a call without tools, and sits on top of HTTP
  retries and MCP session re-initialisation.

What makes each part correct:

| Part | Properties |
| --- | --- |
| Jobs | one worker per job; completed means that the run returned; no running row without a worker before a fault; rows never outlive their corpus; a cancelled job that nobody works on stays cancelled; every job settles |
| Sources and readiness | ready only when every active source was covered by a completed run; a change of a source makes the corpus not ready until the next run |
| Indexes | a lexical row always has its vector; a source is skipped as unchanged only when the stores hold it; what is left after a failed run is repaired by the next; a purged source leaves nothing |
| Runtime configuration | the files follow the tables across crashes; a confirmed change is in the orchestrator; the orchestrator never goes back by itself |
| Chat loop | bounded rounds; every tool call is answered before the next model call; only allowed tools are called |
| Request policies | what reaches a provider or a search keeps every limit of key and policy, also across a reload; what is listed is served; an answered model leads back to its provider |
| MCP clients | every request is answered, fails or times out; nothing is left pending without anybody to settle it; no answer goes to another request; no request is executed twice |
| Chunking | whatever the model answers, nothing of a block is lost; the place of a chunk is where it was cut; vectors stay in the order of the chunks |
| Graph and retrieval | the graph hangs together whatever fails; an answer passes its filters; a better hit is not ranked behind |
| Accounts | a row, a password or a session never becomes another user's; a replacement of the users takes hold as a whole |

## 2. Ingestion jobs (`IngestionJobs`, `JobLifecycle`)

`IngestionJobs` models the job table of the registry, the calls that change it and
any number of workers that poll it.  A row's status is a value of `status`
(`"unused"` and `"gone"` stand for "no row yet" and "row deleted"); `corpora` and
`corpusOf` are the two columns the foreign key relates.  A worker is a record: its
place in `poll_jobs` / `run_ingest`, the rest of the list it polled, its job and the
number of sources it has still to go through.

| Action | Code |
| --- | --- |
| `CreateCorpus`, `ReplaceCorpus` | `create_corpus`, `ensure_corpus`, `import_corpus_registry_bundle` |
| `CreateJob` | `create_ingestion_job`; the foreign key makes check and INSERT one step |
| `BeginCancel`, `FinishCancel` | `cancel_ingestion_job` before and after its check |
| `BeginDelete`, `FinishDelete` | `delete_corpus` before and after its check |
| `Poll`, `Claim`, `ClaimRefused` | the list and claim calls of `poll_jobs` against `claim_ingestion_job` |
| `Load`, `NextSource`, `Check`, `Report`, `Return`, `Raise` | `run_ingest`, as the registry sees it |
| `Complete`, `Fail` | the last PATCH of a run |
| `ClaimTimesOut`, `CheckFails`, `ReportTimesOut`, `CompleteTimesOut`, `FailTimesOut` | the same calls when the client gives up; the request goes to `late` |
| `Arrive`, `Vanish` | a late request is executed, or never is |
| `Crash` | the worker process stops and starts again; a shutdown of `lifespan` ends in the same place |

Heartbeats write `updated_at` of a running row and nothing else.  They are an action of
`CorpusReadiness`, where time matters, and not of this module.

Reports that follow one another with nothing but data work between them are one
`Report`: the registry cannot tell them apart.  `started` and `returned` are history
variables.  They appear in no guard.

`JobLifecycle` says what all this amounts to for one job: created once, started at
most once, returned at most once, told about only after it was started, called
completed only after it returned.  `IngestionJobs` implements it: `Lifecycle` is the
instance of `JobLifecycle` with its own three variables (`ImplementsLifecycle`).

### Runs

| Run | Instance | Checks |
| --- | --- | --- |
| `jobs` | 1 corpus, 2 jobs, 2 workers, 1 caller, up to 1 source, 1 fault, fair workers | `ExclusiveRun`, `CompletedIsTrue`, `RunningIsServed` (up to the fault), `JobsHaveCorpus`, `CancelHolds`, `ImplementsLifecycle`, `JobsSettle` (up to the fault), `WorkerReturns` |

Two jobs and two workers are the least that let two workers race for one job while
another waits in an old list.  One caller is enough for every race, because each
has a user on one side and a worker or an atomic management call on the other.
One source gives the two checks and the two reports of a run.  One fault is a lost call, a
late one or a crash; that safety needs no bound on them is what the proofs add.  Jobs run
out, so the system may stop: deadlock is not checked.

Fairness (`FairSpec`) is weak fairness of `Proceed(w)`: `poll_jobs` is an endless loop
that catches every exception, and all its calls have timeouts.  Users are not
assumed to do anything and no fault is ever owed.

### What is not promised

* `CancelIsFinal` fails: `report_progress` sends `{"status": "running"}` and
  `update_ingestion_job` writes whatever it is given.  A cancellation that falls
  between a check and the report after it is overwritten; the run is not stopped
  by its later checks either, since they read `running`.  `CancelHolds` is what the
  code does guarantee.

Also in the model, and said by nobody: `delete_corpus` checks on a SELECT outside the
transaction of the write, so a job created in between disappears with its corpus
(`BeginDelete`, `CreateJob`, `FinishDelete`), and `FinishCancel` makes a job that completed in
between cancelled.

### Proofs (`Ingestion_proofs`)

For any sets of corpora, jobs, workers and callers and any bounds: `TypeCorrect`,
`ExclusiveRunHolds`, `CompletedIsTrueHolds`, `RunningIsServedHolds`,
`JobsHaveCorpusHolds`, `CancelHoldsAlways` and `Refinement`.  The only assumptions are that `None`
is neither a job nor a corpus and that the bounds are natural numbers.

None of the safety properties is inductive.  That two workers never share a job
needs to know that a held job was started (`HeldIsStarted`) and that a started job is
never pending again (`StartedLeftPending`), so that no claim of it can be granted, in
time or late.  That completed is true needs `ReturnedOnce` for the worker about to
send the PATCH and `LateIsTrue` for the PATCH already under way.  `Inductive` is the
conjunction; `NextInductive` proves it kept, action by action, and the theorems
follow from it.  `CancelHoldsAlways` and `Refinement` use it as the invariant under
which each step is examined.

Left to TLC: the two liveness properties.


## 3. Index stores (`IndexStores`)

`IndexStores` models what `run_ingest` and `purge_source_artifacts` do to the lexical
file (`rows`) and the Qdrant collection (`points`) of one corpus.  A chunk is its
source, its chunk id and the fingerprint of the content it was made of.  A writer is
a run or a purge: its place (`pc`), the sources it has still to go through, the
fingerprints it read from the index at the start (`hashes`), the ids it selected for
deletion (`doomed`) and what it has collected (`fetched`, `made`).  `newest`
is the fingerprint of a source's last row, which is what
`get_corpus_source_hashes` answers with.  The sources a run or a purge deals with, until it is
over, are its `Scope`.  Three history variables remember sources: those of which a deletion of
rows failed (`unsound`), those that any fault has hit (`hurt`), and those that were in the scope
of two writers at a time (`contested`).

| Action | Code |
| --- | --- |
| `AddSource`, `DropSource`, `Change` | sources are registered and deleted; `Change` is any change of what a source serves |
| `Begin`, `NextSource`, `Process`, `Skip`, `SourceFails`, `Cancelled` | the source loop of `run_ingest` with its comparison of fingerprints |
| `SelectOld`, `DeleteRows`, `DeletePoints` and their failures | `delete_corpus_document`: the ids are selected, the rows deleted and committed, then the points |
| `NoChunks`, `Embed`, `UpsertPoints`, `UpsertRows` and their failures | the stages after the loop |
| `End` | what `poll_jobs` does with the result |
| `BeginPurge`, `PurgeRows`, `PurgePoints`, `PurgeDrop` and their failures | the proxy and the purge endpoint of the worker |
| `Crash` | the worker process stops between any two of these |

The failures follow the code's own `except` clauses: a Qdrant delete that raises is
logged and answered with 0, a select that raises `OperationalError` is an empty
list, everything else of the loop marks the source as failed and goes on, and
everything after the loop ends the run.

| Run | Instance | Checks |
| --- | --- | --- |
| `stores_safety` | 2 sources, 2 fingerprints, 2 chunk ids, 2 writers, 1 fault | `RowsHavePoints`, `ReturnedIsIndexed`, `OneVersion`, `StoresAgree` |

Two sources let one be skipped or fail while the other is processed; two
fingerprints are an old and a new content; two chunk ids let the new chunks of a
source replace the old ones or not.  One fault is the least that separates the
stores; a second one gives no new way to leave a run half done but a slower check.
Two writers overlap on different sources.  `MCBound` cuts the search at the first contested
source, which the properties exempt, and, while both writers are busy, at a fault and at a
registry with fewer than both sources; the theorems have none of these bounds.

The order matters for what a failed run leaves: the old artifacts of a changed source go in
the loop, before anything is embedded (`docs/service_ingestion_worker.md` lists these steps the
other way round), so a run whose embedding fails leaves the source unindexed.  `ReturnedIsIndexed`
says that a later run does not take it for unchanged.

Writers overlap freely: a purge runs in a thread beside the poller, and two workers may run two
jobs of one corpus.  Nothing in the code keeps them from the same source, and on a source that two
of them deal with at a time each of the four properties fails (TLC refutes each of them when
`Apart` is all of `Sources`); no document promises otherwise.  The properties are therefore about
the sources that are not `contested`, for good from the moment a second writer takes them on:
whatever other writers do to other sources of the corpus does them no harm.  `OneVersion`
also leaves out sources of which a deletion of rows failed, and `StoresAgree` sources that a fault
has hit: a swallowed Qdrant failure (`indexers.py:447`) does leave old points, and a swallowed
`OperationalError` (`indexers.py:502`) old rows.

Not in this module: a source whose archive holds several documents (one document
per source here); a source without a fingerprint; a selective run that matches
nothing (`CorpusReadiness` has it); the graph tables (`GraphIndex` has them).  `Begin` reads the list of
sources and the fingerprints in one step.

### Proofs (`IndexStores_proofs`)

For any writers, however they overlap, and any sources, fingerprints, ids and bounds: `TypeCorrect`,
`SoundAlways`, and from it `RowsAlwaysHavePoints`, `ReturnedAlwaysIndexed`, `AlwaysOneVersion` and
`StoresAlwaysAgree`.  `Sound` adds to the
four properties what a run has done so far: the sources still to do and those done
are disjoint (`RunInOrder`), `newest` is the fingerprint of some row
(`NewestIsARow`), one writer at a time deals with a source that is not contested (`OneAtATime`),
and `HashesHold`, `Halfway` and `OneStep` say of a writer and a source which of its
rows and points are already gone and which are already new.  The argument is per source.  A step
changes nothing of a source outside the writer's scope (`RowsElsewhere`, `PointsElsewhere`) and no
memory of another writer (`OthersUntouched`), so what holds of another writer stays
(`OtherWriter`); what the writer's own step does to a source is one lemma per part
(`HashesStep`, `HalfwayStep`, `ReturnedStep`, `AgreeStep`, ...), with one case per action.

## 4. Sources and readiness (`CorpusReadiness`)

`get_corpus_readiness` keeps no record of what was indexed.  It compares stamps: the
newest `updated_at` of an active source with the newest `updated_at` of a completed
job.  `CorpusReadiness` models where these stamps come from.  A method of the
repository calls `iso_now` before it has the write lock, so a management call on a
source is `BeginSource`, which takes the time, and `FinishAdd` or `FinishUpdate`, which
write it; a PATCH of the worker is `Receive` and `Commit`.  `revision` counts the
versions of a source, `indexed` is the version the index has, `asked` and `covered`
are history: the versions when a job was created and the sources its run covered.

| Action | Code |
| --- | --- |
| `BeginSource`, `CheckUpdate`, `FinishAdd`, `FinishUpdate`, `Refused`, `Drop` | `create_corpus_source`, `add_uploaded_corpus_source`, `update_corpus_source`, `delete_corpus_source` |
| `CreateJob`, `BeginCancel`, `FinishCancel`, `Claim`, `Heartbeat` | the calls on jobs, with the stamps they write |
| `Load`, `LoadNothing`, `Report`, `Return`, `Raise`, `Interrupted` | `run_ingest` and `load_corpus`, as far as readiness can tell |
| `Answered`, `TimesOut`, `Receive`, `Commit`, `Vanish` | the PATCH requests of a run, late and lost ones included |
| `Crash` | the worker process stops |

The clock may stand still between two calls: `iso_now` has a resolution.  What a run
does to the stores is one step here (`Return`, or the loss of some old versions in
`Raise`, `Interrupted` and `Crash`); `IndexStores` has the steps.

| Run | Instance | Checks |
| --- | --- | --- |
| `ready_sources` | 2 sources, 1 job over any of them, 1 management call, clock 0..2, 1 revision, 1 fault | `CompletedMakesReady`, `OnlyCompletionMakesReady` |
| `ready_runs` | 1 source, 2 jobs, 2 management calls, clock 0..1, 2 revisions | `NeverOlderThanAsked` |
| `ready_wait` | 1 source, 2 jobs, no fault | **violated**: ready although the job asked for after the change has not run (`WaitingForReadinessIsEnough`) |

Two sources are needed for a job over some of them and for a run in which one
fails; two jobs and two revisions for runs in another order than the jobs; two
management calls for two changes of one row written against the order of their
stamps.  All of it at once is out of TLC's reach, so there are two instances.

"Ready" says that some job was completed after the last
change was stamped.  It does not say that this job covered every source
(`ReadyIsIndexed`) nor that it saw the last change (`WaitingForReadinessIsEnough`); a
client that needs the latter has to wait for its own job, and for that one
`NeverOlderThanAsked` and `CompletedMakesReady` are what the code guarantees.

### Proofs (`CorpusReadiness_proofs`)

For any sets and bounds and any number of workers: `TypeCorrect`,
`CompletedAlwaysMakesReady` and `OnlyCompletionsMakeReady`.  The first of the two needs
that stamps lie in the past, also those of calls still in progress
(`StampsArePast`), that requests are about started jobs (`StartedJobs`) and that a
completion, under way or written, is stamped after every change its client had
seen (`CompletionIsLater`).  Under `OneWorker`, one run after the other: `TimelyAlways`
and from it `AlwaysAsRecentAsAsked`.  It adds that a run has seen what any client of a
covered source had seen (`SeenIsRecent`, `CoveredIsIndexed`).  With two workers it is
false: a slow run can index an old version over a newer one.

## 5. The chat completion loop (`ToolLoop`)

One request in `_run_chat_completion` (`services/orchestrator_api/app/main.py`) after
its checks: it asks the provider, runs the tools that the answer names, appends their
answers and asks again.  Completions write nothing that another one reads, so there
is one, and the hard part is its environment: every attempt may be busy, lost, refused,
denied, garbled, empty, final or a list of tool calls, and every tool call may be
one that is allowed, not allowed, unknown or malformed.

| State | In the code |
| --- | --- |
| `req` | the request's task, tools, `tool_choice` and `response_format`, the provider's capability, `enable_server_tools`, MCP, the allowed tools of its pipeline |
| `round`, `offered`, `retried`, `messages`, `toolMsgs`, `content` | `round_idx`, `tools`, `retried_without_tools`, the appended `messages`, `tool_msgs`, `content` |
| `attempt`, `kept` | `attempt` of the adapter and the status of its `resp`, which outlives a later attempt without a response |
| `calls`, `pc` | the tool calls still to be run; what the completion awaits |
| `executed`, `posts`, `why`, `outcome` | history: tools that were called, requests that were sent, the end of the last attempt, what the client is told |

`BusyAgain`, `LostAgain` and the `...AtLast` actions are the attempts of `chat` in
`openai_compat.py` and `ollama.py` (the Anthropic adapter makes one:
`MaxRetries = 0`); `Raise` is the `except LLMError` of the loop; `EmptyAnswer`,
`FinalAnswer` and `ToolAnswer` are the ways through the rest of its body and
`RunTool` is one pass of the inner loop.  A message is reduced to its role
and a number: how many calls an assistant's message makes, or which of them a tool's
message answers.  Of a body of a refusal only what `_should_retry_without_tools` finds in it
counts: `Refused` is one that speaks against the tools, `Denied` any other.  `executed`
counts a call as made when it passes the checks of the orchestrator itself; the corpus
of a retrieval may still be refused after that.

| Run | Instance | Checks |
| --- | --- | --- |
| `tool_loop` | 7 requests, 1 MCP tool and the retrieval tool, 3 rounds, 2 attempts, up to 2 calls in an answer | `AnsweredBeforeAsked`, `PostsBounded`, `AnswerIsFit`, `WithdrawnForCause`, `CompletionEnds` |

Three rounds are one for tools, one for the repetition and one after it; a repetition in
the last round, which is then never made, is among the behaviours.  Two attempts let a kept status meet a lost attempt.
Two calls let one fail beside another.  The requests differ in the policy, `tool_choice`, MCP,
the format, and chunking with and without the client's own tools.  A completion ends, so
deadlock is not checked.  Fairness: an attempt that gets no answer is given up by httpx
after the time limit, and a tool call is answered or given up
- but for an MCP server that keeps sending lines (section 8), which this run leaves aside; the provider owes no answer.

* `AnsweredBeforeAsked` - providers reject a history in which a tool call has no answer.
* `WithdrawnForCause` - the tools go once, for good and for what the last attempt said.  It
  rests on a fact about the adapter: the status it keeps is one that is worth a retry,
  and none of these speaks against tools.
* `ExceededIsTrue` (proved) - "Exceeded maximum tool rounds" is said only when the model asked for tools in
  every round, but for one that the repetition may have taken.
* `PostsBounded`, `AnswerIsFit`, `CompletionEnds`, and `PolicyHonoured` (proved).

A model may name tools that it was not offered, also with `tool_choice` "none" or after they
were withdrawn; the code calls them if the policy allows, and so does the model.

### Proofs (`Orchestrator_proofs`)

All safety properties are proved, for any limits, tools and requests.  `TypeAlways`
comes first and carries the fact about the kept status from which
`WithdrawnOnlyForCause` follows.  `PostsAlwaysBounded` needs `SentSoFar`: rounds
that are over cost at most `MaxRetries + 1` each and the current one its attempts; the
solver gets the three facts about products as a lemma.  `AlwaysAnswered` needs `History`:
between two calls of the provider the history is whole but for its last message, whose calls are
those answered already and those left; `AppendKeeps` and `AnswersComplete` are its lemmas
about sequences.  `ExceededAlwaysTrue` needs `Counted`: the assistant's messages and the repetition together
number the rounds; `AnswerAlwaysFit` needs that until the end every one of those messages asks for tools.

## 6. Changes of the configuration (`RuntimeConfig`)

A management change goes through three stores: the registry's tables, the snapshot files
and the globals of the orchestrator.  `db`, `file` and `mem` hold the version of each part of the
configuration in each of them; `last` counts the versions.  A file may also be `Empty`, opened and
not yet written, or `Bad`, written by two exporters at once.  `bare` has the versions without records
or with nothing but defaults, which a start may replace; `boot` those with the records of the bootstrap file, which
a start keeps.

The registry is an event loop with threads beside it.  The endpoints that change the
configuration are coroutines that commit and export without an `await`, so two of them
overlap only while they wait for the orchestrator.  Importing a registry bundle is a plain
function: it runs in a thread, and its export overlaps with those of the loop.  The reload of the
orchestrator is a plain function too: reloads run in threads beside each other.

| Action | Code |
| --- | --- |
| `Change` | the commit of `replace_*`, `create_api_key`, `revoke_api_key`, `update_rag_settings`, `update_mcp_settings` |
| `Import` | `import_corpus_registry_bundle`, which commits nothing that is exported, up to its export |
| `Read`, `Open`, `Fill` | `export_runtime_snapshots`: one SELECT for each payload, then `write_text` for each file |
| `Notify`, `Reply`, `GivesUp` | `notify_orchestrator_reload`, whose request goes on when its client has given up |
| `Crash`, `Start` | the registry stops; `init_config_auth_runtime` begins |
| `Sync`, `Take`, `Seed` | `import_or_seed_runtime_defaults`: providers, policies, processors and profiles that differ from their bootstrap file are put back to it (`db.py:403-406`, `480-530`), then bare parts are taken from their snapshots, one after the other and each with an export; what is left is seeded, and all is exported |
| `BeginReload`, `LoadPart`, `AssignPart` | `reload_runtime_state`, one global after the other; a torn file ends it half way |
| `Restart` | the orchestrator stops and starts |

`alone` and `own` of a reload and `disturbed` are history: whether another reload ran beside it,
which version of its caller's part it has loaded, and whether an import has ever exported while a change was
made.  What a start commits is a new version, whatever records it holds.

| Run | Instance | Checks |
| --- | --- | --- |
| `config_safety` | 2 parts (policies; RAG settings), 2 changes, 1 import, crash or restart | `SnapshotsFollow`, `ConfirmedIsLoaded`, `ReloadedIsCurrent`, `NeverBack` |

Two parts are one whose change has to be reloaded and which every start puts back to its bootstrap file, as the compose
file configures it, and one which a start may take from its snapshot or fill with defaults; two changes let an
export and a reload overtake each other.  One import, crash
or restart keeps the run short (1.1 million states).  A torn file that stops a start takes an import and
a crash: checked by hand with one change and `MaxEvents = 2` (126,000 states), and covered
by the proofs.  The two changes are alike, so the run uses symmetry; it checks no liveness.
The last call may have been answered and nothing be left to do, so deadlock is not checked.

All four say nothing, or less, once `disturbed` holds: an import that exports in its thread while the loop
commits a change may write an older version last, and nothing in the code repairs that before the next export.

* `SnapshotsFollow` - whatever a crash left in the files, a start exports before it serves; a start that cannot read a file
  does not serve.
* `ConfirmedIsLoaded` - 200 after a change of providers, policies, processors or profiles
  means that this change, or a later one, is in the orchestrator, also when the reload of another
  call tore or overtook it.  It is about the caller's own reload: another one that runs beside it may put back
  what it had read before.
* `NeverBack` - nothing else takes the orchestrator back to an older commit: not a crash, a torn file or a late reload.
  Putting a part back to its bootstrap file is a commit, and a step forward here; what it does to an administrator's
  change is in section 12.
* `ReloadedIsCurrent` - when all reloads went through one after the other, it has what the tables have.

What is not promised: the answer to a change of keys, RAG or MCP settings says nothing about
the reload, and a revoked key works until some reload goes through.  A crash between the
commit that empties a part and its export brings the old content back, in a new version (`Take`).

Abstracted: a restart of the orchestrator loads all files in one step; the export after each seeding
is merged with the last one; the RAG and MCP files, which `load_settings` skips when they cannot be
read, count as parts only as far as they are whole; a bootstrap file does not change while the registry
runs, and a write that raises `OSError` is left out.

### Proofs (`ConfigAuth_proofs`)

For any number of parts, calls, starts and imports: `TypeAlways`, `SnapshotsAlwaysFollow`,
`ConfirmedAlwaysLoaded`, `ReloadedAlwaysCurrent` and `NeverGoesBack`.  None of the properties is
inductive.  The invariant is `TypeOK /\ Always /\ (disturbed \/ Clean)`: `Always` says who can be
at work at the same time, `Clean` how the versions relate as long as nothing has disturbed.

* `StartAlone`, `Exporting`, `Asked`, `Together` (in `Always`): one start at a time, the loop exports
  what is committed, a reload is asked for after the export, reloads that overlap know it.
* `Agreed`: every exporter has the current versions; `Following`: a file that is not current is about to
  be written (which crash and start must not break); these two give `SnapshotsFollow`.
* `Ordered`, `Carried`: versions only grow from the tables over the files to what a reload
  holds; needed for `NeverBack`.
* `Loaded`: from the moment its reload is asked for, a change is in its file, and then in what the
  reload has loaded; needed for `ConfirmedIsLoaded`.
* `Owed`: a version that is missing in the orchestrator is still to come with some reload, or a reload
  that failed or overlapped is the reason; needed for `ReloadedIsCurrent`.

## 7. Requests and policies (`RequestPolicy`)

What a request to the orchestrator may do follows from the key it comes with, the pipeline it
names, the limits of both and the provider and model that result.  Requests keep nothing
another request reads, so one caller with one request after the other stands for all.  Beside it
the files change and a reload, in a thread, replaces the module globals one by one.

| State | In the code |
| --- | --- |
| `disk`, `loaded`, `reload` | the configuration in the snapshot files, the one each global was loaded from (`settings`, `providers`, `policies`, the fallback corpus they were loaded under, `keys`), the global a reload replaces next |
| `request` | how far the request is, with its context, its pipeline and its choice of provider and model |
| `told` | history: the ids that the last list or answer told the caller |

| Action | Code (`services/orchestrator_api/app`) |
| --- | --- |
| `Authenticate` | `require_auth_context`, `require_scope` with the legacy key |
| `ResolvePipeline` | `_resolve_pipeline` with the intersection of policy and key |
| `Search` | `/v1/rag/query`, `/v1/rag/lookup` up to the call of the retrieval API |
| `ResolveModel` (`Select`, `Infer`, `TakeDefault`), `CheckProvider`, `Call` | the checks of a chat completion before its loop, in their order |
| `Answer`, `ProviderFails` | the model id of the answer; what the loop does in between is `ToolLoop` |
| `ListNames`, `ListModels` | `models_v1`, which reads two globals one after the other |
| `Export`, `BeginReload`, `ReloadSettings`, `ReloadProviders`, `ReloadPolicies`, `ReloadKeys` | `reload_runtime_state`; a type of provider without an adapter stops it half way |

| Run | Instance | Checks |
| --- | --- | --- |
| `policy` | 3 configurations, requests with 4 tokens, 3 pipelines or none, 10 model ids, chunking or not, with and without controls | `WithinLimits`, `ListedServed`, `AnswerStays` |

The first configuration has two providers that share a model under policies and keys that
limit each other, the second one provider whose name is not in lower case and whose models
have colons, the third a provider whose type stops the reload.  Three
are enough for a request that is checked under two of them while a third is on its way.

* `WithinLimits` - a call that reaches a provider keeps every list and limit of its key and of
  the policy it was resolved under, whatever is reloaded while it is checked; a search goes to a
  corpus of its policy and asks for no more than both allow.  The context keeps both limits of a
  kind when both are positive; `KeyLimitsHold` (section 12) is what the documents promise beyond that.
* `ListedServed` - an id of `/v1/models`, sent with the same key and pipeline and no reload in between, is not refused.
* `AnswerStays` - the model id of an answer, sent back, leads to the provider that answered.

Two kinds of ids are listed and refused, and `ListedServed` names them: with an only
provider, a model whose id has a colon is listed without a prefix and read as the name of a provider;
a provider whose name is not in lower case is listed and never found.  `AnswerStays` leaves out
the answers to requests that took the default of their policy: it need not be a model its provider
lists, so the bare id of such an answer may be ambiguous or belong to another provider, which is
the trouble the comment at `main.py:919-922` is about.  A chunking call is held to the
lists of the chunking policy only, not to those of the key; the code says so in its structure
and no document says otherwise.  `admin_config.py` and `admin_routes.py` are not imported by the program.

### Proofs (`RequestPolicy_proofs`)

`AlwaysWithinLimits` proves `WithinLimits` for any configurations, requests, lists and windows, under
the named assumptions: limits are numbers or `None`, lists are sets, a request has its fields.  The
invariant is `Honoured`.  `WithinLimits` speaks of the last stage of a request only, so `Stage` says for each
stage before it what is settled by then: that the pipeline is that of the policy narrowed by the key
(`Narrowed`) and its corpus the one asked for or the policy's (`Placed`), and which lists have been passed (`Checked`).
The policy is the one of the configuration the request was resolved under, which a reload
does not touch: it replaces the globals and marks the request as unsteady, and the provider's definition, which is
read again in `Call`, brings only its own windows.  The rest are facts about `Least`, `Both` and the smallest
of up to four numbers, and about the first of the checks that fails.

`ListedAlwaysServed` and `AnswersAlwaysStay` compare two requests, so their invariant, `Consistent`,
remembers the first one.  `Backed` says that what the caller was told is still backed by the
globals as they are: for a list, that each of its ids comes from a provider that passed every check of
the context of that key, under the lists of that pipeline; for an answer, that the same decision
would be made again.  `Current` says that a request no reload has disturbed was resolved from the globals
as they are.  A reload ends both, and with them the promise: `told` is dropped and the request is no longer
steady.  The lemmas under
them read an id the way the code does: a list of words between colons, of which the
first, in lower case, is the name of a provider; that the name of an upstream model put into an
id is found in it again (`AnswerId`, `Candidates`); and that the checks of a chat completion depend on
nothing but the context, the decision and the globals.  They use what `WordsAssumption` says of
`str.lower` (it is idempotent and makes no word empty), `DatedAssumption` (a dated name begins with the name it
is a date of), and that the providers of a configuration are a finite set of records with their fields.

## 8. MCP client (`McpClient`)

One MCP server and the client object that `McpToolRegistry` keeps for it, for either
transport.  Everything runs on one event loop, so a step lasts from one await to the next.

| State | In the code (`app/mcp/http_client.py`, `registry.py`) |
| --- | --- |
| `life`, `known`, `open` | the registry, its entry for the client, `_client` |
| `nextId`, `session`, `pending`, `fut`, `reader` | `_next_id`, `_session_id`, `_pending`, the futures in it, the SSE reader task |
| `task` | where the start of the registry (`Boot`) and each chat completion (`Callers`) are in their request: waiting for the POST, for the future, or for the notification that follows `initialize`; `kept` is the id a renewal will repeat, `answer` how far the response has come |
| `live`, `issued`, `served`, `stream` | the server (external): its sessions, what it executed, the answers on the stream |
| `alone`, `misled` | history: who renewed with the server to itself; which requests were repeated for an answer that was not theirs |

| Action | Code |
| --- | --- |
| `Start`, `Call`, `Close` | `McpToolRegistry.start`, `execute_tool_calls`, `close` |
| `ReadMore`, `Receive` | a line that is not the answer, and the end of a response of `StreamableHttpMcpClient._request`: its session header, the fallback `last_jsonrpc or {}`, the renewal on "session not found" and the repeated POST |
| `Lost` | `httpx.HTTPError`: the connection fails, or one read gets nothing for the timeout |
| `Accepted`, `PostFails`, `Wake`, `TimesOut` | `SseMcpClient._request` and `_post_message` |
| `Deliver`, `ReaderCrashes`, `ReaderEnds` | `_handle_sse_data` and the ends of `_sse_reader` |
| `Serve`, `Feed`, `Take`, `Evict` | the server; it may answer late, never, with an error or with what is no answer, send lines for ever, and forget a session |

| Run | Instance | Checks |
| --- | --- | --- |
| `mcp` | 2 chat completions, 6 ids, 3 sessions, 1 forgotten session, fair tasks | `NoOrphans`, `OwnAnswerOnce`, `RenewalWorks`, `RequestsEnd` |

Two completions let one renew the session that the other works in; six ids are the start with
up to five pages, or one page, two calls and two renewals; three sessions let two renewals overlap.
Nothing bounds the pages of a tool list but the ids.  What a response says is chosen when it is read, among what the
server can say by then: a session it does not know now it will not know later.  `McpFairSpec`
is weak fairness of `Proceed(t)` for every task: the event loop runs each task whose await is over.
`httpx` has a timeout for each read, `wait_for` one for the answer on the stream; no response as a whole has a
deadline, so a task may read lines for ever (`Feed`, `ReadMore`).  The server owes
nothing.  The registry may be closed and all ids used, so deadlock is not checked.

* `NoOrphans` - a task that waits for a future can still be reached by the answer, by the crash of
  the reader, or already has been.
* `OwnAnswerOnce` - over SSE it takes only the answer to its own request, and no request is executed
  twice although it may be sent twice.  Over HTTP the client takes any message that looks like an answer when
  none has its id (`http_client.py:134-143`); if that message tells of an expired session, a request that was executed is
  repeated (`misled`), the one exception.
* `RenewalWorks` - after a renewal the request is repeated in a session the server knows, if it forgot
  none, answered `initialize` itself, and no other call was made.  Renewals beside each other are modelled and may fail:
  see section 12.
* `RequestsEnd` - every request ends, also when the stream ends in order and nobody tells the
  waiting ones.  It does not say so of a server that keeps sending lines, nor of the start of the registry with a
  server that has a next page for ever: nothing in the code ends those.

In the model and promised by nobody: the future of an SSE request whose POST fails stays in `_pending`
until the client is closed (`PostFails`), and a client that `start` gives up is dropped with
its reader running (`GiveUp`).

### Proofs (`Orchestrator_proofs`)

For any set of callers and any bounds: `NoOrphansEver` and `OwnAnswerAlwaysOnce`.
`HeldOnce` says that every id a task holds was given out and that no two tasks hold the same one.
On it rests one invariant for each transport.  `HttpInv` adds that what will be repeated, or is posted and not done
yet, was not executed unless its task was misled (`Executed`, `AllOnce`); `SseInv` adds that a future, an
answer on the stream and the task that waits belong together (`Futures`, `AllHeard`).  The
transport never changes, so each step is examined under its own.

`RenewalAlwaysWorks` has an invariant of its own, `Settled`: a task in `alone` (history: it began to renew and
since then no other call was active, the server forgot nothing and `initialize` got its answer) holds a session that is the client's and that the
server knows, from the answer to its `initialize` over the notification to the repeated request (`Renewed`).

## 9. Chunking (`Chunking`)

From the parsed blocks of one source to its embedded chunks: `blocks_to_chunks`, the chunk plan
of a long block with its windows, cache and model calls (`services/common/common/chunking.py`) and
`embed_texts`.  A text is a sequence of characters of three kinds: white space, a full stop, and
letters.  Slices count from 0 as in the code.

| Action | Code |
| --- | --- |
| `Pack` | the packing of blocks into groups within the target |
| `TakeWhole`, `TakeCached`, `BeginPlan` | a group that is short enough, one in the cache (where it becomes the newest), one that goes to the model |
| `AskAgain`, `AskFails`, `Answer` | the three attempts for a window, the errors that end them, an answer with offsets; the last window stores the plan in the cache |
| `BeginEmbed`, `EmbedBatch`, `Embedded` | `embed_texts`: batches, and the halves of one that is refused with 413 |

| Run | Instance | Checks |
| --- | --- | --- |
| `chunking` | 9 sources, answers of up to two pairs of 42 offset pairs, target 3, window 6, overlap 2, words up to 2, 1 cache entry, batches of 3, an embedder that takes 0 to 3 texts | `PlanHolds`, `ChunksHold`, `VectorsInOrder` |

The sources have short blocks of two documents, blocks of one, two and three windows,
words that are longer than a snap may move, and repetitions, which a search by text may take for one
another.  Two pairs can overlap, leave a gap, repeat each other and lie outside of the text; the
code handles one pair after the other, so a third meets only what the second met.

* `PlanHolds` - whatever the model answers, every character that is not white space is in a
  passage that reads like a chunk, also where windows overlap and repetitions are dropped; no word is
  cut that a snap could have kept.
* `ChunksHold` - the byte range of a chunk is where it was cut; packing keeps order, document and size.
* `VectorsInOrder` - the vectors are those of the chunks in their order.

### Proofs (`Ingestion_proofs`)

`PlanAlwaysHolds`, `ChunksAlwaysHold` and `VectorsAlwaysInOrder`, for any sources, any answers and any sizes.
Assumed are `SizesAssumption`, `SourcesAssumption` (a source is a list of blocks whose texts are
sequences of characters) and `AnswersAssumption` (an answer is pairs of integers, of any size and in any number, but
not none: the code refuses an empty list before it goes on).

Most of the proof is about the operators, each of which goes through a list or a text:

* `SnappedIs`: whatever pair the model returns, what is left after clamping and snapping is a slice of the
  text or nothing, and it cuts no word that a snap could have kept (`SnapBackIs`, `SnapForwardIs`, `WordAround`).
* `CoverIs`, `PlanIs`: going over the sorted pairs and filling the gaps leaves slices that follow each
  other from the first character to the last.
* `PlanPiecesAre`: stripping them loses blanks only (`TrimIs`, `StripIs`), so the pieces of a window still
  tile what is solid in it (`Tiles`).
* `WindowsAre`: the windows of a long text cover it; `AddPiecesAre`: adding the pieces of a window
  to those of earlier ones drops a piece only when one that reads the same is there.
* `TrueRanges`: the search for a piece from where the last one ended finds it where it was cut.
  It needs that the pieces tile the text: nothing but blanks is skipped, so an earlier
  occurrence would have to begin in a blank.
* `PackedIs`: groups, joined, are the blocks in their order, within the target and from one document.
* `BatchesAre`, `QueueTail`, `QueueHalved`: the batches still to embed are what is missing, in order, also after one is halved.

The invariant is `ChunkingInv`.  Each part is there for a state in the middle of the work, about which the
properties say nothing: `Asking` (a block that is being chunked has a window left), `Covering` (what is solid reads like a
piece or waits in a window that is still to be asked about; `PlanHolds` is the case in which none is
left), `Whole` (the pieces of a block of one window tile it, also when they come from the cache) and
`Embedding` (vectors so far and batches left make up the chunks).  The cache holds slices of its own
keys (`ChunkingTypes`), without which a hit would prove nothing.

## 10. Graph index and retrieval (`GraphIndex`, `Retrieval`)

`GraphIndex` is the lexical file of one corpus with the graph in it, and the points beside it.
`Retrieval` extends it with a request that is answered by several searches while the worker
goes on.

| Action | Code |
| --- | --- |
| `BeginRun`, `DeleteBefore`, `Vectors`, `Rows`, `RunFails`, `Purge` | `ensure_indexes`, `delete_corpus_document`, `upsert_qdrant`, `upsert_lexical` with `_upsert_graph_material`, a failure or a kill between them, and a purge |
| `Ask` | `get_corpus`, the profile, the filters, the existence of the indexes, in the order of the handlers |
| `SearchVectors`, `SearchText`, `SearchExact` | the three searches of `hybrid_retrieval.py` |
| `ExpandSeeds`, `ExpandEdges`, `ExpandAliases`, `ExpandAndAnswer` | fusion, and the four statements of `sqlite_graph_expand`, each a read of its own: nodes of the seeds, their heaviest edges (a limit), the nodes of unresolved aliases, the neighbours; then reranking and the limit |
| `LookupText`, `LookupFields`, `LookupExact` | the lookup, one term after the other |
| `Delivered` | the answer is sent |

`EdgesOf`, `NodesOf`, `AliasesOf` and `LinksOf` are what `_annotate_graph_metadata` and the upserts
make of a document.  Scores of one search are constants of the model; what the code
computes from them (normalisation, weights, the expansion by edges, the blend with the
reranker) is done in integers over common denominators.  Hits are kept by chunk id, as in the code: two
searches that find two versions of a chunk under one id (which hashes the first 80 characters
of the text) find one hit, with the payload collected last.  The two stores read a filter
differently: `_build_filter_sql` compares a list in the metadata as a whole, so that only Qdrant matches it by its
members (tags excepted), and `environment`, `tenant_id`, `corpus_id` and `source_id` are in the metadata
of the rows only, so that a filter on one of them matches no point (`RowAccepted`, `PointAccepted`).
`indexed` and `dropped` are history.

| Run | Instance | Checks |
| --- | --- | --- |
| `retrieval` | 2 documents in 2 versions, 2 runs or purges, 4 requests, 4 answers of the registry, up to 2 steps of the worker in one request, 3 edges followed | `HangsTogether`, `OnlyReferencesLost`, `AnswerFiltered`, `BetterHitFirst` |

The first chunks of the two versions share an id and differ in type; 3 edges are fewer than a seed
can have.  Two documents that refer to each other's aliases are the least in which a deletion reaches into
another document; two runs are a first ingest and what happens to it; two overlapping steps
can delete and write again between two searches.

* `HangsTogether` - whatever fails, links, aliases and edges keep an end that is there.
* `OnlyReferencesLost` - an indexed document has exactly its nodes and edges, but for references to
  aliases whose node was deleted since: the re-ingest of another document takes them and does not
  bring them back.
* `AnswerFiltered` - every chunk of an answer passes the requested filters and the defaults of the
  corpus, as the store its payload is from reads them; those the graph brought and stale points included.
* `BetterHitFirst` - a chunk that no search ranks lower does not end up with the lower score.  It holds
  between two chunks that were both reranked or both not: the reranker leaves the chunks it
  has not read on their earlier scale (`hybrid_retrieval.py:304`), so one of those may pass a better one.

In the model and promised by nobody: a query says `not_found` when the collection is missing,
whatever the lexical rows hold.  Scores go by chunk id, so that the versions under one id score alike.  Left out: a filter with an empty list; of tags it makes an empty
pair of parentheses in the SQL, of other fields it is skipped, and Qdrant ignores either.

### Proofs (`Retrieval_proofs`)

For any documents, versions and bounds: `GraphAlwaysHangsTogether` and `OnlyReferencesEverLost`
of `IndexSpec`.  `Sound` adds that a chunk, a link and an edge stay within one document
(`Own`), that `indexed` and `run` speak of versions (`Known`, `RunKnown`) and that a
document that was deleted has no node and no edge (`Clear`), without which what is written on top of it
could be more than its own.  `RetrievalOnlyReads` shows that `Retrieval` implements
`IndexSpec` - searching changes nothing - so both hold there as well.
`AnswerAlwaysFiltered` follows from `FoundPasses`: every hit of a request has a payload, and the payloads collected so
far pass its filters, which do not change after it has begun.

`BetterHitAlwaysFirst` follows the scores of two chunks through the stages: normalisation keeps their order in each
search, in either direction (`Normalized`, `NormalizedInverted`), the weighted sum of ordered
channels is ordered, so is the expansion by edges, and the blend with the reranker is, between two
that were both reranked or both not.  All of it is arithmetic over common denominators, which are positive only because the hits of a
search are finitely many and have a highest and a lowest score; that is what the invariant `Ordered` adds (`Stocked`:
the indexes are finite; `FoundHits`: what each search has found are numbers for chunk ids).
`ScoresAssumption` says that scores are integers and `RequestsAssumption` that a request has a term and a limit;
nothing is assumed of the scores themselves.

## 11. Accounts (`Accounts`)

Users, sessions and machine keys.  Handlers run in threads; a SELECT opens no transaction, and all
writes of one connection are one step.

| Action | Code (`packages/config_auth/app`) |
| --- | --- |
| `AuthenticateUser`, `Rehash`, `FindUser`, `OpenSession` | login: the password is checked in one connection, the session opened in another, by the name |
| `CookieRequest`, `BearerRequest`, `AnswerOnly`, `Logout`, `Expire` | `current_session`, `require_permission`, `delete_session`, eight hours |
| `ReadUsers`, `WriteUsers` | `replace_users` before and after its SELECT |
| `CreateApiKey`, `AnswerKey`, `RevokeApiKey` | the calls on machine keys; the plaintext is answered after the export |
| `HostRestart` | the host stops and starts, with the bootstrap administrator of an empty table |

| Run | Instance | Checks |
| --- | --- | --- |
| `accounts` | 2 clients, 2 names, 8 lists, 4 ids, 1 session, 1 key | `OwnAccount`, `ReplaceTakesHold` |

Two clients let a replacement be committed between the SELECT and the writes of another, or of a
login; four ids let a name be deleted and inserted again.  One session and one key are enough: no two of them
meet in any call.  Clients are alike, so the run uses symmetry; it has no liveness property.

* `OwnAccount` - the password of a row was chosen for its name, and a session serves the name that
  logged in.  It rests on `AUTOINCREMENT`, on the foreign keys and on the hash being written by id.
* `ReplaceTakesHold` - a replacement that changes anything holds as a whole.  Its statement names the
  exception: a user listed without roles whose row has gone is silently left out.

### Proofs (`ConfigAuth_proofs`)

`AccountsAlwaysOwn` and `ReplaceAlwaysTakesHold`, for any clients, names, lists and bounds.  Assumed are `AccountsAssumption`,
`NoneAssumption` and `ListsAssumption`: a list is a sequence of items, and the password of an item was chosen for
the name beside it, without which the first property would be false at once.

The invariant is `AccountsInv`: `OwnAccount`, the types, and `Held`, what each handler has read and will
act on.  An id it holds was the id of that name when it was read and is, for good, nobody else's: a row may go, but
its id is never given out again and the name of a row never changes (`Known`, `Kept`, `HeldStays`).  The
replacement is a fold over its list.  `Drafts` is what the tables may look like after some of the items, whatever they
were; `Progress` says of the first `k` items that the last one of each name is in the table as it was
asked for.  Both are carried along the path of the fold (`FoldFacts`).  That the ids do not run
out is a condition inside `Progress`, which the guard of `WriteUsers` on the bound `MaxIds` meets.

## 12. Promises the code does not keep

One is a run of its own (`ready_wait`).  The others are definitions at the end of their modules,
in no run; added to the run's configuration, TLC refutes each of them.

| Definition | Add to | What is promised | What happens |
| --- | --- | --- | --- |
| `WaitingForReadinessIsEnough` | (`ready_wait`) | waiting for readiness after a change is enough | an older run that completes later makes the corpus ready |
| `ReadyIsIndexed` | `ready_sources` | a ready corpus has an index of every active source | a completed job over some sources makes it ready |
| `CancelIsFinal` | `jobs` | a cancelled job stays so | a report of its run sets it back to `running` |
| `PurgedIsGone` | `stores_safety` | a source whose purge succeeded has nothing left in the indexes | a point whose deletion failed was only logged, and the source is dropped |
| `PersistedAndExported` | `config_safety` | the files hold what the tables hold | the export of an import, begun before a change, puts the older version back |
| `StartsKeepChanges` | `config_safety` | admin-managed configuration is persisted (`package_config_auth.md:4`) | every start with a bootstrap file puts its part back to it, as line 51 of the same page says |
| `SessionCarried` | `mcp` | requests after `initialize` carry the session id | the renewal of another call takes it away before the repeated request |
| `PasswordOnlyWhenGiven` | `accounts` | a password changes only when one is given | a replacement writes back the hash it read before another one rotated it |
| `KeyLimitsHold` | `policy` | limits of a key hold in addition to those of the policy | a policy's limit of zero or less replaces the key's in the minimum and then counts for none |
| `GraphIsParsed` | `retrieval`, with `Versions <- AllVersions` | sections and references found by parsing are persisted | a packed chunk carries the metadata of its first block only |

## 13. Proved and only checked

| Module | Theorems about |
| --- | --- |
| `Ingestion_proofs` | `IngestionJobs` with the refinement of `JobLifecycle`, `Chunking` |
| `IndexStores_proofs` | `IndexStores` |
| `CorpusReadiness_proofs` | `CorpusReadiness` |
| `Orchestrator_proofs` | `ToolLoop`, `McpClient` |
| `ConfigAuth_proofs` | `RuntimeConfig`, `Accounts` |
| `RequestPolicy_proofs` | `RequestPolicy` |
| `Retrieval_proofs` | `GraphIndex`, `Retrieval` with its refinement of `IndexSpec` |
| `FoldFacts` | lemmas: least numbers, extremes of finite sets, the path of a fold |

Two components share a module where they share a host process.  They share no variable, and no theorem about one
uses an invariant of the other.

Proved for every value of the constants: every safety invariant and every action property of the
passing runs, and the refinements of `JobLifecycle` by `IngestionJobs` and of `IndexSpec` by `Retrieval`.
The proofs assume what the named
`ASSUME`s of the modules say - bounds are natural numbers, `None` is no value, lists are lists and scores are
numbers - and, for `CorpusReadiness`, `OneWorker`.

The parts of the invariants that are type correctness or strengthening (`TypeOK`, `Sound`, `Timely`,
`PolicyHonoured`, `ExceededIsTrue`, ...) are proved and listed in no run.

**Folds.**  Chunking, packing, the replacement of users and the fusion of hits fold a list.  The library states induction
for an operator, which the provers cannot instantiate.  `FoldFacts` goes around it: the natural
numbers at which something fails are a set, and a set of natural numbers that is not empty has a least member
(`LeastNumber`, from the well-founded order of the library's `NatLessThanWellFounded`).  `Path` is the
sequence of values a fold goes through: the first is the initial one and each of the others is one
step from the one before.  Each lemma about a fold says
that the least place at which its path leaves a set cannot be the first and cannot follow one that is in it.

Only model-checked:

* `JobsSettle`, `WorkerReturns`, `CompletionEnds` and `RequestsEnd`: liveness under fairness is
  out of the prover's reach.
* The violation of `ready_wait`, and the refutations of section 12.

## 14. Plan

The order so far was: job table and poller, the stores, readiness, the chat loop, the configuration,
then requests and policies, the MCP client, chunking, graph and retrieval, accounts.  Next, in this order:

1. a composition of `IngestionJobs` and `IndexStores`, in which the jobs of the one are the runs of the other,
   and the deletion of a corpus meets indexes it does not touch;
2. the bundle import of sources in `CorpusReadiness`, and its three SELECTs as separate steps;
3. archives with several documents per source in `IndexStores`;
4. what the fair specifications rest on, as theorems about one step: that a worker, a completion or a task
   that is not at rest has a step to take (stated without `ENABLED`), and a bound that each such step lowers.

## 15. Not modelled

* Text extraction (HTML, PDF, archives, Git) and the processors beyond the graph metadata and the
  packing: pure functions over third-party parsers.
* Object storage: a client that writes an object under a key made of its hash.
* The dev-ui host and the browser application: no state of their own.
* Deployment, compose files, CI.
* Statistics, error texts, audit events and logs of all parts.
* The wait for SQLite's write lock: a call that runs into the busy timeout is an error that changes nothing.
* The three SELECTs of `get_corpus_readiness`, which are one step.
* Streaming of answers, totals of usage, the translation of messages between provider formats.
* Several MCP servers with tools of the same name.
* The scores of single searches, and text snippets.
* The worker's reading of the snapshots.
