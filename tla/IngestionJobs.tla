---------------------------- MODULE IngestionJobs ----------------------------
(***************************************************************************)
(* Ingestion jobs: the rows of ingestion_jobs in the config-auth registry   *)
(* (packages/config_auth/app/db.py), the management calls that create,      *)
(* cancel and cascade them away, and the ingestion workers that poll, claim *)
(* and run them over HTTP (services/ingestion_worker/worker/server.py).     *)
(*                                                                          *)
(* Atomicity is that of the code.  Python's sqlite3 opens a transaction at  *)
(* the first INSERT, UPDATE or DELETE, never at a SELECT, so a repository   *)
(* method that selects, decides and then writes is two steps (BeginCancel / *)
(* FinishCancel, BeginDelete / FinishDelete), while claim_ingestion_job, a  *)
(* single guarded UPDATE, is one.                                           *)
(*                                                                          *)
(* Every call of a worker has a client timeout and the server keeps working *)
(* on a request whose client has gone.  A timed-out call is therefore put   *)
(* in `late`, from where it is executed (Arrive) or lost (Vanish) later.    *)
(***************************************************************************)
EXTENDS Naturals, FiniteSets

CONSTANTS
    Corpora,      \* corpus ids
    Jobs,         \* job ids: uuid4, so no id is used twice
    Workers,      \* ingestion worker processes
    Callers,      \* threads of the management API
    None,         \* no job, no corpus, no call
    MaxSources,   \* bound: sources a run goes through
    MaxFaults     \* bound: crashes and timed-out calls in a behaviour

ASSUME NoneAssumption == None \notin Jobs \cup Corpora
ASSUME BoundsAssumption == MaxSources \in Nat /\ MaxFaults \in Nat

VARIABLES
    corpora,      \* ids that have a row in table corpora
    status,       \* job -> its status column; "unused" and "gone" have no row
    corpusOf,     \* job -> its corpus_id column, None before the row exists
    worker,       \* worker -> where poll_jobs and run_ingest are
    call,         \* caller -> the call that has checked and not yet written
    late,         \* worker requests that outlived their client
    started,      \* history: jobs whose claim was granted
    returned,     \* history: jobs whose run_ingest returned without raising
    faults        \* faults so far

vars == <<corpora, status, corpusOf, worker, call, late, started, returned, faults>>

-----------------------------------------------------------------------------
(* Data *)

Active   == {"pending", "running"}
Finished == {"completed", "failed", "cancelled"}
Row      == Active \cup Finished
JobState == Row \cup {"unused", "gone"}

\* Where a worker is: between polls, walking the polled list, or at a call or
\* a decision of run_ingest ("load" ... "write") or of its epilogue.
RunPC    == {"load", "report", "work", "check", "embed_check", "embed_report", "write"}
Busy     == RunPC \cup {"complete", "fail"}
WorkerPC == {"idle", "polled"} \cup Busy

WorkerState == [pc : WorkerPC, todo : SUBSET Jobs, job : Jobs \cup {None}, left : 0..MaxSources]

\* The statuses a worker's PATCH carries; a "claim" is its other request.
Patch   == {"running", "completed", "failed"}
Request == [job : Jobs, what : Patch \cup {"claim"}]

Call == [op : {"none", "cancel", "delete"}, target : Jobs \cup Corpora \cup {None}]
NoCall == [op |-> "none", target |-> None]

Rows(c) == {j \in Jobs : corpusOf[j] = c /\ status[j] \in Row}
HasActiveJob(c) == \E j \in Rows(c) : status[j] \in Active

\* Mutant: PRAGMA foreign_keys = ON is forgotten.
CascadeOff(c) == status

\* ON DELETE CASCADE: the rows of c disappear with it.
Cascade(c) == [j \in Jobs |-> IF j \in Rows(c) THEN "gone" ELSE status[j]]

\* Mutant: an upsert, which brings back a row that was deleted.
WrittenUpsert(j, s) == [status EXCEPT ![j] = s]

\* UPDATE ... WHERE job_id = j: no effect when the row is not there.
Written(j, s) == IF status[j] \in Row THEN [status EXCEPT ![j] = s] ELSE status

\* The worker goes on with the rest of the list it polled.
Resting(todo) ==
    [pc |-> IF todo = {} THEN "idle" ELSE "polled", todo |-> todo, job |-> None, left |-> 0]

Init ==
    /\ corpora = {}
    /\ status = [j \in Jobs |-> "unused"]
    /\ corpusOf = [j \in Jobs |-> None]
    /\ worker = [w \in Workers |-> Resting({})]
    /\ call = [a \in Callers |-> NoCall]
    /\ late = {}
    /\ started = {}
    /\ returned = {}
    /\ faults = 0

-----------------------------------------------------------------------------
(* Management calls *)

\* create_corpus, ensure_corpus, and an import of a corpus that is not there.
CreateCorpus(c) ==
    /\ c \notin corpora
    /\ corpora' = corpora \cup {c}
    /\ UNCHANGED <<status, corpusOf, worker, call, late, started, returned, faults>>

\* import_corpus_registry_bundle with strategy "replace" over an existing
\* corpus.  It opens with a DELETE, so its check and its writes are one step.
ReplaceCorpus(c) ==
    /\ c \in corpora
    /\ ~HasActiveJob(c)
    /\ status' = Cascade(c)
    /\ UNCHANGED <<corpora, corpusOf, worker, call, late, started, returned, faults>>

\* create_ingestion_job.  Its INSERT fails on the foreign key when the corpus
\* it selected is gone by then, so check and write are one step.
CreateJob(c, j) ==
    /\ c \in corpora
    /\ status[j] = "unused"
    /\ status' = [status EXCEPT ![j] = "pending"]
    /\ corpusOf' = [corpusOf EXCEPT ![j] = c]
    /\ UNCHANGED <<corpora, worker, call, late, started, returned, faults>>

\* cancel_ingestion_job up to its check of the status it selected.
BeginCancel(a, j) ==
    /\ call[a] = NoCall
    /\ status[j] \in Active
    /\ call' = [call EXCEPT ![a] = [op |-> "cancel", target |-> j]]
    /\ UNCHANGED <<corpora, status, corpusOf, worker, late, started, returned, faults>>

\* cancel_ingestion_job from its UPDATE, which has no condition on the status.
FinishCancel(a) ==
    /\ call[a].op = "cancel"
    /\ status' = Written(call[a].target, "cancelled")
    /\ call' = [call EXCEPT ![a] = NoCall]
    /\ UNCHANGED <<corpora, corpusOf, worker, late, started, returned, faults>>

\* delete_corpus up to its check for active jobs.
BeginDelete(a, c) ==
    /\ call[a] = NoCall
    /\ c \in corpora
    /\ ~HasActiveJob(c)
    /\ call' = [call EXCEPT ![a] = [op |-> "delete", target |-> c]]
    /\ UNCHANGED <<corpora, status, corpusOf, worker, late, started, returned, faults>>

\* delete_corpus from its DELETE.
FinishDelete(a) ==
    /\ call[a].op = "delete"
    /\ corpora' = corpora \ {call[a].target}
    /\ status' = Cascade(call[a].target)
    /\ call' = [call EXCEPT ![a] = NoCall]
    /\ UNCHANGED <<corpusOf, worker, late, started, returned, faults>>

-----------------------------------------------------------------------------
(* The poller of a worker *)

\* GET /internal/ingestion-jobs?status=pending: a list that ages from here on.
Poll(w) ==
    /\ worker[w].pc = "idle"
    /\ \E j \in Jobs : status[j] = "pending"
    /\ worker' = [worker EXCEPT ![w] = Resting({j \in Jobs : status[j] = "pending"})]
    /\ UNCHANGED <<corpora, status, corpusOf, call, late, started, returned, faults>>

\* Mutants: a claim that resumes an active job, one that resumes a cancelled one.
ClaimableActive(j)    == status[j] \in Active
ClaimableCancelled(j) == status[j] \in {"pending", "cancelled"}

\* The guarded UPDATE of claim_ingestion_job.
Claimable(j) == status[j] = "pending"

Claim(w, j) ==
    /\ worker[w].pc = "polled"
    /\ j \in worker[w].todo
    /\ Claimable(j)
    /\ status' = [status EXCEPT ![j] = "running"]
    /\ started' = started \cup {j}
    /\ worker' = [worker EXCEPT ![w] =
                    [pc |-> "load", todo |-> worker[w].todo \ {j}, job |-> j, left |-> 0]]
    /\ UNCHANGED <<corpora, corpusOf, call, late, returned, faults>>

\* The claim is answered 400 or 404: someone else was faster.
ClaimRefused(w, j) ==
    /\ worker[w].pc = "polled"
    /\ j \in worker[w].todo
    /\ ~Claimable(j)
    /\ worker' = [worker EXCEPT ![w] = Resting(worker[w].todo \ {j})]
    /\ UNCHANGED <<corpora, status, corpusOf, call, late, started, returned, faults>>

\* A call of a worker times out: the request stays with the server.
TimesOut(r) ==
    /\ faults < MaxFaults
    /\ faults' = faults + 1
    /\ late' = late \cup {r}

ClaimTimesOut(w, j) ==
    /\ worker[w].pc = "polled"
    /\ j \in worker[w].todo
    /\ TimesOut([job |-> j, what |-> "claim"])
    /\ worker' = [worker EXCEPT ![w] = Resting(worker[w].todo \ {j})]
    /\ UNCHANGED <<corpora, status, corpusOf, call, started, returned>>

-----------------------------------------------------------------------------
(* run_ingest as the registry sees it: load the corpus, report progress,    *)
(* then for each source a cancellation check and a progress report, a last  *)
(* check and report, the index writes.  Reports that follow one another     *)
(* with nothing but data work between them are one report.                  *)

\* The worker's next place and the sources it still has to go through.
At(w, pc, left) == [pc |-> pc, todo |-> worker[w].todo, job |-> worker[w].job, left |-> left]
Goes(w, pc) == worker' = [worker EXCEPT ![w] = At(w, pc, worker[w].left)]
Rests(w)    == worker' = [worker EXCEPT ![w] = Resting(worker[w].todo)]

\* load_corpus: the number of sources that match the request is any number.
Load(w) ==
    /\ worker[w].pc = "load"
    /\ corpusOf[worker[w].job] \in corpora
    /\ \E n \in 0..MaxSources : worker' = [worker EXCEPT ![w] = At(w, "report", n)]
    /\ UNCHANGED <<corpora, status, corpusOf, call, late, started, returned, faults>>

\* Mutant: a source is tried again without end.
NextSourceRetried(w) ==
    /\ worker[w].pc = "work"
    /\ worker' = [worker EXCEPT ![w] =
                    IF worker[w].left > 0 THEN At(w, "check", worker[w].left) ELSE At(w, "embed_check", 0)]
    /\ UNCHANGED <<corpora, status, corpusOf, call, late, started, returned, faults>>

\* The next source, or, past the last, the check before embedding.
NextSource(w) ==
    /\ worker[w].pc = "work"
    /\ worker' = [worker EXCEPT ![w] =
                    IF worker[w].left > 0
                    THEN At(w, "check", worker[w].left - 1)
                    ELSE At(w, "embed_check", 0)]
    /\ UNCHANGED <<corpora, status, corpusOf, call, late, started, returned, faults>>

AfterCheck(pc)  == IF pc = "check" THEN "report" ELSE "embed_report"
AfterReport(pc) == IF pc = "report" THEN "work" ELSE "write"

\* Mutant: a cancelled run ends as if it had returned.
CheckReturns(w) ==
    /\ worker[w].pc \in {"check", "embed_check"}
    /\ IF status[worker[w].job] = "cancelled"
       THEN Goes(w, "complete")
       ELSE Goes(w, AfterCheck(worker[w].pc))
    /\ UNCHANGED <<corpora, status, corpusOf, call, late, started, returned, faults>>

\* check_cancelled: InterruptedError ends the run without a PATCH.
Check(w) ==
    /\ worker[w].pc \in {"check", "embed_check"}
    /\ IF status[worker[w].job] = "cancelled"
       THEN Rests(w)
       ELSE Goes(w, AfterCheck(worker[w].pc))
    /\ UNCHANGED <<corpora, status, corpusOf, call, late, started, returned, faults>>

\* check_cancelled answers False when the registry does not answer.
CheckFails(w) ==
    /\ worker[w].pc \in {"check", "embed_check"}
    /\ faults < MaxFaults
    /\ faults' = faults + 1
    /\ Goes(w, AfterCheck(worker[w].pc))
    /\ UNCHANGED <<corpora, status, corpusOf, call, late, started, returned>>

\* report_progress: PATCH {"status": "running"}, whatever the status is.
Report(w) ==
    /\ worker[w].pc \in {"report", "embed_report"}
    /\ status' = Written(worker[w].job, "running")
    /\ Goes(w, AfterReport(worker[w].pc))
    /\ UNCHANGED <<corpora, corpusOf, call, late, started, returned, faults>>

\* A report that fails is logged and swallowed.
ReportTimesOut(w) ==
    /\ worker[w].pc \in {"report", "embed_report"}
    /\ TimesOut([job |-> worker[w].job, what |-> "running"])
    /\ Goes(w, AfterReport(worker[w].pc))
    /\ UNCHANGED <<corpora, status, corpusOf, call, started, returned>>

\* run_ingest returns: after the index writes, or straight after its sources
\* when none matched or none had anything new.
Return(w) ==
    /\ \/ worker[w].pc = "write"
       \/ worker[w].pc = "work" /\ worker[w].left = 0
    /\ Goes(w, "complete")
    /\ returned' = returned \cup {worker[w].job}
    /\ UNCHANGED <<corpora, status, corpusOf, call, late, started, faults>>

\* Mutant: the exception is logged by the outer handler and never reported.
RaiseUnreported(w) ==
    /\ worker[w].pc \in {"load", "work", "write"}
    /\ Rests(w)
    /\ UNCHANGED <<corpora, status, corpusOf, call, late, started, returned, faults>>

\* run_ingest raises: no corpus, no chunk, an embedding or index error.
Raise(w) ==
    /\ worker[w].pc \in {"load", "work", "write"}
    /\ Goes(w, "fail")
    /\ UNCHANGED <<corpora, status, corpusOf, call, late, started, returned, faults>>

-----------------------------------------------------------------------------
(* The epilogue of a run *)

\* PATCH {"status": "completed"}; a 404 takes the except branch.
Complete(w) ==
    /\ worker[w].pc = "complete"
    /\ status' = Written(worker[w].job, "completed")
    /\ IF status[worker[w].job] \in Row THEN Rests(w) ELSE Goes(w, "fail")
    /\ UNCHANGED <<corpora, corpusOf, call, late, started, returned, faults>>

\* A timeout takes the except branch too, whatever the server does later.
CompleteTimesOut(w) ==
    /\ worker[w].pc = "complete"
    /\ TimesOut([job |-> worker[w].job, what |-> "completed"])
    /\ Goes(w, "fail")
    /\ UNCHANGED <<corpora, status, corpusOf, call, started, returned>>

\* Mutant: the registry does not accept "failed" and the refusal is only logged.
FailRejected(w) ==
    /\ worker[w].pc = "fail"
    /\ Rests(w)
    /\ UNCHANGED <<corpora, status, corpusOf, call, late, started, returned, faults>>

\* PATCH {"status": "failed"}.
Fail(w) ==
    /\ worker[w].pc = "fail"
    /\ status' = Written(worker[w].job, "failed")
    /\ Rests(w)
    /\ UNCHANGED <<corpora, corpusOf, call, late, started, returned, faults>>

\* "Unable to persist failure": logged, and the job is left as it is.
FailTimesOut(w) ==
    /\ worker[w].pc = "fail"
    /\ TimesOut([job |-> worker[w].job, what |-> "failed"])
    /\ Rests(w)
    /\ UNCHANGED <<corpora, status, corpusOf, call, started, returned>>

\* The worker process dies and comes back; nothing of a run is persisted.
Crash(w) ==
    /\ worker[w].pc # "idle"
    /\ faults < MaxFaults
    /\ faults' = faults + 1
    /\ worker' = [worker EXCEPT ![w] = Resting({})]
    /\ UNCHANGED <<corpora, status, corpusOf, call, late, started, returned>>

-----------------------------------------------------------------------------
(* Requests that outlived their client *)

Arrive(r) ==
    /\ r \in late
    /\ late' = late \ {r}
    /\ IF r.what = "claim"
       THEN IF Claimable(r.job)
            THEN /\ status' = [status EXCEPT ![r.job] = "running"]
                 /\ started' = started \cup {r.job}
            ELSE UNCHANGED <<status, started>>
       ELSE /\ status' = Written(r.job, r.what)
            /\ UNCHANGED started
    /\ UNCHANGED <<corpora, corpusOf, worker, call, returned, faults>>

Vanish(r) ==
    /\ r \in late
    /\ late' = late \ {r}
    /\ UNCHANGED <<corpora, status, corpusOf, worker, call, started, returned, faults>>

-----------------------------------------------------------------------------
(* The specification *)

Management ==
    \/ \E c \in Corpora : CreateCorpus(c) \/ ReplaceCorpus(c)
    \/ \E c \in Corpora, j \in Jobs : CreateJob(c, j)
    \/ \E a \in Callers :
          \/ \E j \in Jobs : BeginCancel(a, j)
          \/ \E c \in Corpora : BeginDelete(a, c)
          \/ FinishCancel(a)
          \/ FinishDelete(a)

\* What poll_jobs does of itself when the registry answers.
Proceed(w) ==
    \/ Poll(w)
    \/ \E j \in Jobs : Claim(w, j) \/ ClaimRefused(w, j)
    \/ Load(w) \/ NextSource(w) \/ Check(w) \/ Report(w)
    \/ Return(w) \/ Raise(w) \/ Complete(w) \/ Fail(w)

Fault(w) ==
    \/ \E j \in Jobs : ClaimTimesOut(w, j)
    \/ CheckFails(w) \/ ReportTimesOut(w) \/ CompleteTimesOut(w) \/ FailTimesOut(w)
    \/ Crash(w)

Network == \E r \in Request : Arrive(r) \/ Vanish(r)

Next ==
    \/ Management
    \/ \E w \in Workers : Proceed(w) \/ Fault(w)
    \/ Network

Spec == Init /\ [][Next]_vars

\* The poller is a loop that catches everything and never blocks for ever: all
\* its calls have timeouts.  Users are not fair, and nothing obliges a fault.
FairSpec == Spec /\ \A w \in Workers : WF_vars(Proceed(w))

-----------------------------------------------------------------------------
(* Properties *)

TypeOK ==
    /\ corpora \subseteq Corpora
    /\ status \in [Jobs -> JobState]
    /\ corpusOf \in [Jobs -> Corpora \cup {None}]
    /\ worker \in [Workers -> WorkerState]
    /\ \A w \in Workers : worker[w].pc \in Busy <=> worker[w].job # None
    /\ call \in [Callers -> Call]
    /\ late \subseteq Request
    /\ started \subseteq Jobs
    /\ returned \subseteq Jobs
    /\ faults \in 0..MaxFaults

Holds(w, j) == worker[w].job = j /\ worker[w].pc \in Busy

\* No two workers run the same job, whatever is late, cancelled, deleted or
\* restarted: the guarded UPDATE of claim_ingestion_job is the only lock.
ExclusiveRun ==
    \A v, w \in Workers, j \in Jobs : Holds(v, j) /\ Holds(w, j) => v = w

\* A job is reported completed only if its run_ingest returned, also when the
\* PATCH arrives late or a user cancelled the job in between.
CompletedIsTrue == \A j \in Jobs : status[j] = "completed" => j \in returned

\* Before the first fault, every row in "running" is served by a worker: every
\* exit of a run, failed and cancelled ones included, reports before the worker
\* drops the job (run_ingest and poll_jobs).  A worker that crashes, or whose
\* report is lost, does leave such a row.
RunningIsServed ==
    faults = 0 =>
        \A j \in Jobs : status[j] = "running" => \E w \in Workers : Holds(w, j)

\* Every job row belongs to a corpus row: deletes, replacements and creations
\* of a corpus that interleave with job creation never leave an orphan.
JobsHaveCorpus == \A j \in Jobs : status[j] \in Row => corpusOf[j] \in corpora

\* Once a cancelled job has no worker and no late request, nothing brings it
\* back: polling from an old list, other workers and other users included.
Quiet(j) == (\A w \in Workers : ~Holds(w, j)) /\ (\A r \in late : r.job # j)
CancelHolds ==
    [][\A j \in Jobs : status[j] = "cancelled" /\ Quiet(j) =>
          status'[j] \in {"cancelled", "gone"}]_vars

\* A worker that took up anything is free again in the end: no call it makes,
\* no lost answer and no deleted row leaves poll_jobs hanging.
WorkerReturns == \A w \in Workers : worker[w].pc # "idle" ~> worker[w].pc = "idle"

\* Until there is a fault every job a user asks for comes to an end that stays.
JobsSettle ==
    \A j \in Jobs :
        status[j] = "pending" ~> (faults > 0 \/ [](status[j] \in Finished \cup {"gone"}))

\* The detailed system implements the lifecycle: in particular the work of a
\* job returns at most once and only a started job is ever reported on.
Lifecycle ==
    INSTANCE JobLifecycle WITH Jobs <- Jobs, status <- status, started <- started, returned <- returned
ImplementsLifecycle == Lifecycle!Spec

-----------------------------------------------------------------------------
(* What the registry's own words promise and the code does not keep *)

\* "cancels an existing job" (docs/guides/operate-tokenstream.mdx): a job that
\* was cancelled is not brought back while its row exists.
CancelIsFinal ==
    [][\A j \in Jobs : status[j] = "cancelled" => status'[j] \in {"cancelled", "gone"}]_vars

-----------------------------------------------------------------------------
(* The inductive strengthening of the safety properties *)

\* A worker runs a job only after its claim was granted.
HeldIsStarted == \A w \in Workers : worker[w].pc \in Busy => worker[w].job \in started

\* A claim cannot be granted twice: what was started is never pending again.
StartedLeftPending == \A j \in started : status[j] \notin {"unused", "pending"}

\* A run that has not returned is not recorded as returned, and one that waits
\* to be reported completed is.
ReturnedOnce ==
    \A w \in Workers :
        /\ worker[w].pc \in RunPC => worker[w].job \notin returned
        /\ worker[w].pc = "complete" => worker[w].job \in returned

\* Late requests tell of started jobs, and of returned ones when they say so.
LateIsTrue ==
    /\ \A r \in late : r.what \in Patch => r.job \in started
    /\ \A r \in late : r.what = "completed" => r.job \in returned
    /\ faults = 0 => late = {}

Inductive ==
    /\ TypeOK
    /\ HeldIsStarted
    /\ StartedLeftPending
    /\ returned \subseteq started
    /\ ReturnedOnce
    /\ LateIsTrue
    /\ ExclusiveRun
    /\ CompletedIsTrue
    /\ RunningIsServed
    /\ JobsHaveCorpus

=============================================================================
