--------------------------- MODULE CorpusReadiness ---------------------------
(***************************************************************************)
(* When the registry calls a corpus ready: get_corpus_readiness of          *)
(* packages/config_auth/app/db.py compares the updated_at of the active     *)
(* sources with the updated_at of the completed jobs.                       *)
(*                                                                          *)
(* A repository method takes its "now" before it has the write lock, so     *)
(* that rows are not written in the order of their stamps.  A run takes the *)
(* sources of the corpus when it starts, and a completion is stamped when   *)
(* the registry receives it, long after.  Jobs may ask for some sources     *)
(* only, and complete although some have failed.                            *)
(***************************************************************************)
EXTENDS Naturals

CONSTANTS
    Sources,      \* source ids of the corpus
    Jobs,         \* ingestion jobs that can be created for it
    Callers,      \* management calls that can be in progress at a time
    Workers,      \* pollers
    Scopes,       \* what job requests ask for: All or some source_ids
    All,          \* no source_ids in the request: every source
    None,         \* no job
    MaxTime,      \* bound: the clock
    MaxChanges,   \* bound: revisions of a source
    MaxFaults     \* bound: sources and runs that fail, timeouts, restarts

ASSUME NoneAssumption == None \notin Jobs
ASSUME ScopesAssumption == Scopes \subseteq {All} \cup SUBSET Sources
ASSUME AllAssumption == \A x \in SUBSET Sources : x # All
ASSUME BoundsAssumption == MaxTime \in Nat /\ MaxChanges \in Nat /\ MaxFaults \in Nat

VARIABLES
    clock,        \* the registry's clock
    active,       \* rows of corpus_sources with deleted_at IS NULL
    revision,     \* source -> how often its row was created, updated or restored
    stamp,        \* source -> updated_at
    status,       \* job -> status, "unused" before it is created
    at,           \* job -> updated_at
    want,         \* job -> what its request asks for
    call,         \* caller -> the management call in progress
    worker,       \* worker -> its job, how far it is, the revisions it loaded
    sent,         \* PATCH requests on their way to the registry
    writing,      \* PATCH requests that have their "now" and are not written
    indexed,      \* source -> the revision in the index, 0 for none
    asked,        \* history: job -> revisions at its creation
    covered,      \* history: job -> sources its run processed or skipped
    faults        \* faults so far

sources == <<active, revision, stamp>>
jobs    == <<status, at, want>>
wire    == <<sent, writing>>
history == <<asked, covered, faults>>
vars    == <<clock, sources, jobs, call, worker, wire, indexed, history>>

-----------------------------------------------------------------------------
(* Data *)

Time == 0..MaxTime
Revision == 0..MaxChanges
Unseen == [s \in Sources |-> 0]
JobState == {"unused", "pending", "running", "completed", "failed", "cancelled"}
Finished == {"completed", "failed", "cancelled"}

NoCall == [what |-> "none"]
SourceCall == [what : {"add", "update"}, on : Sources, now : Time, checked : BOOLEAN]
CancelCall == [what : {"cancel"}, on : Jobs, now : Time]

Request == [job : Jobs, status : {"running", "completed", "failed"}]
Write   == [job : Jobs, status : {"running", "completed", "failed"}, now : Time]

AtRest == [pc |-> "idle", job |-> None, seen |-> Unseen]
Waiting == {"asking", "closing", "failing"}
WorkerPC == {"idle", "claimed", "loaded"} \cup Waiting
WorkerState == [pc : WorkerPC, job : Jobs \cup {None}, seen : [Sources -> Revision]]

\* Time goes on, or not, between two calls of iso_now.
Now(t) == t \in {clock, clock + 1} /\ t <= MaxTime /\ clock' = t

\* The sources a run of the job goes through.
Scope(j) == IF want[j] = All THEN active ELSE want[j] \cap active

\* Mutant: a completion in the same instant does not count.
ReadyStrict ==
    /\ active # {}
    /\ \E j \in Jobs : status[j] = "completed" /\ \A s \in active : stamp[s] < at[j]

\* Not ready: latest_source_updated_at > latest_completed_at.
Ready ==
    /\ active # {}
    /\ \E j \in Jobs : status[j] = "completed" /\ \A s \in active : stamp[s] <= at[j]

Init ==
    /\ clock = 0
    /\ active = {}
    /\ revision = Unseen
    /\ stamp = Unseen
    /\ status = [j \in Jobs |-> "unused"]
    /\ at = [j \in Jobs |-> 0]
    /\ want = [j \in Jobs |-> All]
    /\ call = [c \in Callers |-> NoCall]
    /\ worker = [w \in Workers |-> AtRest]
    /\ sent = {}
    /\ writing = {}
    /\ indexed = Unseen
    /\ asked = [j \in Jobs |-> Unseen]
    /\ covered = [j \in Jobs |-> {}]
    /\ faults = 0

-----------------------------------------------------------------------------
(* Management calls on sources *)

\* create_corpus_source, update_corpus_source: now = iso_now(), then connect.
BeginSource(c, what, s, t) ==
    /\ call[c] = NoCall
    /\ Now(t)
    /\ call' = [call EXCEPT ![c] = [what |-> what, on |-> s, now |-> t, checked |-> FALSE]]
    /\ UNCHANGED <<sources, jobs, worker, wire, indexed, history>>

\* update_corpus_source finds the row; its UPDATE does not look again.
CheckUpdate(c) ==
    /\ call[c].what = "update"
    /\ ~call[c].checked
    /\ call[c].on \in active
    /\ call' = [call EXCEPT ![c].checked = TRUE]
    /\ UNCHANGED <<clock, sources, jobs, worker, wire, indexed, history>>

\* The row of the call's source gets the call's stamp and new content.
WriteSource(c) ==
    LET s == call[c].on
    IN  /\ revision[s] < MaxChanges
        /\ revision' = [revision EXCEPT ![s] = revision[s] + 1]
        /\ stamp' = [stamp EXCEPT ![s] = call[c].now]
        /\ call' = [call EXCEPT ![c] = NoCall]
        /\ UNCHANGED <<clock, jobs, worker, wire, indexed, history>>

\* INSERT, or the restoration of a deleted row in the same transaction.
FinishAdd(c) ==
    /\ call[c].what = "add"
    /\ call[c].on \notin active
    /\ active' = active \cup {call[c].on}
    /\ WriteSource(c)

FinishUpdate(c) ==
    /\ call[c].what = "update"
    /\ call[c].checked
    /\ WriteSource(c)
    /\ UNCHANGED active

\* The source exists, is not found, or the database stays locked.
Refused(c) ==
    /\ call[c] # NoCall
    /\ call' = [call EXCEPT ![c] = NoCall]
    /\ UNCHANGED <<clock, sources, jobs, worker, wire, indexed, history>>

\* delete_corpus_source: its SELECT decides nothing that its UPDATE does not.
Drop(s) ==
    /\ s \in active
    /\ active' = active \ {s}
    /\ UNCHANGED <<clock, revision, stamp, jobs, call, worker, wire, indexed, history>>

-----------------------------------------------------------------------------
(* Jobs *)

CreateJob(j, scope, t) ==
    /\ status[j] = "unused"
    /\ scope \in {All} \cup (SUBSET active \ {{}})
    /\ Now(t)
    /\ status' = [status EXCEPT ![j] = "pending"]
    /\ at' = [at EXCEPT ![j] = t]
    /\ want' = [want EXCEPT ![j] = scope]
    /\ asked' = [asked EXCEPT ![j] = revision]
    /\ UNCHANGED <<sources, call, worker, wire, indexed, covered, faults>>

\* cancel_ingestion_job looks at the status before its transaction.
BeginCancel(c, j, t) ==
    /\ call[c] = NoCall
    /\ status[j] \notin Finished \cup {"unused"}
    /\ Now(t)
    /\ call' = [call EXCEPT ![c] = [what |-> "cancel", on |-> j, now |-> t]]
    /\ UNCHANGED <<sources, jobs, worker, wire, indexed, history>>

FinishCancel(c) ==
    /\ call[c].what = "cancel"
    /\ status' = [status EXCEPT ![call[c].on] = "cancelled"]
    /\ at' = [at EXCEPT ![call[c].on] = call[c].now]
    /\ call' = [call EXCEPT ![c] = NoCall]
    /\ UNCHANGED <<clock, sources, want, worker, wire, indexed, history>>

Claim(w, j, t) ==
    /\ worker[w] = AtRest
    /\ status[j] = "pending"
    /\ Now(t)
    /\ status' = [status EXCEPT ![j] = "running"]
    /\ at' = [at EXCEPT ![j] = t]
    /\ worker' = [worker EXCEPT ![w].pc = "claimed", ![w].job = j]
    /\ UNCHANGED <<sources, want, call, wire, indexed, history>>

\* Mutant: the heartbeat does not look at the status.
HeartbeatAny(j, t) ==
    /\ status[j] \notin {"unused", "pending"}
    /\ Now(t)
    /\ at' = [at EXCEPT ![j] = t]
    /\ UNCHANGED <<sources, status, want, call, worker, wire, indexed, history>>

\* heartbeat_ingestion_job, in time or late: 400 when the row is not running.
Heartbeat(j, t) ==
    /\ status[j] = "running"
    /\ Now(t)
    /\ at' = [at EXCEPT ![j] = t]
    /\ UNCHANGED <<sources, status, want, call, worker, wire, indexed, history>>

-----------------------------------------------------------------------------
(* The run of a job *)

Fails ==
    /\ faults < MaxFaults
    /\ faults' = faults + 1

\* A PATCH of the worker's job is on its way and the worker waits for it.
Sends(w, st, l) ==
    /\ sent' = sent \cup {[job |-> worker[w].job, status |-> st]}
    /\ worker' = [worker EXCEPT ![w].pc = l]

\* Mutant: the sources are taken as they were when the job was created.
LoadPlanned(w) ==
    /\ worker[w].pc = "claimed"
    /\ Scope(worker[w].job) # {}
    /\ worker' = [worker EXCEPT ![w].pc = "loaded",
          ![w].seen = [s \in Sources |->
              IF s \in Scope(worker[w].job) THEN asked[worker[w].job][s] ELSE 0]]
    /\ UNCHANGED <<clock, sources, jobs, call, wire, indexed, history>>

\* load_corpus: the rows as they are now.
Load(w) ==
    /\ worker[w].pc = "claimed"
    /\ Scope(worker[w].job) # {}
    /\ worker' = [worker EXCEPT ![w].pc = "loaded",
          ![w].seen = [s \in Sources |-> IF s \in Scope(worker[w].job) THEN revision[s] ELSE 0]]
    /\ UNCHANGED <<clock, sources, jobs, call, wire, indexed, history>>

\* Nothing to load: a run over all sources raises, one over sources that are
\* all gone returns "skipped" and the worker reports the job completed.
LoadNothing(w) ==
    /\ worker[w].pc = "claimed"
    /\ Scope(worker[w].job) = {}
    /\ IF want[worker[w].job] = All
       THEN Sends(w, "failed", "failing")
       ELSE Sends(w, "completed", "closing")
    /\ UNCHANGED <<clock, sources, jobs, call, writing, indexed, history>>

Loaded(w) == {s \in Sources : worker[w].seen[s] # 0}

\* report_progress; its outcome does not matter to the run.
Report(w) ==
    /\ worker[w].pc = "loaded"
    /\ Sends(w, "running", "asking")
    /\ UNCHANGED <<clock, sources, jobs, call, writing, indexed, history>>

\* run_ingest returns when some source was processed or skipped; those that
\* failed are named in the statistics only.
Return(w, bad) ==
    /\ worker[w].pc = "loaded"
    /\ bad \subseteq Loaded(w)
    /\ bad # Loaded(w)
    /\ IF bad = {} THEN UNCHANGED faults ELSE Fails
    /\ indexed' = [s \in Sources |->
          IF s \in Loaded(w) \ bad THEN worker[w].seen[s] ELSE indexed[s]]
    /\ covered' = [covered EXCEPT ![worker[w].job] = Loaded(w) \ bad]
    /\ Sends(w, "completed", "closing")
    /\ UNCHANGED <<clock, sources, jobs, call, writing, asked>>

\* run_ingest raises, after it deleted the old artifacts of some sources.
Raise(w, gone) ==
    /\ worker[w].pc \in {"claimed", "loaded"}
    /\ gone \subseteq Loaded(w)
    /\ Fails
    /\ indexed' = [s \in Sources |-> IF s \in gone THEN 0 ELSE indexed[s]]
    /\ Sends(w, "failed", "failing")
    /\ UNCHANGED <<clock, sources, jobs, call, writing, asked, covered>>

\* InterruptedError, when a check reads "cancelled": nothing is reported.
Interrupted(w, gone) ==
    /\ worker[w].pc = "loaded"
    /\ status[worker[w].job] = "cancelled"
    /\ gone \subseteq Loaded(w)
    /\ indexed' = [s \in Sources |-> IF s \in gone THEN 0 ELSE indexed[s]]
    /\ worker' = [worker EXCEPT ![w] = AtRest]
    /\ UNCHANGED <<clock, sources, jobs, call, wire, history>>

Crash(w, gone) ==
    /\ worker[w].pc # "idle"
    /\ gone \subseteq Loaded(w)
    /\ Fails
    /\ indexed' = [s \in Sources |-> IF s \in gone THEN 0 ELSE indexed[s]]
    /\ worker' = [worker EXCEPT ![w] = AtRest]
    /\ UNCHANGED <<clock, sources, jobs, call, wire, asked, covered>>

-----------------------------------------------------------------------------
(* The reports of the run *)

Reported(w) ==
    CASE worker[w].pc = "asking"  -> "running"
      [] worker[w].pc = "closing" -> "completed"
      [] worker[w].pc = "failing" -> "failed"

GoesOn(w) ==
    worker' = [worker EXCEPT ![w] = IF worker[w].pc = "asking" THEN [@ EXCEPT !.pc = "loaded"] ELSE AtRest]

\* The registry has answered.
Answered(w) ==
    /\ worker[w].pc \in Waiting
    /\ \A m \in sent \cup writing : ~(m.job = worker[w].job /\ m.status = Reported(w))
    /\ GoesOn(w)
    /\ UNCHANGED <<clock, sources, jobs, call, wire, indexed, history>>

\* The client gives up on a request that may still be on its way: a run goes
\* on, a completion is followed by "failed", a failure is only logged.
TimesOut(w) ==
    /\ worker[w].pc \in Waiting
    /\ Fails
    /\ IF worker[w].pc = "closing" THEN Sends(w, "failed", "failing") ELSE GoesOn(w) /\ UNCHANGED sent
    /\ UNCHANGED <<clock, sources, jobs, call, writing, indexed, asked, covered>>

\* update_ingestion_job: now = iso_now(), then connect.
Receive(m, t) ==
    /\ m \in sent
    /\ Now(t)
    /\ sent' = sent \ {m}
    /\ writing' = writing \cup {[job |-> m.job, status |-> m.status, now |-> t]}
    /\ UNCHANGED <<sources, jobs, call, worker, indexed, history>>

\* Any status from any status.
Commit(m) ==
    /\ m \in writing
    /\ writing' = writing \ {m}
    /\ status' = [status EXCEPT ![m.job] = m.status]
    /\ at' = [at EXCEPT ![m.job] = m.now]
    /\ UNCHANGED <<clock, sources, want, call, worker, sent, indexed, history>>

\* A request nobody waits for is lost.
Vanish(m) ==
    /\ m \in sent
    /\ \A w \in Workers : ~(worker[w].pc \in Waiting /\ worker[w].job = m.job /\ Reported(w) = m.status)
    /\ sent' = sent \ {m}
    /\ UNCHANGED <<clock, sources, jobs, call, worker, writing, indexed, history>>

-----------------------------------------------------------------------------
(* The specification *)

Manage ==
    \/ \E c \in Callers, s \in Sources, t \in Time :
          BeginSource(c, "add", s, t) \/ BeginSource(c, "update", s, t)
    \/ \E c \in Callers :
          CheckUpdate(c) \/ FinishAdd(c) \/ FinishUpdate(c) \/ FinishCancel(c) \/ Refused(c)
    \/ \E s \in Sources : Drop(s)
    \/ \E j \in Jobs, scope \in Scopes, t \in Time : CreateJob(j, scope, t)
    \/ \E c \in Callers, j \in Jobs, t \in Time : BeginCancel(c, j, t)

Work(w) ==
    \/ \E j \in Jobs, t \in Time : Claim(w, j, t)
    \/ Load(w) \/ LoadNothing(w) \/ Report(w)
    \/ \E some \in SUBSET Sources : Return(w, some) \/ Raise(w, some) \/ Interrupted(w, some) \/ Crash(w, some)
    \/ Answered(w) \/ TimesOut(w)

Serve ==
    \/ \E j \in Jobs, t \in Time : Heartbeat(j, t)
    \/ \E m \in sent : Vanish(m) \/ \E t \in Time : Receive(m, t)
    \/ \E m \in writing : Commit(m)

Next == Manage \/ Serve \/ \E w \in Workers : Work(w)

Spec == Init /\ [][Next]_vars

-----------------------------------------------------------------------------
(* Properties *)

TypeOK ==
    /\ clock \in Time
    /\ active \subseteq Sources
    /\ revision \in [Sources -> Revision]
    /\ stamp \in [Sources -> Time]
    /\ status \in [Jobs -> JobState]
    /\ at \in [Jobs -> Time]
    /\ want \in [Jobs -> {All} \cup SUBSET Sources]
    /\ call \in [Callers -> {NoCall} \cup SourceCall \cup CancelCall]
    /\ worker \in [Workers -> WorkerState]
    /\ sent \subseteq Request
    /\ writing \subseteq Write
    /\ indexed \in [Sources -> Revision]
    /\ asked \in [Jobs -> [Sources -> Revision]]
    /\ covered \in [Jobs -> SUBSET Sources]
    /\ faults \in 0..MaxFaults

\* A client that changes sources, creates a job and waits for that job: once
\* it is completed no source its run covered is ever indexed at a revision
\* older than the one the client saw, whatever other jobs of the worker do.
NeverOlderThanAsked ==
    \A j \in Jobs, s \in Sources :
        status[j] = "completed" /\ s \in covered[j] /\ indexed[s] # 0 => asked[j][s] <= indexed[s]

\* A completed job makes the corpus ready unless a source changed after the
\* job was created: stamps that are not in the order of the writes, late
\* reports, heartbeats and cancellations notwithstanding.
CompletedMakesReady ==
    \A j \in Jobs :
        /\ status[j] = "completed"
        /\ active # {}
        /\ \A s \in active : revision[s] = asked[j][s]
        => Ready

\* A corpus becomes ready by a completion or by the deletion of a source, and
\* by a change of a source only if that took its time before a completion
\* that is already written: never by a heartbeat, a report or a cancellation.
OnlyCompletionMakesReady ==
    [][~Ready /\ Ready' =>
          \/ \E m \in writing : m.status = "completed" /\ Commit(m)
          \/ \E s \in Sources : Drop(s)
          \/ \E c \in Callers, j \in Jobs :
                /\ FinishAdd(c) \/ FinishUpdate(c)
                /\ status[j] = "completed"
                /\ call[c].now <= at[j]]_vars

-----------------------------------------------------------------------------
(* The inductive strengthening *)

\* Runs do not overlap.
OneWorker == \A v, w \in Workers : v = w

\* A worker that is not idle has a job.
BusyHasJob == \A w \in Workers : worker[w].pc # "idle" => worker[w].job \in Jobs

\* Nothing is stamped later than now, and revisions only grow.
StampsArePast ==
    /\ \A c \in Callers : call[c].what # "none" => call[c].now <= clock
    /\ \A s \in Sources : stamp[s] <= clock
    /\ \A j \in Jobs, s \in Sources : asked[j][s] <= revision[s]

\* Requests and runs are about jobs that were created.
StartedJobs ==
    /\ \A m \in sent \cup writing : status[m.job] \notin {"unused", "pending"}
    /\ \A w \in Workers : worker[w].pc # "idle" => status[worker[w].job] \notin {"unused", "pending"}
    /\ \A c \in Callers : call[c].what = "cancel" => status[call[c].on] # "unused"

\* A completion is stamped after every change the client had seen.
CompletionIsLater ==
    /\ \A m \in writing, s \in Sources : revision[s] = asked[m.job][s] => stamp[s] <= m.now
    /\ \A j \in Jobs, s \in Sources :
          status[j] = "completed" /\ revision[s] = asked[j][s] => stamp[s] <= at[j]

\* A run knows what the client knew when it created the job, or more, and
\* what is indexed is not newer than what the run of a worker has loaded.
SeenIsRecent ==
    /\ \A w \in Workers, s \in Sources :
          worker[w].pc \in {"loaded", "asking"} /\ s \in Loaded(w) =>
              /\ asked[worker[w].job][s] <= worker[w].seen[s]
              /\ worker[w].seen[s] <= revision[s]
              /\ indexed[s] <= worker[w].seen[s]
    /\ \A s \in Sources : indexed[s] <= revision[s]

\* Jobs that have not started cover nothing, and what a job has covered is
\* not taken back by a later run.
CoveredIsIndexed ==
    /\ \A j \in Jobs : status[j] \in {"unused", "pending"} => covered[j] = {}
    /\ \A w \in Workers, j \in Jobs, s \in Sources :
          worker[w].pc \in {"loaded", "asking"} /\ s \in Loaded(w) \cap covered[j] =>
              asked[j][s] <= worker[w].seen[s]
    /\ \A j \in Jobs, s \in Sources :
          s \in covered[j] /\ indexed[s] # 0 => asked[j][s] <= indexed[s]

Timely ==
    /\ TypeOK
    /\ BusyHasJob
    /\ StampsArePast
    /\ StartedJobs
    /\ CompletionIsLater
    /\ SeenIsRecent
    /\ CoveredIsIndexed

-----------------------------------------------------------------------------
(* What the documentation says and the code does not keep *)

\* "A corpus is ready only after ingestion has completed and retrieval indexes
\* exist for the active sources."
ReadyIsIndexed == Ready => \A s \in active : indexed[s] # 0

\* "Register the updated source version, start an ingestion job, and wait for
\* readiness again, before expecting retrieval to reflect the latest content."
WaitingForReadinessIsEnough ==
    \A j \in Jobs :
        status[j] # "unused" /\ want[j] = All /\ Ready =>
            \A s \in active : asked[j][s] <= indexed[s]

=============================================================================
