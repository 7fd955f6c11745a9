----------------------- MODULE CorpusReadiness_proofs -----------------------
(***************************************************************************)
(* Proofs about CorpusReadiness.  That a completed job makes the corpus     *)
(* ready, and that nothing else does, holds for any number of workers; what *)
(* a completed job's client may count on is proved for runs that do not     *)
(* overlap.                                                                 *)
(***************************************************************************)
EXTENDS CorpusReadiness, TLAPS

USE NoneAssumption, ScopesAssumption, BoundsAssumption

-----------------------------------------------------------------------------
(* Type correctness *)

\* What a management call is follows from what it is for.
LEMMA CallKinds ==
    ASSUME TypeOK, NEW c \in Callers
    PROVE  /\ call[c].what \in {"add", "update"} => call[c] \in SourceCall
           /\ call[c].what = "cancel" => call[c] \in CancelCall
  BY DEF TypeOK, NoCall, SourceCall, CancelCall

\* A report is about the job of the worker.
LEMMA SendsType ==
    ASSUME TypeOK, NEW w \in Workers, worker[w].job \in Jobs,
           NEW st \in {"running", "completed", "failed"}, NEW l \in WorkerPC, Sends(w, st, l)
    PROVE  sent' \subseteq Request /\ worker' \in [Workers -> WorkerState]
<1>1. worker[w] \in WorkerState
  BY DEF TypeOK
<1>2. [worker[w] EXCEPT !.pc = l] \in WorkerState
  BY <1>1 DEF WorkerState
<1>3. [job |-> worker[w].job, status |-> st] \in Request
  BY DEF Request
<1>4. QED
  BY <1>2, <1>3 DEF TypeOK, Sends

LEMMA InitType == Init => TypeOK /\ BusyHasJob
  BY DEF Init, TypeOK, BusyHasJob, Unseen, Time, Revision, JobState, NoCall, AtRest, WorkerState, WorkerPC

LEMMA ManageType == TypeOK /\ BusyHasJob /\ Manage => TypeOK' /\ BusyHasJob'
<1> SUFFICES ASSUME TypeOK, BusyHasJob, Manage
             PROVE  TypeOK' /\ BusyHasJob'
  OBVIOUS
<1> USE DEF TypeOK, BusyHasJob, sources, jobs, wire, history
<1>1. ASSUME NEW c \in Callers, NEW what \in {"add", "update"}, NEW s \in Sources, NEW t \in Time,
             BeginSource(c, what, s, t)
      PROVE  TypeOK' /\ BusyHasJob'
  <2>1. [what |-> what, on |-> s, now |-> t, checked |-> FALSE] \in SourceCall
    BY DEF SourceCall
  <2>2. QED
    BY <1>1, <2>1 DEF BeginSource, Now
<1>2. ASSUME NEW c \in Callers, CheckUpdate(c)
      PROVE  TypeOK' /\ BusyHasJob'
  <2>1. call[c] \in SourceCall
    BY <1>2, CallKinds DEF CheckUpdate
  <2>2. [call[c] EXCEPT !.checked = TRUE] \in SourceCall
    BY <2>1 DEF SourceCall
  <2>3. QED
    BY <1>2, <2>2 DEF CheckUpdate
<1>3. ASSUME NEW c \in Callers, call[c] \in SourceCall, WriteSource(c),
             active' = active \cup {call[c].on} \/ active' = active
      PROVE  TypeOK' /\ BusyHasJob'
  <2>1. call[c].on \in Sources /\ call[c].now \in Time
    BY <1>3 DEF SourceCall
  <2>2. revision[call[c].on] + 1 \in Revision
    BY <1>3, <2>1 DEF WriteSource, Revision
  <2>3. revision' \in [Sources -> Revision] /\ stamp' \in [Sources -> Time] /\ active' \subseteq Sources
    BY <1>3, <2>1, <2>2 DEF WriteSource
  <2>4. QED
    BY <1>3, <2>3 DEF WriteSource
<1>4. ASSUME NEW c \in Callers, FinishAdd(c) \/ FinishUpdate(c)
      PROVE  TypeOK' /\ BusyHasJob'
  <2>1. call[c] \in SourceCall
    BY <1>4, CallKinds DEF FinishAdd, FinishUpdate
  <2>2. QED
    BY <1>3, <1>4, <2>1 DEF FinishAdd, FinishUpdate
<1>5. ASSUME NEW c \in Callers, FinishCancel(c)
      PROVE  TypeOK' /\ BusyHasJob'
  <2>1. call[c] \in CancelCall
    BY <1>5, CallKinds DEF FinishCancel
  <2>2. call[c].on \in Jobs /\ call[c].now \in Time
    BY <2>1 DEF CancelCall
  <2>3. QED
    BY <1>5, <2>2 DEF FinishCancel, JobState
<1>6. ASSUME NEW c \in Callers, Refused(c)
      PROVE  TypeOK' /\ BusyHasJob'
  BY <1>6 DEF Refused
<1>7. ASSUME NEW s \in Sources, Drop(s)
      PROVE  TypeOK' /\ BusyHasJob'
  BY <1>7 DEF Drop
<1>8. ASSUME NEW j \in Jobs, NEW scope \in Scopes, NEW t \in Time, CreateJob(j, scope, t)
      PROVE  TypeOK' /\ BusyHasJob'
  BY <1>8 DEF CreateJob, Now, JobState
<1>9. ASSUME NEW c \in Callers, NEW j \in Jobs, NEW t \in Time, BeginCancel(c, j, t)
      PROVE  TypeOK' /\ BusyHasJob'
  BY <1>9 DEF BeginCancel, Now, CancelCall
<1>10. QED
  BY <1>1, <1>2, <1>4, <1>5, <1>6, <1>7, <1>8, <1>9 DEF Manage

LEMMA WorkType == TypeOK /\ BusyHasJob /\ (\E w \in Workers : Work(w)) => TypeOK' /\ BusyHasJob'
<1> SUFFICES ASSUME TypeOK, BusyHasJob, NEW w \in Workers, Work(w)
             PROVE  TypeOK' /\ BusyHasJob'
  OBVIOUS
<1>a. worker[w] \in WorkerState /\ worker[w].seen \in [Sources -> Revision]
  BY DEF TypeOK, WorkerState
<1>b. ASSUME worker[w].job \in Jobs, NEW st \in {"running", "completed", "failed"}, NEW l \in WorkerPC,
             Sends(w, st, l)
      PROVE  sent' \subseteq Request /\ worker' \in [Workers -> WorkerState] /\ BusyHasJob'
  <2>1. sent' \subseteq Request /\ worker' \in [Workers -> WorkerState]
    BY <1>b, SendsType
  <2>2. worker' = [worker EXCEPT ![w] = [worker[w] EXCEPT !.pc = l]]
    BY <1>b DEF Sends, TypeOK
  <2>3. [worker[w] EXCEPT !.pc = l].job = worker[w].job
    BY <1>a DEF WorkerState
  <2>4. QED
    BY <1>b, <2>1, <2>2, <2>3 DEF BusyHasJob, TypeOK
<1>c. ASSUME worker' = [worker EXCEPT ![w] = AtRest]
      PROVE  worker' \in [Workers -> WorkerState] /\ BusyHasJob'
  BY <1>c DEF AtRest, BusyHasJob, TypeOK, WorkerState, WorkerPC, Unseen, Revision
<1>d. ASSUME GoesOn(w), worker[w].job \in Jobs
      PROVE  worker' \in [Workers -> WorkerState] /\ BusyHasJob'
  <2>1. CASE worker[w].pc = "asking"
    <3>1. worker' = [worker EXCEPT ![w] = [worker[w] EXCEPT !.pc = "loaded"]]
      BY <1>d, <2>1 DEF GoesOn, TypeOK
    <3>2. [worker[w] EXCEPT !.pc = "loaded"] \in WorkerState
      BY <1>a DEF WorkerState, WorkerPC
    <3>3. [worker[w] EXCEPT !.pc = "loaded"].job = worker[w].job
      BY <1>a DEF WorkerState
    <3>4. QED
      BY <1>d, <3>1, <3>2, <3>3 DEF BusyHasJob, TypeOK
  <2>2. CASE worker[w].pc # "asking"
    BY <1>c, <1>d, <2>2 DEF GoesOn
  <2>3. QED
    BY <2>1, <2>2
<1>e. ASSUME NEW gone, indexed' = [s \in Sources |-> IF s \in gone THEN 0 ELSE indexed[s]]
      PROVE  indexed' \in [Sources -> Revision]
  BY <1>e DEF TypeOK, Revision
<1>f. Loaded(w) \subseteq Sources
  BY DEF Loaded
<1>1. CASE \E j \in Jobs, t \in Time : Claim(w, j, t)
  <2>1. PICK j \in Jobs, t \in Time : Claim(w, j, t)
    BY <1>1
  <2>2. [worker[w] EXCEPT !.pc = "claimed", !.job = j] \in WorkerState
    BY <1>a DEF WorkerState, WorkerPC
  <2>3. worker' \in [Workers -> WorkerState] /\ BusyHasJob'
    BY <1>a, <2>1, <2>2 DEF Claim, TypeOK, BusyHasJob, WorkerState
  <2>4. status' \in [Jobs -> JobState] /\ at' \in [Jobs -> Time] /\ clock' \in Time
    BY <2>1 DEF Claim, Now, TypeOK, JobState
  <2>5. UNCHANGED <<sources, want, call, wire, indexed, history>>
    BY <2>1 DEF Claim
  <2>6. QED
    BY <2>3, <2>4, <2>5 DEF TypeOK, sources, wire, history
<1>2. CASE Load(w)
  <2> DEFINE seen == [s \in Sources |-> IF s \in Scope(worker[w].job) THEN revision[s] ELSE 0]
  <2>1. seen \in [Sources -> Revision]
    BY DEF TypeOK, Revision
  <2>2. [worker[w] EXCEPT !.pc = "loaded", !.seen = seen] \in WorkerState
    BY <1>a, <2>1 DEF WorkerState, WorkerPC
  <2>3. worker[w].job \in Jobs
    BY <1>2 DEF Load, BusyHasJob
  <2>4. worker' = [worker EXCEPT ![w] = [worker[w] EXCEPT !.pc = "loaded", !.seen = seen]]
    BY <1>2 DEF Load, TypeOK
  <2>5. [worker[w] EXCEPT !.pc = "loaded", !.seen = seen].job = worker[w].job
    BY <1>a DEF WorkerState
  <2>6. worker' \in [Workers -> WorkerState] /\ BusyHasJob'
    BY <2>2, <2>3, <2>4, <2>5 DEF TypeOK, BusyHasJob
  <2>7. UNCHANGED <<clock, sources, jobs, call, wire, indexed, history>>
    BY <1>2 DEF Load
  <2>8. QED
    BY <2>6, <2>7 DEF TypeOK, sources, jobs, wire, history
<1>3. CASE LoadNothing(w)
  <2>1. worker[w].job \in Jobs
    BY <1>3 DEF LoadNothing, BusyHasJob
  <2>2. sent' \subseteq Request /\ worker' \in [Workers -> WorkerState] /\ BusyHasJob'
    BY <1>3, <1>b, <2>1 DEF LoadNothing, WorkerPC, Waiting
  <2>3. UNCHANGED <<clock, sources, jobs, call, writing, indexed, history>>
    BY <1>3 DEF LoadNothing
  <2>4. QED
    BY <2>2, <2>3 DEF TypeOK, sources, jobs, history
<1>4. CASE Report(w)
  <2>1. worker[w].job \in Jobs
    BY <1>4 DEF Report, BusyHasJob
  <2>2. sent' \subseteq Request /\ worker' \in [Workers -> WorkerState] /\ BusyHasJob'
    BY <1>4, <1>b, <2>1 DEF Report, WorkerPC, Waiting
  <2>3. UNCHANGED <<clock, sources, jobs, call, writing, indexed, history>>
    BY <1>4 DEF Report
  <2>4. QED
    BY <2>2, <2>3 DEF TypeOK, sources, jobs, history
<1>5. ASSUME NEW bad \in SUBSET Sources, Return(w, bad)
      PROVE  TypeOK' /\ BusyHasJob'
  <2>1. worker[w].job \in Jobs
    BY <1>5 DEF Return, BusyHasJob
  <2>2. sent' \subseteq Request /\ worker' \in [Workers -> WorkerState] /\ BusyHasJob'
    BY <1>5, <1>b, <2>1 DEF Return, WorkerPC, Waiting
  <2>3. indexed' \in [Sources -> Revision]
    BY <1>5, <1>a DEF Return, TypeOK
  <2>4. covered' \in [Jobs -> SUBSET Sources]
    BY <1>5, <1>f, <2>1 DEF Return, TypeOK
  <2>5. faults' \in 0..MaxFaults
    BY <1>5 DEF Return, Fails, TypeOK
  <2>6. UNCHANGED <<clock, sources, jobs, call, writing, asked>>
    BY <1>5 DEF Return
  <2>7. QED
    BY <2>2, <2>3, <2>4, <2>5, <2>6 DEF TypeOK, sources, jobs
<1>6. ASSUME NEW gone \in SUBSET Sources, Raise(w, gone)
      PROVE  TypeOK' /\ BusyHasJob'
  <2>1. worker[w].job \in Jobs
    BY <1>6 DEF Raise, BusyHasJob
  <2>2. sent' \subseteq Request /\ worker' \in [Workers -> WorkerState] /\ BusyHasJob'
    BY <1>6, <1>b, <2>1 DEF Raise, WorkerPC, Waiting
  <2>3. indexed' \in [Sources -> Revision]
    BY <1>6, <1>e DEF Raise
  <2>3a. faults' \in 0..MaxFaults
    BY <1>6 DEF Raise, Fails, TypeOK
  <2>4. UNCHANGED <<clock, sources, jobs, call, writing, asked, covered>>
    BY <1>6 DEF Raise
  <2>5. QED
    BY <2>2, <2>3, <2>3a, <2>4 DEF TypeOK, sources, jobs
<1>7. ASSUME NEW gone \in SUBSET Sources, Interrupted(w, gone)
      PROVE  TypeOK' /\ BusyHasJob'
  <2>1. worker' \in [Workers -> WorkerState] /\ BusyHasJob' /\ indexed' \in [Sources -> Revision]
    BY <1>7, <1>c, <1>e DEF Interrupted
  <2>2. UNCHANGED <<clock, sources, jobs, call, wire, history>>
    BY <1>7 DEF Interrupted
  <2>3. QED
    BY <2>1, <2>2 DEF TypeOK, sources, jobs, wire, history
<1>8. ASSUME NEW gone \in SUBSET Sources, Crash(w, gone)
      PROVE  TypeOK' /\ BusyHasJob'
  <2>1. worker' \in [Workers -> WorkerState] /\ BusyHasJob' /\ indexed' \in [Sources -> Revision]
    BY <1>8, <1>c, <1>e DEF Crash
  <2>2. faults' \in 0..MaxFaults /\ UNCHANGED <<clock, sources, jobs, call, wire, asked, covered>>
    BY <1>8 DEF Crash, Fails, TypeOK
  <2>3. QED
    BY <2>1, <2>2 DEF TypeOK, sources, jobs, wire
<1>9. CASE Answered(w)
  <2>1. worker' \in [Workers -> WorkerState] /\ BusyHasJob'
    BY <1>9, <1>d DEF Answered, BusyHasJob, Waiting
  <2>2. UNCHANGED <<clock, sources, jobs, call, wire, indexed, history>>
    BY <1>9 DEF Answered
  <2>3. QED
    BY <2>1, <2>2 DEF TypeOK, sources, jobs, wire, history
<1>10. CASE TimesOut(w)
  <2>1. worker[w].job \in Jobs
    BY <1>10 DEF TimesOut, BusyHasJob, Waiting
  <2>2. CASE worker[w].pc = "closing"
    BY <1>10, <1>b, <2>1, <2>2 DEF TimesOut, Fails, TypeOK, WorkerPC, Waiting, sources, jobs
  <2>3. CASE worker[w].pc # "closing"
    <3>1. worker' \in [Workers -> WorkerState] /\ BusyHasJob' /\ sent' = sent
      BY <1>10, <1>d, <2>1, <2>3 DEF TimesOut
    <3>2. faults' \in 0..MaxFaults /\ UNCHANGED <<clock, sources, jobs, call, writing, indexed, asked, covered>>
      BY <1>10 DEF TimesOut, Fails, TypeOK
    <3>3. QED
      BY <3>1, <3>2 DEF TypeOK, sources, jobs
  <2>4. QED
    BY <2>2, <2>3
<1>11. QED
  BY <1>1, <1>2, <1>3, <1>4, <1>5, <1>6, <1>7, <1>8, <1>9, <1>10 DEF Work

LEMMA ServeType == TypeOK /\ BusyHasJob /\ Serve => TypeOK' /\ BusyHasJob'
<1> SUFFICES ASSUME TypeOK, BusyHasJob, Serve
             PROVE  TypeOK' /\ BusyHasJob'
  OBVIOUS
<1> USE DEF TypeOK, BusyHasJob, sources, jobs, wire, history
<1>1. ASSUME NEW j \in Jobs, NEW t \in Time, Heartbeat(j, t)
      PROVE  TypeOK' /\ BusyHasJob'
  BY <1>1 DEF Heartbeat, Now
<1>2. ASSUME NEW m \in sent, Vanish(m)
      PROVE  TypeOK' /\ BusyHasJob'
  BY <1>2 DEF Vanish
<1>3. ASSUME NEW m \in sent, NEW t \in Time, Receive(m, t)
      PROVE  TypeOK' /\ BusyHasJob'
  <2>1. [job |-> m.job, status |-> m.status, now |-> t] \in Write
    BY DEF Request, Write
  <2>2. QED
    BY <1>3, <2>1 DEF Receive, Now
<1>4. ASSUME NEW m \in writing, Commit(m)
      PROVE  TypeOK' /\ BusyHasJob'
  <2>1. m.job \in Jobs /\ m.status \in JobState /\ m.now \in Time
    BY DEF Write, JobState
  <2>2. QED
    BY <1>4, <2>1 DEF Commit
<1>5. QED
  BY <1>1, <1>2, <1>3, <1>4 DEF Serve

LEMMA NextType == TypeOK /\ BusyHasJob /\ [Next]_vars => TypeOK' /\ BusyHasJob'
<1>1. TypeOK /\ BusyHasJob /\ UNCHANGED vars => TypeOK' /\ BusyHasJob'
  BY DEF TypeOK, BusyHasJob, vars, sources, jobs, wire, history
<1>2. QED
  BY <1>1, ManageType, WorkType, ServeType DEF Next

\* Every variable keeps its type.
THEOREM TypeCorrect == Spec => []TypeOK
<1>1. Spec => [](TypeOK /\ BusyHasJob)
  BY InitType, NextType, PTL DEF Spec
<1>2. QED
  BY <1>1, PTL

-----------------------------------------------------------------------------
(* Stamps, requests and completions *)

\* Stamps lie in the past and jobs were asked for at revisions of the past.
LEMMA PastStep == TypeOK /\ StampsArePast /\ [Next]_vars => StampsArePast'
<1> SUFFICES ASSUME TypeOK, StampsArePast, [Next]_vars
             PROVE  StampsArePast'
  OBVIOUS
<1> USE DEF StampsArePast
<1>a. clock \in Nat /\ stamp \in [Sources -> Nat] /\ revision \in [Sources -> Nat]
      /\ asked \in [Jobs -> [Sources -> Nat]]
  BY DEF TypeOK, Time, Revision
<1>b. \A c \in Callers : call[c].what # "none" => call[c].now \in Nat
  BY DEF TypeOK, Time, NoCall, SourceCall, CancelCall
<1>c. ASSUME clock' \in {clock, clock + 1}, UNCHANGED <<stamp, revision, asked, call>>
      PROVE  StampsArePast'
  BY <1>a, <1>b, <1>c
<1>d. ASSUME NEW c \in Callers, NEW new, new.what # "none" => new.now = clock',
             call' = [call EXCEPT ![c] = new], clock' \in {clock, clock + 1},
             UNCHANGED <<stamp, revision, asked>>
      PROVE  StampsArePast'
  <2>1. ASSUME NEW d \in Callers, call'[d].what # "none"
        PROVE  call'[d].now <= clock'
    <3>1. CASE d = c
      BY <1>a, <1>d, <2>1, <3>1 DEF TypeOK
    <3>2. CASE d # c
      BY <1>a, <1>b, <1>d, <2>1, <3>2 DEF TypeOK
    <3>3. QED
      BY <3>1, <3>2
  <2>2. QED
    BY <1>a, <1>d, <2>1
<1>1. ASSUME NEW c \in Callers, NEW what \in {"add", "update"}, NEW s \in Sources, NEW t \in Time,
             BeginSource(c, what, s, t)
      PROVE  StampsArePast'
  BY <1>1, <1>d DEF BeginSource, Now, sources, history
<1>2. ASSUME NEW c \in Callers, CheckUpdate(c)
      PROVE  StampsArePast'
  <2>1. call[c] \in SourceCall
    BY <1>2, CallKinds DEF CheckUpdate
  <2>2. call'[c].now = call[c].now /\ \A d \in Callers : d # c => call'[d] = call[d]
    BY <1>2, <2>1 DEF CheckUpdate, TypeOK, SourceCall
  <2>3. call[c].what # "none"
    BY <1>2 DEF CheckUpdate
  <2>4. QED
    BY <1>2, <2>2, <2>3 DEF CheckUpdate, sources, history
<1>3. ASSUME NEW c \in Callers, call[c].what \in {"add", "update"}, WriteSource(c)
      PROVE  StampsArePast'
  <2>1. call[c].on \in Sources /\ call[c].now <= clock
    BY <1>3, CallKinds DEF SourceCall
  <2>2. \A d \in Callers : call'[d] = call[d] \/ call'[d].what = "none"
    BY <1>3 DEF WriteSource, TypeOK, NoCall
  <2>3. clock' = clock /\ asked' = asked
    BY <1>3 DEF WriteSource, history
  <2>4. \A s \in Sources : stamp'[s] <= clock /\ revision[s] <= revision'[s] /\ revision'[s] \in Nat
    BY <1>3, <1>a, <2>1 DEF WriteSource
  <2>5. QED
    BY <1>a, <2>2, <2>3, <2>4
<1>4. ASSUME NEW c \in Callers, FinishAdd(c) \/ FinishUpdate(c)
      PROVE  StampsArePast'
  BY <1>3, <1>4 DEF FinishAdd, FinishUpdate
<1>5. ASSUME NEW c \in Callers, FinishCancel(c) \/ Refused(c)
      PROVE  StampsArePast'
  <2>1. \A d \in Callers : call'[d] = call[d] \/ call'[d].what = "none"
    BY <1>5 DEF FinishCancel, Refused, TypeOK, NoCall
  <2>2. UNCHANGED <<clock, stamp, revision, asked>>
    BY <1>5 DEF FinishCancel, Refused, sources, history
  <2>3. QED
    BY <2>1, <2>2
<1>6. ASSUME NEW s \in Sources, Drop(s)
      PROVE  StampsArePast'
  BY <1>6, <1>c DEF Drop, history
<1>7. ASSUME NEW j \in Jobs, NEW scope \in Scopes, NEW t \in Time, CreateJob(j, scope, t)
      PROVE  StampsArePast'
  <2>1. clock' \in {clock, clock + 1} /\ UNCHANGED <<stamp, revision, call>>
    BY <1>7 DEF CreateJob, Now, sources
  <2>2. asked' = [asked EXCEPT ![j] = revision]
    BY <1>7 DEF CreateJob
  <2>3. \A k \in Jobs, s \in Sources : asked'[k][s] <= revision[s]
    BY <1>a, <2>2
  <2>4. QED
    BY <1>a, <1>b, <2>1, <2>3
<1>8. ASSUME NEW c \in Callers, NEW j \in Jobs, NEW t \in Time, BeginCancel(c, j, t)
      PROVE  StampsArePast'
  BY <1>8, <1>d DEF BeginCancel, Now, sources, history
<1>9. ASSUME NEW w \in Workers, Work(w)
      PROVE  StampsArePast'
  <2>1. CASE \E j \in Jobs, t \in Time : Claim(w, j, t)
    BY <1>c, <2>1 DEF Claim, Now, sources, history
  <2>2. CASE Load(w) \/ LoadNothing(w) \/ Report(w) \/ Answered(w) \/ TimesOut(w)
    BY <1>c, <2>2 DEF Load, LoadNothing, Report, Answered, TimesOut, sources, history
  <2>3. CASE \E some \in SUBSET Sources :
                Return(w, some) \/ Raise(w, some) \/ Interrupted(w, some) \/ Crash(w, some)
    BY <1>c, <2>3 DEF Return, Raise, Interrupted, Crash, sources, history
  <2>4. QED
    BY <1>9, <2>1, <2>2, <2>3 DEF Work
<1>10. CASE Serve
  BY <1>c, <1>10 DEF Serve, Heartbeat, Vanish, Receive, Commit, Now, sources, history
<1>11. CASE UNCHANGED vars
  BY <1>c, <1>11 DEF vars, sources, history
<1>12. QED
  BY <1>1, <1>2, <1>4, <1>5, <1>6, <1>7, <1>8, <1>9, <1>10, <1>11 DEF Next, Manage

\* No job becomes unused again and no started job pending.
LEMMA StatusStep ==
    ASSUME TypeOK, StartedJobs, [Next]_vars, NEW j \in Jobs
    PROVE  /\ status[j] # "unused" => status'[j] # "unused"
           /\ status[j] \notin {"unused", "pending"} => status'[j] \notin {"unused", "pending"}
<1>1. CASE Manage
  <2>1. CASE \E c \in Callers : FinishCancel(c)
    BY <2>1 DEF FinishCancel, TypeOK
  <2>2. CASE \E k \in Jobs, scope \in Scopes, t \in Time : CreateJob(k, scope, t)
    BY <2>2 DEF CreateJob, TypeOK
  <2>3. CASE UNCHANGED status
    BY <2>3
  <2>4. QED
    BY <1>1, <2>1, <2>2, <2>3
       DEF Manage, BeginSource, CheckUpdate, FinishAdd, FinishUpdate, WriteSource, Refused, Drop, BeginCancel, jobs
<1>2. ASSUME NEW w \in Workers, Work(w)
      PROVE  /\ status[j] # "unused" => status'[j] # "unused"
             /\ status[j] \notin {"unused", "pending"} => status'[j] \notin {"unused", "pending"}
  <2>1. CASE \E k \in Jobs, t \in Time : Claim(w, k, t)
    BY <2>1 DEF Claim, TypeOK
  <2>2. CASE UNCHANGED status
    BY <2>2
  <2>3. QED
    BY <1>2, <2>1, <2>2
       DEF Work, Load, LoadNothing, Report, Return, Raise, Interrupted, Crash, Answered, TimesOut, jobs
<1>3. CASE Serve
  <2>1. CASE \E m \in writing : Commit(m)
    <3>1. PICK m \in writing : Commit(m)
      BY <2>1
    <3>2. m.status \in {"running", "completed", "failed"}
      BY DEF TypeOK, Write
    <3>3. QED
      BY <3>1, <3>2 DEF Commit, TypeOK
  <2>2. CASE UNCHANGED status
    BY <2>2
  <2>3. QED
    BY <1>3, <2>1, <2>2 DEF Serve, Heartbeat, Vanish, Receive, jobs
<1>4. CASE UNCHANGED vars
  BY <1>4 DEF vars, jobs
<1>5. QED
  BY <1>1, <1>2, <1>3, <1>4 DEF Next

\* What is sent is about the job of the worker that sends it.
LEMMA SendsStarted ==
    ASSUME TypeOK, BusyHasJob, StartedJobs, [Next]_vars, NEW w \in Workers, worker[w].pc # "idle",
           NEW st, NEW l, Sends(w, st, l), writing' = writing, call' = call
    PROVE  StartedJobs'
<1> USE DEF StartedJobs
<1>1. worker[w].job \in Jobs /\ status[worker[w].job] \notin {"unused", "pending"}
  BY DEF BusyHasJob
<1>2. \A m \in sent' \cup writing' : m.job \in Jobs /\ status[m.job] \notin {"unused", "pending"}
  BY <1>1 DEF Sends, TypeOK, Request, Write
<1>3. \A v \in Workers : worker'[v].job = worker[v].job /\ (worker'[v].pc # "idle" => worker[v].pc # "idle")
  BY DEF Sends, TypeOK, WorkerState
<1>4. \A c \in Callers : call[c].what = "cancel" => call[c].on \in Jobs
  BY CallKinds DEF CancelCall
<1>5. QED
  BY <1>2, <1>3, <1>4, StatusStep DEF BusyHasJob

\* Requests, runs and cancellations stay about jobs that were created.
LEMMA StartedStep == TypeOK /\ BusyHasJob /\ StartedJobs /\ [Next]_vars => StartedJobs'
<1> SUFFICES ASSUME TypeOK, BusyHasJob, StartedJobs, [Next]_vars
             PROVE  StartedJobs'
  OBVIOUS
<1> USE DEF StartedJobs
<1>a. \A m \in sent \cup writing : m.job \in Jobs
  BY DEF TypeOK, Request, Write
<1>b. \A c \in Callers : call[c].what = "cancel" => call[c].on \in Jobs
  BY CallKinds DEF CancelCall
<1>c. ASSUME \A m \in sent' \cup writing' : \E n \in sent \cup writing : m.job = n.job,
             \A w \in Workers : worker'[w].pc # "idle" => worker[w].pc # "idle" /\ worker'[w].job = worker[w].job,
             \A c \in Callers : call'[c].what = "cancel" => call[c].what = "cancel" /\ call'[c].on = call[c].on
      PROVE  StartedJobs'
  BY <1>a, <1>b, <1>c, StatusStep DEF BusyHasJob
<1>1. CASE \E c \in Callers, j \in Jobs, t \in Time : BeginCancel(c, j, t)
  <2>1. PICK c \in Callers, j \in Jobs, t \in Time : BeginCancel(c, j, t)
    BY <1>1
  <2>2. \A d \in Callers : call'[d].what = "cancel" =>
            call'[d].on \in Jobs /\ status[call'[d].on] # "unused"
    BY <1>b, <2>1 DEF BeginCancel, TypeOK
  <2>3. UNCHANGED <<sent, writing, worker, status>>
    BY <2>1 DEF BeginCancel, wire, jobs
  <2>4. QED
    BY <2>2, <2>3
<1>2. CASE Manage /\ ~\E c \in Callers, j \in Jobs, t \in Time : BeginCancel(c, j, t)
  <2>1. UNCHANGED <<sent, writing, worker>>
    BY <1>2 DEF Manage, BeginSource, CheckUpdate, FinishAdd, FinishUpdate, WriteSource, FinishCancel, Refused,
                Drop, CreateJob, wire
  <2>2. ASSUME NEW c \in Callers, CheckUpdate(c)
        PROVE  \A d \in Callers : call'[d].what = "cancel" => call[d].what = "cancel" /\ call'[d].on = call[d].on
    <3>1. call[c] \in SourceCall
      BY <2>2, CallKinds DEF CheckUpdate
    <3>2. call'[c].what # "cancel" /\ \A d \in Callers : d # c => call'[d] = call[d]
      BY <2>2, <3>1 DEF CheckUpdate, TypeOK, SourceCall
    <3>3. QED
      BY <3>2
  <2>3. \A d \in Callers : call'[d].what = "cancel" => call[d].what = "cancel" /\ call'[d].on = call[d].on
    <3>1. CASE \E c \in Callers : CheckUpdate(c)
      BY <2>2, <3>1
    <3>2. CASE \E c \in Callers, s \in Sources, t \in Time :
                  BeginSource(c, "add", s, t) \/ BeginSource(c, "update", s, t)
      BY <3>2 DEF BeginSource, TypeOK
    <3>3. CASE \E c \in Callers : FinishAdd(c) \/ FinishUpdate(c) \/ FinishCancel(c) \/ Refused(c)
      <4>1. PICK c \in Callers : call' = [call EXCEPT ![c] = NoCall]
        BY <3>3 DEF FinishAdd, FinishUpdate, FinishCancel, WriteSource, Refused
      <4>2. QED
        BY <4>1 DEF TypeOK, NoCall
    <3>4. CASE UNCHANGED call
      BY <3>4
    <3>5. QED
      BY <1>2, <3>1, <3>2, <3>3, <3>4 DEF Manage, Drop, CreateJob
  <2>4. QED
    BY <1>c, <2>1, <2>3
<1>3. ASSUME NEW w \in Workers, Work(w)
      PROVE  StartedJobs'
  <2>1. CASE \E j \in Jobs, t \in Time : Claim(w, j, t)
    <3>1. PICK j \in Jobs, t \in Time : Claim(w, j, t)
      BY <2>1
    <3>2. worker'[w].job = j /\ status'[j] = "running" /\ \A v \in Workers : v # w => worker'[v] = worker[v]
      BY <3>1 DEF Claim, TypeOK, WorkerState
    <3>3. UNCHANGED <<sent, writing, call>>
      BY <3>1 DEF Claim, wire
    <3>4. \A v \in Workers : worker'[v].pc # "idle" => status'[worker'[v].job] \notin {"unused", "pending"}
      BY <3>2, StatusStep DEF BusyHasJob
    <3>5. QED
      BY <1>a, <1>b, <3>3, <3>4, StatusStep
  <2>2. CASE LoadNothing(w) \/ Report(w)
    BY <2>2, SendsStarted DEF LoadNothing, Report
  <2>3. CASE \E some \in SUBSET Sources : Return(w, some)
    BY <2>3, SendsStarted DEF Return
  <2>4. CASE \E some \in SUBSET Sources : Raise(w, some)
    BY <2>4, SendsStarted DEF Raise
  <2>5. CASE TimesOut(w) /\ worker[w].pc = "closing"
    BY <2>5, SendsStarted DEF TimesOut
  <2>6. CASE Load(w)
    <3>1. \A v \in Workers : worker'[v].job = worker[v].job /\ (worker'[v].pc # "idle" => worker[v].pc # "idle")
      BY <2>6 DEF Load, TypeOK, WorkerState
    <3>2. QED
      BY <1>c, <2>6, <3>1 DEF Load, wire
  <2>7. CASE \E some \in SUBSET Sources : Interrupted(w, some) \/ Crash(w, some)
    <3>1. \A v \in Workers : worker'[v] = worker[v] \/ worker'[v].pc = "idle"
      BY <2>7 DEF Interrupted, Crash, TypeOK, AtRest
    <3>2. QED
      BY <1>c, <2>7, <3>1 DEF Interrupted, Crash, wire
  <2>8. CASE Answered(w) \/ (TimesOut(w) /\ worker[w].pc # "closing")
    <3>1. worker[w].pc # "idle" /\ GoesOn(w) /\ UNCHANGED <<sent, writing, call>>
      BY <2>8 DEF Answered, TimesOut, Waiting, wire
    <3>2. \A v \in Workers : worker'[v].pc # "idle" => worker[v].pc # "idle" /\ worker'[v].job = worker[v].job
      BY <3>1 DEF GoesOn, AtRest, TypeOK, WorkerState
    <3>3. QED
      BY <1>c, <3>1, <3>2
  <2>9. QED
    BY <1>3, <2>1, <2>2, <2>3, <2>4, <2>5, <2>6, <2>7, <2>8 DEF Work
<1>4. CASE Serve
  <2>1. UNCHANGED <<worker, call>>
    BY <1>4 DEF Serve, Heartbeat, Vanish, Receive, Commit
  <2>2. \A m \in sent' \cup writing' : \E n \in sent \cup writing : m.job = n.job
    BY <1>4 DEF Serve, Heartbeat, Vanish, Receive, Commit, wire
  <2>3. QED
    BY <1>c, <2>1, <2>2
<1>5. CASE UNCHANGED vars
  BY <1>c, <1>5 DEF vars, wire
<1>6. QED
  BY <1>1, <1>2, <1>3, <1>4, <1>5 DEF Next

\* Runs, their reports and heartbeats change no source and ask for nothing.
LEMMA OnlyManagement ==
    ASSUME (\E w \in Workers : Work(w)) \/ Serve \/ UNCHANGED vars
    PROVE  UNCHANGED <<asked, revision, stamp>>
<1>1. ASSUME NEW w \in Workers, Work(w)
      PROVE  UNCHANGED <<asked, revision, stamp>>
  <2>1. CASE (\E j \in Jobs, t \in Time : Claim(w, j, t)) \/ Load(w) \/ LoadNothing(w) \/ Report(w)
    BY <2>1 DEF Claim, Load, LoadNothing, Report, sources, history
  <2>2. CASE \E some \in SUBSET Sources :
                Return(w, some) \/ Raise(w, some) \/ Interrupted(w, some) \/ Crash(w, some)
    BY <2>2 DEF Return, Raise, Interrupted, Crash, sources, history
  <2>3. CASE Answered(w) \/ TimesOut(w)
    BY <2>3 DEF Answered, TimesOut, sources, history
  <2>4. QED
    BY <1>1, <2>1, <2>2, <2>3 DEF Work
<1>2. CASE Serve
  BY <1>2 DEF Serve, Heartbeat, Vanish, Receive, Commit, sources, history
<1>3. CASE UNCHANGED vars
  BY <1>3 DEF vars, sources, history
<1>4. QED
  BY <1>1, <1>2, <1>3

\* A source that has changed since a job was asked for stays so.
LEMMA AskedStep ==
    ASSUME TypeOK, StampsArePast, [Next]_vars, NEW j \in Jobs, status[j] # "unused", NEW s \in Sources
    PROVE  /\ asked'[j] = asked[j]
           /\ revision[s] <= revision'[s]
           /\ revision'[s] = asked[j][s] => revision[s] = asked[j][s] /\ stamp'[s] = stamp[s]
<1> DEFINE Goal == /\ asked'[j] = asked[j]
                   /\ revision[s] <= revision'[s]
                   /\ revision'[s] = asked[j][s] => revision[s] = asked[j][s] /\ stamp'[s] = stamp[s]
<1>a. revision[s] \in Nat /\ asked[j][s] \in Nat /\ asked[j][s] <= revision[s]
  BY DEF TypeOK, Revision, StampsArePast
<1>1. CASE Manage
  <2>1. CASE \E c \in Callers : FinishAdd(c) \/ FinishUpdate(c)
    <3>1. PICK c \in Callers : WriteSource(c)
      BY <2>1 DEF FinishAdd, FinishUpdate
    <3>2. asked' = asked /\ (s # call[c].on => revision'[s] = revision[s] /\ stamp'[s] = stamp[s])
      BY <3>1 DEF WriteSource, history, TypeOK
    <3>3. s = call[c].on => revision'[s] = revision[s] + 1
      BY <3>1 DEF WriteSource, TypeOK
    <3>4. QED
      BY <1>a, <3>2, <3>3
  <2>2. CASE \E k \in Jobs, scope \in Scopes, t \in Time : CreateJob(k, scope, t)
    BY <1>a, <2>2 DEF CreateJob, sources, TypeOK
  <2>3. CASE UNCHANGED <<asked, revision, stamp>>
    BY <1>a, <2>3
  <2>4. QED
    BY <1>1, <2>1, <2>2, <2>3
       DEF Manage, BeginSource, CheckUpdate, Refused, Drop, BeginCancel, FinishCancel, sources, history
<1>2. CASE (\E w \in Workers : Work(w)) \/ Serve \/ UNCHANGED vars
  BY <1>a, <1>2, OnlyManagement
<1>3. QED
  BY <1>1, <1>2 DEF Next

\* A completion is stamped after every change its client had seen.
LEMMA LaterStep ==
    TypeOK /\ StampsArePast /\ StartedJobs /\ CompletionIsLater /\ [Next]_vars => CompletionIsLater'
<1> SUFFICES ASSUME TypeOK, StampsArePast, StartedJobs, CompletionIsLater, [Next]_vars
             PROVE  CompletionIsLater'
  OBVIOUS
<1> USE DEF CompletionIsLater
<1>a. \A m \in sent \cup writing : m.job \in Jobs /\ status[m.job] # "unused"
  BY DEF TypeOK, Request, Write, StartedJobs
<1>b. clock \in Nat /\ \A s \in Sources : stamp[s] \in Nat /\ stamp[s] <= clock
  BY DEF TypeOK, Time, StampsArePast
<1>c. ASSUME writing' \subseteq writing,
             \A j \in Jobs : status'[j] = "completed" => status[j] = "completed" /\ at'[j] = at[j]
      PROVE  CompletionIsLater'
  BY <1>a, <1>c, AskedStep
<1>1. CASE Manage
  <2>1. writing' = writing
    BY <1>1 DEF Manage, BeginSource, CheckUpdate, FinishAdd, FinishUpdate, WriteSource, FinishCancel, Refused, Drop,
                CreateJob, BeginCancel, wire
  <2>2. \A j \in Jobs : status'[j] = "completed" => status[j] = "completed" /\ at'[j] = at[j]
    <3>1. CASE \E c \in Callers : FinishCancel(c)
      BY <3>1 DEF FinishCancel, TypeOK
    <3>2. CASE \E k \in Jobs, scope \in Scopes, t \in Time : CreateJob(k, scope, t)
      BY <3>2 DEF CreateJob, TypeOK
    <3>3. CASE UNCHANGED <<status, at>>
      BY <3>3
    <3>4. QED
      BY <1>1, <3>1, <3>2, <3>3
         DEF Manage, BeginSource, CheckUpdate, FinishAdd, FinishUpdate, WriteSource, Refused, Drop, BeginCancel, jobs
  <2>3. QED
    BY <1>c, <2>1, <2>2
<1>2. ASSUME NEW w \in Workers, Work(w)
      PROVE  CompletionIsLater'
  <2>1. writing' = writing
    BY <1>2 DEF Work, Claim, Load, LoadNothing, Report, Return, Raise, Interrupted, Crash, Answered, TimesOut, wire
  <2>2. CASE \E k \in Jobs, t \in Time : Claim(w, k, t)
    BY <1>c, <2>1, <2>2 DEF Claim, TypeOK
  <2>3. CASE UNCHANGED <<status, at>>
    BY <1>c, <2>1, <2>3
  <2>4. QED
    BY <1>2, <2>2, <2>3
       DEF Work, Load, LoadNothing, Report, Return, Raise, Interrupted, Crash, Answered, TimesOut, jobs
<1>3. ASSUME NEW j \in Jobs, NEW t \in Time, Heartbeat(j, t)
      PROVE  CompletionIsLater'
  BY <1>3, <1>c DEF Heartbeat, wire, TypeOK
<1>4. ASSUME NEW m \in sent, Vanish(m)
      PROVE  CompletionIsLater'
  BY <1>4, <1>c DEF Vanish, jobs
<1>5. ASSUME NEW m \in sent, NEW t \in Time, Receive(m, t)
      PROVE  CompletionIsLater'
  <2>1. UNCHANGED <<status, at, stamp, revision, asked>> /\ t \in {clock, clock + 1}
    BY <1>5 DEF Receive, Now, sources, jobs, history
  <2>2. ASSUME NEW n \in writing', NEW s \in Sources, revision'[s] = asked'[n.job][s]
        PROVE  stamp'[s] <= n.now
    <3>1. CASE n \in writing
      BY <2>1, <2>2, <3>1
    <3>2. CASE n = [job |-> m.job, status |-> m.status, now |-> t]
      BY <1>b, <2>1, <3>2
    <3>3. QED
      BY <1>5, <3>1, <3>2 DEF Receive
  <2>3. QED
    BY <2>1, <2>2
<1>6. ASSUME NEW m \in writing, Commit(m)
      PROVE  CompletionIsLater'
  <2>1. UNCHANGED <<stamp, revision, asked>> /\ writing' \subseteq writing
    BY <1>6 DEF Commit, sources, history
  <2>2. m.job \in Jobs
    BY <1>a
  <2>3. ASSUME NEW j \in Jobs, NEW s \in Sources, status'[j] = "completed", revision[s] = asked[j][s]
        PROVE  stamp[s] <= at'[j]
    <3>1. CASE j = m.job
      BY <1>6, <2>2, <2>3, <3>1 DEF Commit, TypeOK
    <3>2. CASE j # m.job
      BY <1>6, <2>2, <2>3, <3>2 DEF Commit, TypeOK
    <3>3. QED
      BY <3>1, <3>2
  <2>4. QED
    BY <2>1, <2>3
<1>7. CASE UNCHANGED vars
  BY <1>c, <1>7 DEF vars, jobs, wire
<1>8. QED
  BY <1>1, <1>2, <1>3, <1>4, <1>5, <1>6, <1>7 DEF Next, Serve

\* What holds whatever runs overlap.
Basis == TypeOK /\ BusyHasJob /\ StampsArePast /\ StartedJobs /\ CompletionIsLater

LEMMA InitBasis == Init => Basis
<1>1. Init => StampsArePast /\ StartedJobs /\ CompletionIsLater
  BY DEF Init, StampsArePast, StartedJobs, CompletionIsLater, NoCall, AtRest, Unseen
<1>2. QED
  BY <1>1, InitType DEF Basis

LEMMA NextBasis == Basis /\ [Next]_vars => Basis'
  BY NextType, PastStep, StartedStep, LaterStep DEF Basis

\* Every reachable state has the stamps, requests and completions in order.
THEOREM BasisAlways == Spec => []Basis
  BY InitBasis, NextBasis, PTL DEF Spec

\* A job that is completed makes the corpus ready unless a source changed after
\* the job was asked for, for any number of callers, jobs and workers.
THEOREM CompletedAlwaysMakesReady == Spec => []CompletedMakesReady
<1>1. Basis => CompletedMakesReady
  <2> SUFFICES ASSUME Basis, NEW j \in Jobs, status[j] = "completed", active # {},
                      \A s \in active : revision[s] = asked[j][s]
               PROVE  Ready
    BY DEF CompletedMakesReady
  <2>1. \A s \in active : stamp[s] <= at[j]
    BY DEF Basis, CompletionIsLater, TypeOK
  <2>2. QED
    BY <2>1 DEF Ready
<1>2. QED
  BY <1>1, BasisAlways, PTL

-----------------------------------------------------------------------------
(* What makes a corpus ready *)

\* Who may make a corpus ready: the disjuncts of OnlyCompletionMakesReady.
Completion == \E m \in writing : m.status = "completed" /\ Commit(m)
Deletion == \E s \in Sources : Drop(s)
OldChange ==
    \E c \in Callers, j \in Jobs :
        /\ FinishAdd(c) \/ FinishUpdate(c)
        /\ status[j] = "completed"
        /\ call[c].now <= at[j]

\* A step that leaves the sources alone and completes no job makes nothing ready.
LEMMA NothingNew ==
    ASSUME UNCHANGED <<active, stamp>>,
           \A j \in Jobs : status'[j] = "completed" => status[j] = "completed" /\ at'[j] = at[j],
           Ready'
    PROVE  Ready
  BY DEF Ready

\* A change of a source makes the corpus ready only if it is an old one.
LEMMA ChangeIsOld ==
    ASSUME TypeOK, NEW c \in Callers, FinishAdd(c) \/ FinishUpdate(c), ~Ready, Ready'
    PROVE  OldChange
<1>1. call[c].on \in Sources
  BY CallKinds DEF FinishAdd, FinishUpdate, SourceCall
<1>2. UNCHANGED <<status, at>> /\ stamp' = [stamp EXCEPT ![call[c].on] = call[c].now]
  BY DEF FinishAdd, FinishUpdate, WriteSource, jobs
<1>3. PICK j \in Jobs : status[j] = "completed" /\ \A s \in active' : stamp'[s] <= at[j]
  BY <1>2 DEF Ready
<1>4. CASE call[c].on \in active'
  <2>1. call[c].now <= at[j]
    BY <1>1, <1>2, <1>3, <1>4 DEF TypeOK
  <2>2. QED
    BY <1>3, <2>1 DEF OldChange
<1>5. CASE call[c].on \notin active'
  <2>1. active' = active
    BY <1>5 DEF FinishAdd, FinishUpdate
  <2>2. \A s \in active : stamp'[s] = stamp[s]
    BY <1>2, <1>5, <2>1 DEF TypeOK
  <2>3. active # {}
    BY <2>1 DEF Ready
  <2>4. QED
    BY <1>3, <2>1, <2>2, <2>3 DEF Ready
<1>6. QED
  BY <1>4, <1>5

LEMMA OnlyStep == TypeOK /\ [Next]_vars /\ ~Ready /\ Ready' => Completion \/ Deletion \/ OldChange
<1> SUFFICES ASSUME TypeOK, [Next]_vars, ~Ready, Ready'
             PROVE  Completion \/ Deletion \/ OldChange
  OBVIOUS
<1>1. CASE Manage
  <2>1. CASE Deletion
    BY <2>1
  <2>2. CASE \E c \in Callers : FinishAdd(c) \/ FinishUpdate(c)
    BY <2>2, ChangeIsOld
  <2>3. CASE \E c \in Callers : FinishCancel(c)
    BY <2>3, NothingNew DEF FinishCancel, sources, TypeOK
  <2>4. CASE \E k \in Jobs, scope \in Scopes, t \in Time : CreateJob(k, scope, t)
    BY <2>4, NothingNew DEF CreateJob, sources, TypeOK
  <2>5. CASE UNCHANGED <<sources, jobs>>
    BY <2>5, NothingNew DEF sources, jobs
  <2>6. QED
    BY <1>1, <2>1, <2>2, <2>3, <2>4, <2>5
       DEF Manage, Deletion, BeginSource, CheckUpdate, Refused, BeginCancel
<1>2. ASSUME NEW w \in Workers, Work(w)
      PROVE  FALSE
  <2>1. CASE \E k \in Jobs, t \in Time : Claim(w, k, t)
    BY <2>1, NothingNew DEF Claim, sources, TypeOK
  <2>2. CASE UNCHANGED <<sources, jobs>>
    BY <2>2, NothingNew DEF sources, jobs
  <2>3. QED
    BY <1>2, <2>1, <2>2
       DEF Work, Load, LoadNothing, Report, Return, Raise, Interrupted, Crash, Answered, TimesOut
<1>3. ASSUME NEW j \in Jobs, NEW t \in Time, Heartbeat(j, t)
      PROVE  FALSE
  BY <1>3, NothingNew DEF Heartbeat, sources, TypeOK
<1>4. ASSUME NEW m \in writing, Commit(m)
      PROVE  Completion
  <2>1. CASE m.status = "completed"
    BY <1>4, <2>1 DEF Completion
  <2>2. CASE m.status # "completed"
    BY <1>4, <2>2, NothingNew DEF Commit, sources, TypeOK
  <2>3. QED
    BY <2>1, <2>2
<1>5. CASE Serve
  <2>1. CASE UNCHANGED <<sources, jobs>>
    BY <2>1, NothingNew DEF sources, jobs
  <2>2. QED
    BY <1>3, <1>4, <1>5, <2>1 DEF Serve, Vanish, Receive
<1>6. CASE UNCHANGED vars
  BY <1>6, NothingNew DEF vars, sources, jobs
<1>7. QED
  BY <1>1, <1>2, <1>5, <1>6 DEF Next

\* Only a completion, a deletion or an old change makes a corpus ready.
THEOREM OnlyCompletionsMakeReady == Spec => OnlyCompletionMakesReady
<1>1. TypeOK /\ [Next]_vars =>
        [~Ready /\ Ready' =>
          \/ \E m \in writing : m.status = "completed" /\ Commit(m)
          \/ \E s \in Sources : Drop(s)
          \/ \E c \in Callers, j \in Jobs :
                /\ FinishAdd(c) \/ FinishUpdate(c)
                /\ status[j] = "completed"
                /\ call[c].now <= at[j]]_vars
  BY OnlyStep DEF Completion, Deletion, OldChange
<1>2. QED
  BY <1>1, TypeCorrect, PTL DEF Spec, OnlyCompletionMakesReady

-----------------------------------------------------------------------------
(* What a completed job's client may count on *)

\* The part of the strengthening that needs runs one after the other.
Recent == SeenIsRecent /\ CoveredIsIndexed

\* Workers that have loaded the sources and not returned.
Holding(w) == worker[w].pc \in {"loaded", "asking"}

\* Revisions are numbers.
LEMMA RevisionsAreNumbers ==
    ASSUME TypeOK
    PROVE  /\ revision \in [Sources -> Nat] /\ indexed \in [Sources -> Nat]
           /\ asked \in [Jobs -> [Sources -> Nat]]
           /\ \A w \in Workers : worker[w].seen \in [Sources -> Nat]
<1>1. Revision \subseteq Nat
  BY DEF Revision
<1>2. \A w \in Workers : worker[w].seen \in [Sources -> Revision]
  BY DEF TypeOK, WorkerState
<1>3. revision \in [Sources -> Nat] /\ indexed \in [Sources -> Nat]
  BY <1>1 DEF TypeOK
<1>4. asked \in [Jobs -> [Sources -> Nat]]
  <2>1. [Sources -> Revision] \subseteq [Sources -> Nat]
    BY <1>1
  <2>2. asked \in [Jobs -> [Sources -> Revision]]
    BY DEF TypeOK
  <2>3. QED
    BY <2>1, <2>2
<1>5. \A w \in Workers : worker[w].seen \in [Sources -> Nat]
  BY <1>1, <1>2
<1>6. QED
  BY <1>3, <1>4, <1>5

\* A job that a worker holds, or that has covered something, keeps what it was
\* asked for.
LEMMA AskedKept ==
    ASSUME Basis, Recent, [Next]_vars, NEW s \in Sources
    PROVE  /\ revision[s] \in Nat /\ revision'[s] \in Nat /\ revision[s] <= revision'[s]
           /\ \A w \in Workers : Holding(w) => asked'[worker[w].job][s] = asked[worker[w].job][s]
           /\ \A j \in Jobs : covered[j] # {} => asked'[j][s] = asked[j][s]
<1>1. revision[s] \in Nat /\ revision'[s] \in Nat
  BY NextBasis DEF Basis, TypeOK, Revision
<1>2. revision[s] <= revision'[s]
  <2>1. CASE \E c \in Callers : WriteSource(c)
    BY <1>1, <2>1 DEF WriteSource, Basis, TypeOK
  <2>2. CASE UNCHANGED revision
    BY <1>1, <2>2
  <2>3. CASE Manage
    BY <2>1, <2>2, <2>3
       DEF Manage, BeginSource, CheckUpdate, FinishAdd, FinishUpdate, Refused, Drop, CreateJob, BeginCancel,
           FinishCancel, sources
  <2>4. QED
    BY <2>2, <2>3, OnlyManagement DEF Next
<1>3. \A w \in Workers : Holding(w) => asked'[worker[w].job][s] = asked[worker[w].job][s]
  BY AskedStep DEF Basis, BusyHasJob, StartedJobs, Holding
<1>4. \A j \in Jobs : covered[j] # {} => asked'[j][s] = asked[j][s]
  BY AskedStep DEF Basis, Recent, CoveredIsIndexed
<1>5. QED
  BY <1>1, <1>2, <1>3, <1>4

\* A step after which no worker holds anything new and no source is indexed anew.
LEMMA RecentKept ==
    ASSUME Basis, Recent, [Next]_vars, covered' = covered,
           \A s \in Sources : indexed'[s] = 0 \/ indexed'[s] = indexed[s],
           \A w \in Workers : Holding(w)' => Holding(w) /\ worker'[w].job = worker[w].job
                                                        /\ worker'[w].seen = worker[w].seen
    PROVE  Recent'
<1> USE DEF Recent, SeenIsRecent, CoveredIsIndexed, Holding, Loaded
<1>a. \A s \in Sources : /\ indexed[s] \in Nat
                        /\ \A j \in Jobs : asked[j][s] \in Nat
                        /\ \A w \in Workers : worker[w].seen[s] \in Nat
  BY RevisionsAreNumbers DEF Basis
<1>b. \A j \in Jobs : status'[j] \in {"unused", "pending"} => covered[j] = {}
  BY StatusStep DEF Basis
<1>c. \A w \in Workers : Holding(w) => worker[w].job \in Jobs
  BY DEF Basis, BusyHasJob
<1>1. ASSUME NEW w \in Workers, NEW s \in Sources, Holding(w)', s \in Loaded(w)'
      PROVE  /\ asked'[worker'[w].job][s] <= worker'[w].seen[s]
             /\ worker'[w].seen[s] <= revision'[s]
             /\ indexed'[s] <= worker'[w].seen[s]
             /\ \A j \in Jobs : s \in covered'[j] => asked'[j][s] <= worker'[w].seen[s]
  <2>1. Holding(w) /\ worker'[w].job = worker[w].job /\ worker'[w].seen = worker[w].seen /\ s \in Loaded(w)
    BY <1>1
  <2>1a. worker[w].seen[s] <= revision[s] /\ indexed[s] <= worker[w].seen[s] /\ worker[w].seen[s] \in Nat
    <3>1. worker[w].seen[s] \in Nat
      BY RevisionsAreNumbers DEF Basis
    <3>2. worker[w].seen[s] <= revision[s] /\ indexed[s] <= worker[w].seen[s]
      BY <2>1
    <3>3. QED
      BY <3>1, <3>2
  <2>2. asked'[worker'[w].job][s] <= worker'[w].seen[s]
    BY <2>1, AskedKept
  <2>3. worker[w].seen[s] <= revision'[s]
    <3>1. revision[s] \in Nat /\ revision'[s] \in Nat /\ revision[s] <= revision'[s]
      BY AskedKept
    <3>2. QED
      BY <2>1a, <3>1
  <2>4. indexed'[s] <= worker[w].seen[s]
    <3>1. CASE indexed'[s] = 0
      BY <2>1a, <3>1
    <3>2. CASE indexed'[s] = indexed[s]
      BY <2>1a, <3>2
    <3>3. QED
      BY <3>1, <3>2
  <2>5. \A j \in Jobs : s \in covered'[j] => asked'[j][s] <= worker'[w].seen[s]
    BY <2>1, AskedKept
  <2>6. QED
    BY <2>1, <2>2, <2>3, <2>4, <2>5
<1>2. \A s \in Sources : indexed'[s] <= revision'[s]
  BY <1>a, AskedKept
<1>3. ASSUME NEW j \in Jobs, NEW s \in Sources, s \in covered'[j], indexed'[s] # 0
      PROVE  asked'[j][s] <= indexed'[s]
  BY <1>3, AskedKept
<1>4. QED
  BY <1>b, <1>1, <1>2, <1>3

\* A worker that loads the sources sees what is there, and so all that any client
\* has asked for.
LEMMA LoadRecent ==
    ASSUME Basis, Recent, NEW w \in Workers, Load(w)
    PROVE  Recent'
<1> USE DEF Recent, SeenIsRecent, CoveredIsIndexed
<1>1. UNCHANGED <<revision, status, indexed, asked, covered>>
  BY DEF Load, sources, jobs, history
<1>2. worker[w].job \in Jobs
  BY DEF Load, Basis, BusyHasJob
<1>3. worker'[w].job = worker[w].job
      /\ worker'[w].seen = [s \in Sources |-> IF s \in Scope(worker[w].job) THEN revision[s] ELSE 0]
  BY DEF Load, Basis, TypeOK, WorkerState
<1>4. \A v \in Workers : v # w => worker'[v] = worker[v]
  BY DEF Load, Basis, TypeOK
<1>5. \A s \in Loaded(w)' : s \in Sources /\ worker'[w].seen[s] = revision[s]
  BY <1>3 DEF Loaded
<1>6. \A s \in Sources : revision[s] <= revision[s] /\ indexed[s] <= revision[s] /\ \A j \in Jobs : asked[j][s] <= revision[s]
  <2>1. ASSUME NEW s \in Sources
        PROVE  revision[s] <= revision[s]
    <3>1. revision[s] \in Nat
      BY RevisionsAreNumbers DEF Basis
    <3>2. QED
      BY <3>1
  <2>2. \A s \in Sources : indexed[s] <= revision[s] /\ \A j \in Jobs : asked[j][s] <= revision[s]
    BY DEF Basis, StampsArePast
  <2>3. QED
    BY <2>1, <2>2
<1>7. ASSUME NEW v \in Workers, NEW s \in Sources, worker'[v].pc \in {"loaded", "asking"}, s \in Loaded(v)'
      PROVE  /\ asked[worker'[v].job][s] <= worker'[v].seen[s]
             /\ worker'[v].seen[s] <= revision[s]
             /\ indexed[s] <= worker'[v].seen[s]
             /\ \A j \in Jobs : s \in covered[j] => asked[j][s] <= worker'[v].seen[s]
  <2>1. CASE v = w
    BY <1>2, <1>3, <1>5, <1>6, <1>7, <2>1
  <2>2. CASE v # w
    <3>1. worker'[v] = worker[v] /\ s \in Loaded(v)
      BY <1>4, <1>7, <2>2 DEF Loaded
    <3>2. QED
      BY <1>7, <3>1
  <2>3. QED
    BY <2>1, <2>2
<1>8. QED
  BY <1>1, <1>7

\* A run that returns has nobody beside it and has seen more than all before it.
LEMMA ReturnRecent ==
    ASSUME OneWorker, Basis, Recent, NEW w \in Workers, NEW bad \in SUBSET Sources, Return(w, bad)
    PROVE  Recent'
<1> USE DEF Recent, SeenIsRecent, CoveredIsIndexed
<1> DEFINE done == Loaded(w) \ bad
<1>1. UNCHANGED <<revision, status, asked>>
  BY DEF Return, sources, jobs
<1>2. worker[w].pc = "loaded" /\ worker[w].job \in Jobs /\ status[worker[w].job] \notin {"unused", "pending"}
  BY DEF Return, Basis, BusyHasJob, StartedJobs
<1>3. \A v \in Workers : worker'[v].pc = "closing"
  BY DEF OneWorker, Return, Sends, Basis, TypeOK, WorkerState
<1>4. covered' = [covered EXCEPT ![worker[w].job] = done]
      /\ indexed' = [s \in Sources |-> IF s \in done THEN worker[w].seen[s] ELSE indexed[s]]
  BY DEF Return
<1>5. \A s \in done : s \in Sources /\ s \in Loaded(w)
  BY DEF Loaded
<1>6. \A s \in Sources : indexed'[s] <= revision[s]
  BY <1>2, <1>4, <1>5
<1>7. ASSUME NEW j \in Jobs, NEW s \in Sources, s \in covered'[j], indexed'[s] # 0
      PROVE  asked[j][s] <= indexed'[s]
  <2>1. CASE j = worker[w].job
    <3>1. s \in done
      BY <1>2, <1>4, <1>7, <2>1 DEF Basis, TypeOK
    <3>2. QED
      BY <1>2, <1>4, <1>5, <2>1, <3>1
  <2>2. CASE j # worker[w].job
    <3>1. s \in covered[j]
      BY <1>4, <1>7, <2>2 DEF Basis, TypeOK
    <3>2. QED
      BY <1>2, <1>4, <1>5, <1>7, <3>1
  <2>3. QED
    BY <2>1, <2>2
<1>8. \A j \in Jobs : status[j] \in {"unused", "pending"} => covered'[j] = {}
  BY <1>2, <1>4 DEF Basis, TypeOK
<1>9. QED
  BY <1>1, <1>3, <1>6, <1>7, <1>8

LEMMA RecentStep == ASSUME OneWorker PROVE Basis /\ Recent /\ [Next]_vars => Recent'
<1> SUFFICES ASSUME Basis, Recent, [Next]_vars
             PROVE  Recent'
  OBVIOUS
<1>a. worker \in [Workers -> WorkerState]
  BY DEF Basis, TypeOK
<1>1. CASE Manage \/ Serve \/ UNCHANGED vars
  <2>1. UNCHANGED <<worker, indexed, covered>>
    BY <1>1 DEF Manage, BeginSource, CheckUpdate, FinishAdd, FinishUpdate, WriteSource, FinishCancel, Refused, Drop,
                CreateJob, BeginCancel, Serve, Heartbeat, Vanish, Receive, Commit, vars, history
  <2>2. QED
    BY <2>1, RecentKept DEF Holding
<1>2. ASSUME NEW w \in Workers, Work(w)
      PROVE  Recent'
  <2> DEFINE Same == \A v \in Workers : Holding(v)' => Holding(v) /\ worker'[v].job = worker[v].job
                                                               /\ worker'[v].seen = worker[v].seen
  <2>a. ASSUME NEW st, NEW l, Sends(w, st, l), Holding(w) \/ l \notin {"loaded", "asking"}
        PROVE  Same
    BY <1>a, <2>a DEF Sends, Holding, WorkerState
  <2>b. ASSUME worker' = [worker EXCEPT ![w] = AtRest]
        PROVE  Same
    BY <1>a, <2>b DEF AtRest, Holding
  <2>c. ASSUME GoesOn(w)
        PROVE  Same
    <3>1. CASE worker[w].pc = "asking"
      BY <1>a, <2>c, <3>1 DEF GoesOn, Holding, WorkerState
    <3>2. CASE worker[w].pc # "asking"
      BY <2>b, <2>c, <3>2 DEF GoesOn
    <3>3. QED
      BY <3>1, <3>2
  <2>d. ASSUME NEW gone, indexed' = [s \in Sources |-> IF s \in gone THEN 0 ELSE indexed[s]]
        PROVE  \A s \in Sources : indexed'[s] = 0 \/ indexed'[s] = indexed[s]
    BY <2>d
  <2>1. CASE \E j \in Jobs, t \in Time : Claim(w, j, t)
    <3>1. Same
      BY <1>a, <2>1 DEF Claim, Holding, WorkerState
    <3>2. QED
      BY <2>1, <3>1, RecentKept DEF Claim, history
  <2>2. CASE Load(w)
    BY <2>2, LoadRecent
  <2>3. CASE LoadNothing(w)
    BY <2>3, <2>a, RecentKept DEF LoadNothing, history
  <2>4. CASE Report(w)
    BY <2>4, <2>a, RecentKept DEF Report, Holding, history
  <2>5. CASE \E some \in SUBSET Sources : Return(w, some)
    BY <2>5, ReturnRecent
  <2>6. CASE \E some \in SUBSET Sources : Raise(w, some)
    BY <2>6, <2>a, <2>d, RecentKept DEF Raise
  <2>7. CASE \E some \in SUBSET Sources : Interrupted(w, some)
    BY <2>7, <2>b, <2>d, RecentKept DEF Interrupted, history
  <2>8. CASE \E some \in SUBSET Sources : Crash(w, some)
    BY <2>8, <2>b, <2>d, RecentKept DEF Crash
  <2>9. CASE Answered(w)
    BY <2>9, <2>c, RecentKept DEF Answered, history
  <2>10. CASE TimesOut(w)
    BY <2>10, <2>a, <2>c, RecentKept DEF TimesOut
  <2>11. QED
    BY <1>2, <2>1, <2>2, <2>3, <2>4, <2>5, <2>6, <2>7, <2>8, <2>9, <2>10 DEF Work
<1>3. QED
  BY <1>1, <1>2 DEF Next

LEMMA InitRecent == Init => Recent
  BY DEF Init, Recent, SeenIsRecent, CoveredIsIndexed, AtRest, Unseen

\* The whole strengthening holds in every reachable state when runs do not overlap.
THEOREM TimelyAlways == ASSUME OneWorker PROVE Spec => []Timely
<1>1. Init => Basis /\ Recent
  BY InitBasis, InitRecent
<1>2. Basis /\ Recent /\ [Next]_vars => (Basis /\ Recent)'
  BY NextBasis, RecentStep
<1>3. Basis /\ Recent => Timely
  BY DEF Basis, Recent, Timely
<1>4. QED
  BY <1>1, <1>2, <1>3, PTL DEF Spec

\* Once a job is completed, no source it covered is ever indexed at a revision older
\* than the one its client saw, for runs that do not overlap.
THEOREM AlwaysAsRecentAsAsked == ASSUME OneWorker PROVE Spec => []NeverOlderThanAsked
<1>1. Timely => NeverOlderThanAsked
  BY DEF Timely, CoveredIsIndexed, NeverOlderThanAsked
<1>2. QED
  BY <1>1, TimelyAlways, PTL

=============================================================================
