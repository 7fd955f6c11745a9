---------------------------- MODULE RuntimeConfig ----------------------------
(***************************************************************************)
(* The way of a configuration change from the registry's tables to the     *)
(* orchestrator: the commit and export_runtime_snapshots (db.py), the      *)
(* reload that the endpoint asks for (config_auth/app/main.py) and         *)
(* reload_runtime_state (orchestrator_api/app/main.py).                    *)
(*                                                                         *)
(* The endpoints that change the configuration are coroutines that call    *)
(* the repository without a thread: what one of them commits and exports   *)
(* holds up the event loop, and the next begins while it waits for the     *)
(* orchestrator.  The import of a corpus is a plain function: it runs in a *)
(* thread and exports beside the loop.  A reload is a plain function of    *)
(* the orchestrator: reloads run in threads beside each other.             *)
(***************************************************************************)
EXTENDS Integers, FiniteSets

CONSTANTS N,            \* the parts of the configuration, a file for each
          Required,     \* parts whose endpoints insist on the reload
          Bootstrapped, \* parts with a bootstrap file that every start goes by
          Restorable,   \* parts that a start may take from their snapshots
          Seeded,       \* parts that a start may fill with defaults
          Reread,       \* parts whose snapshot every start reads
          Calls,        \* the management calls that change a part
          Starts,       \* the starts of the registry after the first
          Imports,      \* the imports of a corpus
          Loop,         \* the event loop, as one that exports
          MaxEvents,    \* bound: imports, crashes and restarts together
          Empty, Bad    \* a truncated file, a file that is not JSON

Parts     == 1..N
Tasks     == Calls \cup Starts
Exporters == Imports \cup {Loop}

ASSUME PartsAssumption ==
    /\ N \in Nat \ {0}
    /\ Required \subseteq Parts /\ Bootstrapped \subseteq Parts
    /\ Restorable \subseteq Parts /\ Seeded \subseteq Parts /\ Reread \subseteq Parts
ASSUME BoundsAssumption == MaxEvents \in Nat
ASSUME DistinctAssumption ==
    /\ Calls \cap Starts = {} /\ Loop \notin Imports
    /\ Empty \notin Nat /\ Bad \notin Nat /\ Empty # Bad

VARIABLES db,         \* the version of each part that is committed
          last,       \* how many versions of it there have been
          bare,       \* the versions without records, or with the defaults only
          boot,       \* the versions with the records of the bootstrap file
          file,       \* the version in the snapshot of each part
          exporter,   \* what each exporter does
          registry,   \* "up", "down", or "starting"
          task,       \* how far each call or start has come
          part, ver,  \* what it has committed
          reload,     \* the reload it has asked for
          mem,        \* the version of each part in the orchestrator's globals
          events,     \* the imports, crashes and restarts so far
          disturbed   \* history: an import exported while a change was made

tables == <<db, last, bare, boot>>
calls  == <<registry, task, part, ver>>
vars   == <<tables, file, exporter, calls, reload, mem, events, disturbed>>

Whole(v)  == v \notin {Empty, Bad}
Active(e) == exporter[e].pc \in {"read", "open", "fill"}
Running(t) == reload[t].pc \in {"load", "assign"}

Idle == [pc |-> "idle", part |-> 1, got |-> [p \in Parts |-> 0]]
NoReload == [pc |-> "none", part |-> 1, seen |-> 0, alone |-> TRUE, own |-> 0]

\* What an exporter is when it has finished; an import exports once.
Rest(e) == IF e = Loop THEN Idle ELSE [Idle EXCEPT !.pc = "over"]

Init ==
    /\ db = [p \in Parts |-> 0] /\ last = db /\ file = db /\ mem = db
    /\ bare = [p \in Parts |-> {}]
    /\ boot = [p \in Parts |-> IF p \in Bootstrapped THEN {0} ELSE {}]
    /\ exporter = [e \in Exporters |-> Idle]
    /\ registry = "up"
    /\ task = [t \in Tasks |-> "new"]
    /\ part = [t \in Tasks |-> 1] /\ ver = [t \in Tasks |-> 0]
    /\ reload = [t \in Tasks |-> NoReload]
    /\ events = 0 /\ disturbed = FALSE

Event == events < MaxEvents /\ events' = events + 1

-----------------------------------------------------------------------------
(* The registry: changes, imports and the export                           *)

\* The payloads of an export of the loop are what is committed when it begins:
\* only the loop commits what is exported.
LoopExports ==
    exporter' = [exporter EXCEPT ![Loop] = [pc |-> "open", part |-> 1, got |-> db']]

\* The loop has no coroutine that commits or exports.
LoopIsFree == registry = "up" /\ ~Active(Loop)

\* A new version of each part of S is committed.
Commit(S) ==
    /\ db' = [p \in Parts |-> IF p \in S THEN last[p] + 1 ELSE db[p]]
    /\ last' = [p \in Parts |-> IF p \in S THEN last[p] + 1 ELSE last[p]]

\* An endpoint commits a part: with no records or the defaults only, with the
\* records of the bootstrap file, or with others.
Change(c, p, content) ==
    /\ LoopIsFree /\ task[c] = "new"
    /\ content = "bare" => p \in Restorable \cup Seeded
    /\ content = "boot" => p \in Bootstrapped
    /\ Commit({p})
    /\ bare' = IF content = "bare" THEN [bare EXCEPT ![p] = @ \cup {last[p] + 1}] ELSE bare
    /\ boot' = IF content = "boot" THEN [boot EXCEPT ![p] = @ \cup {last[p] + 1}] ELSE boot
    /\ part' = [part EXCEPT ![c] = p]
    /\ ver' = [ver EXCEPT ![c] = last[p] + 1]
    /\ task' = [task EXCEPT ![c] = "export"]
    /\ LoopExports
    /\ disturbed' = (disturbed \/ \E i \in Imports : Active(i))
    /\ UNCHANGED <<file, registry, reload, mem, events>>

\* An import commits nothing that is exported, and exports.
Import(i) ==
    /\ Event
    /\ registry = "up" /\ exporter[i].pc = "idle"
    /\ exporter' = [exporter EXCEPT ![i].pc = "read"]
    /\ UNCHANGED <<tables, file, calls, reload, mem, disturbed>>

\* The payload of one part, in a SELECT of its own.
Read(e) ==
    /\ exporter[e].pc = "read"
    /\ LET k == exporter[e].part
       IN exporter' = [exporter EXCEPT ![e] =
                         [pc |-> IF k < N THEN "read" ELSE "open",
                          part |-> IF k < N THEN k + 1 ELSE 1,
                          got |-> [@.got EXCEPT ![k] = db[k]]]]
    /\ UNCHANGED <<tables, file, calls, reload, mem, events, disturbed>>

\* write_text opens the file, which truncates it, ...
Open(e) ==
    /\ exporter[e].pc = "open"
    /\ file' = [file EXCEPT ![exporter[e].part] = Empty]
    /\ exporter' = [exporter EXCEPT ![e].pc = "fill"]
    /\ UNCHANGED <<tables, calls, reload, mem, events, disturbed>>

\* ... and writes it from its beginning: over a longer text of another exporter
\* that leaves the end of that one.
Written(old, v) == IF old \in {Empty, v} THEN {v} ELSE {v, Bad}

\* The exports of the loop belong to the one task that is at it.
Exported(e) ==
    task' = IF e # Loop THEN task
            ELSE [t \in Tasks |-> IF task[t] = "export" THEN "notify" ELSE task[t]]

Fill(e) ==
    /\ exporter[e].pc = "fill"
    /\ LET k == exporter[e].part
       IN /\ \E v \in Written(file[k], exporter[e].got[k]) :
                file' = [file EXCEPT ![k] = v]
          /\ IF k < N
             THEN /\ exporter' = [exporter EXCEPT ![e].part = k + 1, ![e].pc = "open"]
                  /\ UNCHANGED task
             ELSE /\ exporter' = [exporter EXCEPT ![e] = Rest(e)]
                  /\ Exported(e)
    /\ UNCHANGED <<tables, registry, part, ver, reload, mem, events, disturbed>>

-----------------------------------------------------------------------------
(* The registry: notify_orchestrator_reload                                *)

\* Only the start serves nobody before it has its answer.
Answer(t, answer) ==
    /\ task' = [task EXCEPT ![t] = answer]
    /\ registry' = IF t \in Starts THEN "up" ELSE registry

Insists(t) == t \in Calls /\ part[t] \in Required

Notify(t) ==
    /\ task[t] = "notify"
    /\ task' = [task EXCEPT ![t] = "wait"]
    /\ reload' = [reload EXCEPT ![t].pc = "sent"]
    /\ UNCHANGED <<tables, file, exporter, registry, part, ver, mem, events, disturbed>>

\* Mutant: the answer does not depend on whether the reload is required.
GivesUpQuietly(t) ==
    /\ task[t] \in {"notify", "wait"}
    /\ Answer(t, "ok")
    /\ UNCHANGED <<tables, file, exporter, part, ver, reload, mem, events, disturbed>>

\* The orchestrator cannot be reached, refuses, or does not answer in time; a
\* reload that was sent goes on.
GivesUp(t) ==
    /\ task[t] \in {"notify", "wait"}
    /\ Answer(t, IF Insists(t) THEN "failed" ELSE "ok")
    /\ UNCHANGED <<tables, file, exporter, part, ver, reload, mem, events, disturbed>>

Reply(t) ==
    /\ task[t] = "wait" /\ reload[t].pc \in {"done", "error"}
    /\ Answer(t, IF reload[t].pc = "error" /\ Insists(t) THEN "failed" ELSE "ok")
    /\ UNCHANGED <<tables, file, exporter, part, ver, reload, mem, events, disturbed>>

-----------------------------------------------------------------------------
(* The registry: crash and start                                           *)

Crash ==
    /\ Event
    /\ registry # "down"
    /\ \E s \in Starts : task[s] = "new"
    /\ registry' = "down"
    /\ exporter' = [e \in Exporters |->
                      IF Active(e) THEN Rest(e) ELSE exporter[e]]
    /\ task' = [t \in Tasks |-> IF task[t] \in {"restore", "export", "notify", "wait"}
                                THEN "lost"
                                ELSE task[t]]
    /\ UNCHANGED <<tables, file, part, ver, reload, mem, disturbed>>

\* _sync_bootstrap_..._if_configured: the records differ from the bootstrap file's.
Strays(p) == p \in Bootstrapped /\ db[p] \notin boot[p]

\* _import_runtime_snapshots_if_needed: a part without records, or with the
\* defaults only, is taken from its snapshot; what is read and is not JSON stops
\* the start.
Bare(p)     == db[p] \in bare[p]
Takes(p)    == p \in Restorable /\ Bare(p) /\ Whole(file[p]) /\ file[p] \notin bare[p]
Readable(p) == p \in Reread \/ (p \in Restorable /\ Bare(p)) => file[p] # Bad

\* Mutant: the registry serves without an export at its start.
StartServing(s) ==
    /\ registry = "down" /\ task[s] = "new"
    /\ registry' = "up"
    /\ task' = [task EXCEPT ![s] = "ok"]
    /\ UNCHANGED <<tables, file, exporter, part, ver, reload, mem, events, disturbed>>

Start(s) ==
    /\ registry = "down" /\ task[s] = "new"
    /\ registry' = "starting"
    /\ task' = [task EXCEPT ![s] = "restore"]
    /\ UNCHANGED <<tables, file, exporter, part, ver, reload, mem, events, disturbed>>

\* What a start commits is exported at once, with all other parts.
Restoring(s) == task[s] = "restore" /\ ~Active(Loop)

\* The first part that strays is put back to its bootstrap file: a new version
\* with the records of old.
Sync(s, p) ==
    /\ Restoring(s)
    /\ Strays(p) /\ \A q \in 1..(p - 1) : ~Strays(q)
    /\ Commit({p})
    /\ boot' = [boot EXCEPT ![p] = @ \cup {last[p] + 1}]
    /\ LoopExports
    /\ UNCHANGED <<bare, file, calls, reload, mem, events, disturbed>>

\* The parts in their order: the records of the snapshot, in a new version.
Take(s, p) ==
    /\ Restoring(s)
    /\ \A q \in Parts : ~Strays(q)
    /\ Takes(p) /\ \A q \in 1..(p - 1) : ~Takes(q) /\ Readable(q)
    /\ Commit({p})
    /\ boot' = IF file[p] \in boot[p]
               THEN [boot EXCEPT ![p] = @ \cup {last[p] + 1}] ELSE boot
    /\ LoopExports
    /\ UNCHANGED <<bare, file, calls, reload, mem, events, disturbed>>

\* Nothing is left to take; what is still bare may be seeded, and all is exported.
Seed(s) ==
    /\ Restoring(s)
    /\ \A p \in Parts : ~Strays(p) /\ ~Takes(p) /\ Readable(p)
    /\ \E seeded \in SUBSET {p \in Seeded : Bare(p)} : Commit(seeded)
    /\ task' = [task EXCEPT ![s] = "export"]
    /\ LoopExports
    /\ UNCHANGED <<bare, boot, file, registry, part, ver, reload, mem, events, disturbed>>

-----------------------------------------------------------------------------
(* The orchestrator                                                        *)

\* internal_reload gets a thread.
BeginReload(t) ==
    /\ reload[t].pc = "sent"
    /\ reload' = [u \in Tasks |->
          IF u = t THEN [reload[t] EXCEPT !.pc = "load",
                                          !.alone = \A o \in Tasks : ~Running(o)]
          ELSE IF Running(u) THEN [reload[u] EXCEPT !.alone = FALSE] ELSE reload[u]]
    /\ UNCHANGED <<tables, file, exporter, calls, mem, events, disturbed>>

\* A reload that ends before it has replaced everything.
Broken(r) == [pc |-> "error", part |-> 1, seen |-> 0, alone |-> r.alone, own |-> r.own]

\* Mutant: a snapshot that cannot be read counts as the one of the first start.
LoadPartOrDefault(t) ==
    /\ reload[t].pc = "load"
    /\ LET v == file[reload[t].part]
       IN reload' = [reload EXCEPT ![t].pc = "assign", ![t].seen = IF Whole(v) THEN v ELSE 0]
    /\ UNCHANGED <<tables, file, exporter, calls, mem, events, disturbed>>

\* The next part is read; what is not JSON raises, and the reload stops half way.
LoadPart(t) ==
    /\ reload[t].pc = "load"
    /\ LET v == file[reload[t].part]
       IN reload' = IF Whole(v) THEN [reload EXCEPT ![t].pc = "assign", ![t].seen = v]
                    ELSE [reload EXCEPT ![t] = Broken(@)]
    /\ UNCHANGED <<tables, file, exporter, calls, mem, events, disturbed>>

\* Mutant: the last part is not declared global, and only a local name is replaced.
AssignPartLocally(t) ==
    /\ reload[t].pc = "assign"
    /\ LET k == reload[t].part
       IN /\ mem' = IF k = N THEN mem ELSE [mem EXCEPT ![k] = reload[t].seen]
          /\ reload' = [reload EXCEPT
                ![t].own = IF k = part[t] THEN reload[t].seen ELSE @,
                ![t].seen = 0,
                ![t].part = IF k < N THEN k + 1 ELSE 1,
                ![t].pc = IF k < N THEN "load" ELSE "done"]
    /\ UNCHANGED <<tables, file, exporter, calls, events, disturbed>>

\* The global is replaced.
AssignPart(t) ==
    /\ reload[t].pc = "assign"
    /\ LET k == reload[t].part
       IN /\ mem' = [mem EXCEPT ![k] = reload[t].seen]
          /\ reload' = [reload EXCEPT
                ![t].own = IF k = part[t] THEN reload[t].seen ELSE @,
                ![t].seen = 0,
                ![t].part = IF k < N THEN k + 1 ELSE 1,
                ![t].pc = IF k < N THEN "load" ELSE "done"]
    /\ UNCHANGED <<tables, file, exporter, calls, events, disturbed>>

\* The orchestrator is restarted: it loads all files, and none of them may be
\* torn; reloads that were sent or under way are answered with nothing.
Restart ==
    /\ Event
    /\ \A p \in Parts : Whole(file[p])
    /\ mem' = file
    /\ reload' = [t \in Tasks |-> IF Running(t) \/ reload[t].pc = "sent"
                                  THEN Broken(reload[t]) ELSE reload[t]]
    /\ UNCHANGED <<tables, file, exporter, calls, disturbed>>

-----------------------------------------------------------------------------
Export(e) == Read(e) \/ Open(e) \/ Fill(e)
Ask(t)    == Notify(t) \/ GivesUp(t) \/ Reply(t)

Next == \/ \E c \in Calls, p \in Parts, k \in {"bare", "boot", "other"} : Change(c, p, k)
        \/ \E i \in Imports : Import(i)
        \/ \E e \in Exporters : Export(e)
        \/ \E t \in Tasks : Ask(t) \/ BeginReload(t) \/ LoadPart(t) \/ AssignPart(t)
        \/ Crash \/ Restart
        \/ \E s \in Starts : Start(s) \/ Seed(s) \/ \E p \in Parts : Sync(s, p) \/ Take(s, p)

Spec == Init /\ [][Next]_vars

-----------------------------------------------------------------------------
(* Properties                                                              *)

ExporterState == [pc : {"idle", "read", "open", "fill", "over"},
                  part : Parts, got : [Parts -> Nat]]
ReloadState   == [pc : {"none", "sent", "load", "assign", "done", "error"},
                  part : Parts, seen : Nat, alone : BOOLEAN, own : Nat]

\* The state has its shape: tables, snapshots and globals hold versions, and only
\* a snapshot is ever torn (export_runtime_snapshots, reload_runtime_state).
TypeOK ==
    /\ db \in [Parts -> Nat] /\ last \in [Parts -> Nat]
    /\ bare \in [Parts -> SUBSET Nat] /\ boot \in [Parts -> SUBSET Nat]
    /\ file \in [Parts -> Nat \cup {Empty, Bad}]
    /\ mem \in [Parts -> Nat]
    /\ exporter \in [Exporters -> ExporterState]
    /\ registry \in {"up", "down", "starting"}
    /\ task \in [Tasks -> {"new", "restore", "export", "notify", "wait", "ok", "failed", "lost"}]
    /\ part \in [Tasks -> Parts] /\ ver \in [Tasks -> Nat]
    /\ reload \in [Tasks -> ReloadState]
    /\ events \in 0..MaxEvents
    /\ disturbed \in BOOLEAN

\* The registry serves, and nobody exports.
AtRest == registry = "up" /\ \A e \in Exporters : ~Active(e)

\* Whatever was committed before a crash, the files hold what the tables hold
\* whenever nobody exports, unless at some time, ever, an import was exporting while
\* a change was made (db.py:2242-2294, main.py:188-193).
SnapshotsFollow == AtRest /\ ~disturbed => file = db

\* A call that insists on the reload is confirmed only when its reload has gone
\* through, and has loaded its own change, or a later one, however many other calls
\* export and reload at the same time; once an import has exported while a change
\* was made, nothing is said of the version (main.py:146-166 and 281-335).
ConfirmedIsLoaded ==
    \A c \in Calls :
        task[c] = "ok" /\ Insists(c) =>
            reload[c].pc = "done" /\ (reload[c].own >= ver[c] \/ disturbed)

\* A global of the orchestrator goes back to an older commit only by a reload that
\* ran beside another one, or after an import has exported while a change was made
\* (orchestrator main.py:107-113).  A start that puts a part back to its bootstrap
\* file commits the old records anew: that is a step forward here.
NeverBack ==
    [][\A p \in Parts :
          \/ mem'[p] >= mem[p]
          \/ disturbed
          \/ \E t \in Tasks : reload[t].pc = "assign" /\ ~reload[t].alone]_vars

\* When every change and start that was not lost has had a reload that went through,
\* none of the reloads ran beside another, and no import has exported while a change
\* was made, the orchestrator works with exactly what the registry has committed.
AllReloaded ==
    \A t \in Tasks :
        /\ reload[t].pc \in {"none", "done"} /\ reload[t].alone
        /\ reload[t].pc = "none" => task[t] \in {"new", "lost"}

ReloadedIsCurrent == AtRest /\ ~disturbed /\ AllReloaded => mem = db

\* "persisted and exported as runtime snapshots" (operate-tokenstream.mdx): the
\* files hold what the tables hold whenever nobody exports.
PersistedAndExported == AtRest => file = db

\* A start of the registry commits nothing over the records of an administrator.
StartsKeepChanges ==
    [][\A p \in Parts :
          registry = "starting" /\ db[p] > 0 /\ ~Bare(p) => db'[p] = db[p]]_vars
=============================================================================
