-------------------------- MODULE ConfigAuth_proofs --------------------------
(***************************************************************************)
(* Proofs about the two parts of the config_auth host that share nothing   *)
(* but their file: RuntimeConfig, for any number of parts, changes, starts  *)
(* and imports (its types, what the snapshots hold, what a confirmed change *)
(* means, and that the orchestrator does not go back by itself), and        *)
(* Accounts, for any callers, names, lists and bounds (what belongs to one  *)
(* user, and what a replacement of the list of users does).                 *)
(***************************************************************************)
EXTENDS RuntimeConfig, Accounts, FoldFacts, TLAPS

USE PartsAssumption, BoundsAssumption, DistinctAssumption

-----------------------------------------------------------------------------
(* Type correctness *)

LEMMA FirstPart == 1 \in Parts /\ Parts \subseteq Nat
  BY DEF Parts

LEMMA NextPart == ASSUME NEW k \in Parts PROVE (IF k < N THEN k + 1 ELSE 1) \in Parts
  BY DEF Parts

LEMMA LoopExportsType ==
    ASSUME TypeOK, LoopExports, db' \in [Parts -> Nat]
    PROVE  exporter' \in [Exporters -> ExporterState]
<1>1. [pc |-> "open", part |-> 1, got |-> db'] \in ExporterState
  BY FirstPart DEF ExporterState
<1> QED
  BY <1>1 DEF LoopExports, TypeOK

LEMMA BrokenType == ASSUME NEW r \in ReloadState PROVE Broken(r) \in ReloadState
  BY FirstPart DEF Broken, ReloadState

LEMMA RestType == ASSUME NEW e PROVE Rest(e) \in ExporterState
  BY DEF Rest, Idle, ExporterState, Parts

LEMMA InitType == Init => TypeOK
<1> SUFFICES ASSUME Init PROVE TypeOK
  OBVIOUS
<1>1. Idle \in ExporterState /\ NoReload \in ReloadState
  BY FirstPart DEF Idle, NoReload, ExporterState, ReloadState
<1>2. /\ db \in [Parts -> Nat] /\ last \in [Parts -> Nat] /\ mem \in [Parts -> Nat]
      /\ file \in [Parts -> Nat \cup {Empty, Bad}]
      /\ bare \in [Parts -> SUBSET Nat] /\ boot \in [Parts -> SUBSET Nat]
  BY DEF Init
<1>3. /\ exporter \in [Exporters -> ExporterState]
      /\ reload \in [Tasks -> ReloadState]
  BY <1>1 DEF Init
<1>4. /\ task \in [Tasks -> {"new"}] /\ part \in [Tasks -> {1}] /\ ver \in [Tasks -> {0}]
      /\ registry = "up" /\ events = 0 /\ disturbed = FALSE
  BY DEF Init
<1>5. part \in [Tasks -> Parts] /\ ver \in [Tasks -> Nat]
  BY <1>4, FirstPart
<1>6. task \in [Tasks -> {"new", "restore", "export", "notify", "wait", "ok", "failed", "lost"}]
  BY <1>4
<1>7. registry \in {"up", "down", "starting"} /\ disturbed \in BOOLEAN
  BY DEF Init
<1>8. events \in 0..MaxEvents
  BY <1>4
<1> QED
  BY <1>2, <1>3, <1>5, <1>6, <1>7, <1>8 DEF TypeOK

LEMMA CommitType ==
    ASSUME TypeOK, NEW S, Commit(S)
    PROVE  /\ db' \in [Parts -> Nat] /\ last' \in [Parts -> Nat]
           /\ \A p \in Parts : last'[p] >= last[p]
  BY DEF Commit, TypeOK

LEMMA NextType == TypeOK /\ [Next]_vars => TypeOK'
<1> SUFFICES ASSUME TypeOK, [Next]_vars PROVE TypeOK'
  OBVIOUS
<1> USE DEF TypeOK, tables, calls
<1>1. ASSUME NEW c \in Calls, NEW p \in Parts, NEW b, Change(c, p, b) PROVE TypeOK'
  <2>0. db' \in [Parts -> Nat] /\ last' \in [Parts -> Nat] /\ last[p] + 1 \in Nat
    BY <1>1, CommitType DEF Change
  <2>1. /\ db' \in [Parts -> Nat] /\ last' \in [Parts -> Nat]
        /\ bare' \in [Parts -> SUBSET Nat] /\ boot' \in [Parts -> SUBSET Nat]
    BY <1>1, <2>0 DEF Change
  <2>2. exporter' \in [Exporters -> ExporterState]
    BY <1>1, <2>1, LoopExportsType DEF Change
  <2> QED
    BY <1>1, <2>0, <2>1, <2>2 DEF Change, Tasks
<1>2. ASSUME NEW i \in Imports, Import(i) PROVE TypeOK'
  BY <1>2 DEF Import, Event, Exporters, ExporterState
<1>3. ASSUME NEW e \in Exporters, Read(e) PROVE TypeOK'
  <2> DEFINE k == exporter[e].part
             next == IF k < N THEN k + 1 ELSE 1
             at == IF k < N THEN "read" ELSE "open"
  <2>0. /\ k \in Parts /\ next \in Parts
        /\ [exporter[e].got EXCEPT ![k] = db[k]] \in [Parts -> Nat]
    <3>1. k \in Parts /\ exporter[e].got \in [Parts -> Nat]
      BY DEF ExporterState
    <3> QED
      BY <3>1, NextPart
  <2>1. exporter'[e] \in ExporterState
    <3> HIDE DEF next
    <3>1. exporter'[e] = [pc |-> at, part |-> next, got |-> [exporter[e].got EXCEPT ![k] = db[k]]]
      BY <1>3 DEF Read, next
    <3> QED
      BY <2>0, <3>1 DEF ExporterState
  <2> QED
    BY <1>3, <2>1 DEF Read
<1>4. ASSUME NEW e \in Exporters, Open(e) PROVE TypeOK'
  BY <1>4, SMTT(20) DEF Open, ExporterState
<1>5. ASSUME NEW e \in Exporters, Fill(e) PROVE TypeOK'
  <2> DEFINE k == exporter[e].part
  <2>1. k \in Parts /\ exporter[e].got[k] \in Nat /\ exporter[e] \in ExporterState
    BY DEF ExporterState
  <2>2. file' \in [Parts -> Nat \cup {Empty, Bad}]
    BY <1>5, <2>1 DEF Fill, Written
  <2>3. CASE k < N
    <3>1. k + 1 \in Parts
      BY <2>1, <2>3, SMTT(20) DEF Parts
    <3> QED
      BY <1>5, <2>1, <2>2, <2>3, <3>1 DEF Fill, ExporterState
  <2>4. CASE ~(k < N)
    BY <1>5, <2>2, <2>4, RestType DEF Fill, Exported
  <2> QED
    BY <2>3, <2>4
<1>6. ASSUME NEW t \in Tasks, Notify(t) PROVE TypeOK'
  BY <1>6, SMTT(20) DEF Notify, ReloadState
<1>7. ASSUME NEW t \in Tasks, GivesUp(t) PROVE TypeOK'
  BY <1>7 DEF GivesUp, Answer
<1>8. ASSUME NEW t \in Tasks, Reply(t) PROVE TypeOK'
  BY <1>8 DEF Reply, Answer
<1>9. ASSUME NEW t \in Tasks, BeginReload(t) PROVE TypeOK'
  <2>1. ASSUME NEW u \in Tasks PROVE reload'[u] \in ReloadState
    <3>1. reload[u] \in ReloadState /\ reload[t] \in ReloadState
      OBVIOUS
    <3>2. /\ [reload[u] EXCEPT !.alone = FALSE] \in ReloadState
          /\ \A b \in BOOLEAN : [reload[t] EXCEPT !.pc = "load", !.alone = b] \in ReloadState
      BY <3>1 DEF ReloadState
    <3>3. reload'[u] = IF u = t
                       THEN [reload[t] EXCEPT !.pc = "load", !.alone = \A o \in Tasks : ~Running(o)]
                       ELSE IF Running(u) THEN [reload[u] EXCEPT !.alone = FALSE] ELSE reload[u]
      BY <1>9 DEF BeginReload
    <3> QED
      BY <3>1, <3>2, <3>3
  <2> QED
    BY <1>9, <2>1 DEF BeginReload
<1>10. ASSUME NEW t \in Tasks, LoadPart(t) PROVE TypeOK'
  <2>1. reload'[t] \in ReloadState
    <3>1. reload[t].part \in Parts /\ reload[t] \in ReloadState
      BY DEF ReloadState
    <3>2. CASE Whole(file[reload[t].part])
      BY <1>10, <3>1, <3>2 DEF LoadPart, ReloadState, Whole
    <3>3. CASE ~Whole(file[reload[t].part])
      BY <1>10, <3>1, <3>3, BrokenType DEF LoadPart
    <3> QED
      BY <3>2, <3>3
  <2> QED
    BY <1>10, <2>1 DEF LoadPart
<1>11. ASSUME NEW t \in Tasks, AssignPart(t) PROVE TypeOK'
  <2> DEFINE k == reload[t].part
             next == IF k < N THEN k + 1 ELSE 1
             at == IF k < N THEN "load" ELSE "done"
             own == IF k = part[t] THEN reload[t].seen ELSE reload[t].own
  <2>0. k \in Parts /\ next \in Parts /\ own \in Nat
    <3>1. k \in Parts /\ own \in Nat
      BY DEF ReloadState
    <3> QED
      BY <3>1, NextPart
  <2>1. reload'[t] \in ReloadState
    <3>1. reload'[t] = [pc |-> at, part |-> next, seen |-> 0, alone |-> reload[t].alone, own |-> own]
      BY <1>11 DEF AssignPart, ReloadState
    <3> HIDE DEF next, own
    <3> QED
      BY <2>0, <3>1 DEF ReloadState
  <2> QED
    BY <1>11, <2>1 DEF AssignPart, ReloadState
<1>12. CASE Crash
  <2>1. exporter' \in [Exporters -> ExporterState]
    BY <1>12, RestType DEF Crash
  <2> QED
    BY <1>12, <2>1 DEF Crash, Event
<1>13. CASE Restart
  <2>2. reload' \in [Tasks -> ReloadState]
    BY <1>13, BrokenType DEF Restart
  <2>3. mem' \in [Parts -> Nat]
    <3>1. \A p \in Parts : file[p] \in Nat
      BY <1>13 DEF Restart, Whole
    <3> QED
      BY <1>13, <3>1 DEF Restart
  <2>4. events' \in 0..MaxEvents
    BY <1>13 DEF Restart, Event
  <2> QED
    BY <1>13, <2>2, <2>3, <2>4 DEF Restart
<1>14. ASSUME NEW s \in Starts, Start(s) PROVE TypeOK'
  BY <1>14 DEF Start
<1>15. ASSUME NEW s \in Starts, NEW p \in Parts, Take(s, p) PROVE TypeOK'
  <2>1. db' \in [Parts -> Nat] /\ last' \in [Parts -> Nat]
    BY <1>15, CommitType DEF Take, Sync
  <2>2. boot' \in [Parts -> SUBSET Nat]
    BY <1>15 DEF Take, Sync
  <2> QED
    BY <1>15, <2>1, <2>2, LoopExportsType DEF Take, Sync
<1>16. ASSUME NEW s \in Starts, Seed(s) PROVE TypeOK'
  <2>1. db' \in [Parts -> Nat] /\ last' \in [Parts -> Nat]
    BY <1>16, CommitType DEF Seed
  <2> QED
    BY <1>16, <2>1, LoopExportsType DEF Seed
<1>17. CASE UNCHANGED vars
  BY <1>17 DEF vars
<1>18. ASSUME NEW s \in Starts, NEW p \in Parts, Sync(s, p) PROVE TypeOK'
  <2>1. db' \in [Parts -> Nat] /\ last' \in [Parts -> Nat]
    BY <1>18, CommitType DEF Sync
  <2>2. boot' \in [Parts -> SUBSET Nat]
    BY <1>18 DEF Sync
  <2> QED
    BY <1>18, <2>1, <2>2, LoopExportsType DEF Sync
<1> QED
  BY <1>1, <1>2, <1>3, <1>4, <1>5, <1>6, <1>7, <1>8, <1>9, <1>10, <1>11, <1>12, <1>13, <1>14,
     <1>15, <1>16, <1>17, <1>18 DEF Next, Export, Ask

\* TypeOK of RuntimeConfig: tables, snapshots and globals hold versions, and only a
\* snapshot is ever torn.
THEOREM TypeAlways == Spec => []TypeOK
<1> QED
  BY InitType, NextType, PTL DEF Spec

-----------------------------------------------------------------------------
(* The inductive invariant: what holds always ...                          *)

Busy(s)   == task[s] \in {"restore", "export", "notify", "wait"}
Restores == \E s \in Starts : task[s] = "restore"
Posted(c) == task[c] = "notify" \/ reload[c].pc # "none"

\* One start at a time, and the registry does not serve meanwhile.
StartAlone ==
    /\ \A s \in Starts : Busy(s) => registry = "starting"
    /\ \A s, u \in Starts : Busy(s) /\ Busy(u) => s = u
    /\ \A c \in Calls : task[c] = "export" => registry = "up"

\* Who exports, and that nothing is committed while the loop does.
Exporting ==
    /\ \A i \in Imports : Active(i) => registry = "up"
    /\ \A e \in Exporters : exporter[e].pc = "idle" => exporter[e].part = 1
    /\ exporter[Loop].pc \in {"idle", "open", "fill"}
    /\ Active(Loop) => exporter[Loop].got = db /\ registry # "down"

\* A reload is asked for after the export.
Asked ==
    /\ \A c \in Calls : task[c] # "restore" /\ ver[c] <= last[part[c]]
    /\ \A t \in Tasks : reload[t].pc # "none" => task[t] \notin {"new", "restore", "export", "notify"}
    /\ \A t \in Tasks : reload[t].pc \in {"none", "sent"} => reload[t].part = 1
    /\ \A c \in Calls : task[c] = "ok" /\ Insists(c) => reload[c].pc = "done"

\* Two reloads that run both know that they are not alone.
Together ==
    \A t, u \in Tasks : Running(t) /\ Running(u) /\ t # u => ~reload[t].alone

\* ... and what holds as long as nothing has disturbed: the tables hold the last
\* versions, and every exporter writes them.
Agreed ==
    /\ db = last
    /\ \A i \in Imports : exporter[i].pc = "read" =>
          \A q \in Parts : q < exporter[i].part => exporter[i].got[q] = db[q]
    /\ \A i \in Imports : exporter[i].pc \in {"open", "fill"} => exporter[i].got = db
    /\ \A e \in Exporters :
          exporter[e].pc = "fill" => file[exporter[e].part] \in {Empty, db[exporter[e].part]}

\* A file that is not current is about to be written.
Follows(q) ==
    \/ file[q] = db[q]
    \/ file[q] = Empty /\ \E e \in Exporters : exporter[e].pc = "fill" /\ exporter[e].part = q
    \/ Active(Loop) /\ exporter[Loop].part <= q
    \/ registry = "down" \/ Restores

Following == \A q \in Parts : Follows(q)

\* Versions only go up on their way to the orchestrator.
Ordered ==
    \A p \in Parts :
        /\ mem[p] <= db[p]
        /\ Whole(file[p]) => mem[p] <= file[p] /\ file[p] <= db[p]

Carried ==
    \A t \in Tasks : reload[t].pc = "assign" =>
        /\ reload[t].seen <= db[reload[t].part]
        /\ Whole(file[reload[t].part]) => reload[t].seen <= file[reload[t].part]
        /\ reload[t].alone => reload[t].seen >= mem[reload[t].part]

\* A change is in its file when its reload is asked for, and what the reload has
\* loaded of its part since then is not older.
Loaded ==
    \A c \in Calls :
        /\ Posted(c) /\ Whole(file[part[c]]) => file[part[c]] >= ver[c]
        /\ reload[c].pc = "assign" /\ reload[c].part = part[c] => reload[c].seen >= ver[c]
        /\ Running(c) /\ reload[c].part > part[c] => reload[c].own >= ver[c]
        /\ reload[c].pc = "done" => reload[c].own >= ver[c]

\* A version that is not in the orchestrator is still to come with some reload, or
\* somebody's reload is the reason why it does not.
Owes(t, p) ==
    \/ task[t] \in {"export", "notify"}
    \/ reload[t].pc \in {"sent", "error"}
    \/ reload[t].pc = "none" /\ task[t] \in {"ok", "failed"}
    \/ reload[t].pc \in {"load", "assign", "done"} /\ ~reload[t].alone
    \/ reload[t].pc = "load" /\ reload[t].part <= p
    \/ reload[t].pc = "assign" /\ reload[t].part < p
    \/ reload[t].pc = "assign" /\ reload[t].part = p /\ reload[t].seen = db[p]

Owed ==
    /\ Active(Loop) => Restores \/ \E t \in Tasks : task[t] = "export"
    /\ \A p \in Parts :
          \/ mem[p] = db[p]
          \/ \E t \in Tasks : Owes(t, p)
          \/ registry = "down" \/ Restores

Always == StartAlone /\ Exporting /\ Asked /\ Together
Clean  == Agreed /\ Following /\ Ordered /\ Carried /\ Loaded /\ Owed

Inv == TypeOK /\ Always /\ (disturbed \/ Clean)

-----------------------------------------------------------------------------
(* What holds always                                                       *)

LEMMA InitAlways == Init => Always
<1> SUFFICES ASSUME Init PROVE Always
  OBVIOUS
<1>1. /\ \A e \in Exporters : exporter[e].pc = "idle" /\ exporter[e].part = 1
      /\ Loop \in Exporters /\ Imports \subseteq Exporters
  BY DEF Init, Idle, Exporters
<1>2. /\ \A t \in Tasks : reload[t].pc = "none" /\ reload[t].part = 1
      /\ \A t \in Tasks : task[t] = "new" /\ ver[t] = 0 /\ part[t] = 1
      /\ last[1] = 0 /\ Calls \subseteq Tasks /\ Starts \subseteq Tasks
  BY FirstPart DEF Init, NoReload, Tasks
<1>3. StartAlone
  BY <1>2 DEF StartAlone, Busy
<1>4. Exporting
  BY <1>1 DEF Exporting, Active
<1>5. Asked
  BY <1>2 DEF Asked
<1>6. Together
  BY <1>2 DEF Together, Running
<1> QED
  BY <1>3, <1>4, <1>5, <1>6 DEF Always

LEMMA StartAloneStep == TypeOK /\ StartAlone /\ [Next]_vars => StartAlone'
<1> SUFFICES ASSUME TypeOK, StartAlone, [Next]_vars PROVE StartAlone'
  OBVIOUS
<1>0. Starts \subseteq Tasks /\ Calls \subseteq Tasks /\ \A s \in Starts : s \notin Calls
  BY DEF Tasks
<1>1. CASE UNCHANGED calls
  BY <1>1 DEF StartAlone, Busy, calls
<1>2. ASSUME NEW c \in Calls, NEW p \in Parts, NEW b, Change(c, p, b)
      PROVE  StartAlone'
  BY <1>0, <1>2 DEF Change, LoopIsFree, StartAlone, Busy, TypeOK
<1>3. ASSUME NEW e \in Exporters, Fill(e) PROVE StartAlone'
  <2>1. /\ \A s \in Starts : Busy(s)' => Busy(s)
        /\ \A c \in Calls : task'[c] = "export" => task[c] = "export"
    BY <1>0, <1>3 DEF Fill, Exported, Busy, TypeOK
  <2> QED
    BY <1>3, <2>1 DEF Fill, StartAlone
<1>4. ASSUME NEW t \in Tasks, Notify(t) PROVE StartAlone'
  <2>1. /\ \A s \in Starts : Busy(s)' => Busy(s)
        /\ \A c \in Calls : task'[c] = "export" => task[c] = "export"
    BY <1>0, <1>4 DEF Notify, Busy, TypeOK
  <2> QED
    BY <1>4, <2>1 DEF Notify, StartAlone
<1>5. ASSUME NEW t \in Tasks, GivesUp(t) \/ Reply(t) PROVE StartAlone'
  <2>1. PICK a \in {"ok", "failed"} : Answer(t, a)
    BY <1>5 DEF GivesUp, Reply
  <2>2. task[t] \in {"notify", "wait"}
    BY <1>5 DEF GivesUp, Reply
  <2>3. /\ \A s \in Starts : Busy(s)' => Busy(s) /\ s # t
        /\ \A c \in Calls : task'[c] = "export" => task[c] = "export"
        /\ registry' = registry \/ registry' = "up"
    BY <1>0, <2>1 DEF Answer, Busy, TypeOK
  <2>4. CASE t \in Starts
    <3>1. \A s \in Starts : ~Busy(s)'
      BY <2>2, <2>3, <2>4 DEF StartAlone, Busy
    <3> QED
      BY <2>3, <3>1 DEF StartAlone
  <2>5. CASE t \notin Starts
    BY <2>1, <2>3, <2>5 DEF Answer, StartAlone
  <2> QED
    BY <2>4, <2>5
<1>6. CASE Crash
  <2>1. /\ \A s \in Starts : ~Busy(s)'
        /\ \A c \in Calls : task'[c] # "export"
    BY <1>0, <1>6 DEF Crash, Busy, TypeOK
  <2> QED
    BY <2>1 DEF StartAlone
<1>7. ASSUME NEW s \in Starts, Start(s) PROVE StartAlone'
  <2>1. /\ \A u \in Starts : Busy(u)' => u = s
        /\ \A c \in Calls : task'[c] # "export"
    BY <1>0, <1>7 DEF Start, StartAlone, Busy, TypeOK
  <2> QED
    BY <1>7, <2>1 DEF Start, StartAlone
<1>8. ASSUME NEW s \in Starts, Seed(s) PROVE StartAlone'
  <2>1. /\ \A u \in Starts : Busy(u)' => Busy(u)
        /\ \A c \in Calls : task'[c] = task[c]
    BY <1>0, <1>8 DEF Seed, Restoring, Busy, TypeOK
  <2> QED
    BY <1>8, <2>1 DEF Seed, StartAlone
<1> QED
  BY <1>1, <1>2, <1>3, <1>4, <1>5, <1>6, <1>7, <1>8
     DEF Next, Export, Ask, Import, Read, Open, BeginReload, LoadPart, AssignPart, Take, Sync, Restart, vars

\* Only a crash and the answer of a start change what the registry is.
LEMMA ExportingStep == TypeOK /\ StartAlone /\ Exporting /\ [Next]_vars => Exporting'
<1> SUFFICES ASSUME TypeOK, StartAlone, Exporting, [Next]_vars PROVE Exporting'
  OBVIOUS
<1>0. Loop \in Exporters /\ Imports \subseteq Exporters /\ Starts \subseteq Tasks
  BY DEF Exporters, Tasks
<1>1. CASE UNCHANGED <<exporter, registry, db>>
  BY <1>1 DEF Exporting, Active
<1>2. ASSUME LoopExports, registry' = registry, registry # "down" PROVE Exporting'
  BY <1>0, <1>2 DEF LoopExports, Exporting, Active, TypeOK
<1>3. ASSUME NEW c \in Calls, NEW p \in Parts, NEW b, Change(c, p, b)
      PROVE  Exporting'
  BY <1>2, <1>3 DEF Change, LoopIsFree
<1>4. ASSUME NEW i \in Imports, Import(i) PROVE Exporting'
  BY <1>0, <1>4 DEF Import, Exporting, Active, TypeOK, ExporterState, tables, calls
<1>5. ASSUME NEW e \in Exporters, Read(e) PROVE Exporting'
  <2>1. e # Loop /\ e \in Imports
    BY <1>5 DEF Read, Exporting, Exporters
  <2>2. /\ exporter'[e].pc \in {"read", "open"} /\ Active(e)
        /\ \A o \in Exporters : o # e => exporter'[o] = exporter[o]
    BY <1>5 DEF Read, Active, TypeOK, ExporterState
  <2> QED
    BY <1>0, <1>5, <2>1, <2>2 DEF Read, Exporting, Active, tables, calls
<1>6. ASSUME NEW e \in Exporters, Open(e) PROVE Exporting'
  BY <1>0, <1>6 DEF Open, Exporting, Active, TypeOK, ExporterState, tables, calls
<1>7. ASSUME NEW e \in Exporters, Fill(e) PROVE Exporting'
  <2>1. CASE exporter[e].part < N
    BY <1>0, <1>7, <2>1 DEF Fill, Exporting, Active, TypeOK, ExporterState, tables
  <2>2. CASE ~(exporter[e].part < N)
    BY <1>0, <1>7, <2>2 DEF Fill, Rest, Idle, Exporting, Active, TypeOK, tables
  <2> QED
    BY <2>1, <2>2
<1>8. ASSUME NEW t \in Tasks, Ask(t) PROVE Exporting'
  <2>1. UNCHANGED <<exporter, db>>
    BY <1>8 DEF Ask, Notify, GivesUp, Reply, tables
  <2>2. registry' = registry \/ registry' = "up"
    BY <1>8 DEF Ask, Notify, GivesUp, Reply, Answer
  <2> QED
    BY <2>1, <2>2 DEF Exporting, Active
<1>9. CASE Crash
  <2>1. \A e \in Exporters : ~Active(e)' /\ exporter'[e].pc # "read"
    BY <1>9 DEF Crash, Active, Rest, Idle
  <2>2. \A e \in Exporters : exporter'[e].pc = "idle" => exporter'[e].part = 1
    BY <1>9 DEF Crash, Rest, Idle, Exporting
  <2>3. exporter'[Loop].pc \in {"idle", "open", "fill"}
    BY <1>0, <1>9 DEF Crash, Rest, Idle, Exporting
  <2> QED
    BY <1>0, <2>1, <2>2, <2>3 DEF Exporting
<1>10. ASSUME NEW s \in Starts, Start(s) PROVE Exporting'
  <2>1. \A i \in Imports : ~Active(i)
    BY <1>10 DEF Start, Exporting
  <2> QED
    BY <1>10, <2>1 DEF Start, Exporting, Active, tables
<1>11. ASSUME NEW s \in Starts, (\E p \in Parts : Take(s, p) \/ Sync(s, p)) \/ Seed(s) PROVE Exporting'
  <2>1. registry = "starting"
    BY <1>11 DEF Take, Sync, Seed, Restoring, StartAlone, Busy
  <2> QED
    BY <1>2, <1>11, <2>1 DEF Take, Sync, Seed, calls
<1> QED
  BY <1>1, <1>3, <1>4, <1>5, <1>6, <1>7, <1>8, <1>9, <1>10, <1>11
     DEF Next, Export, BeginReload, LoadPart, AssignPart, Restart, vars, tables, calls

LEMMA AskedStep == TypeOK /\ Asked /\ [Next]_vars => Asked'
<1> SUFFICES ASSUME TypeOK, Asked, [Next]_vars PROVE Asked'
  OBVIOUS
<1>0. Starts \subseteq Tasks /\ Calls \subseteq Tasks /\ \A s \in Starts : s \notin Calls
  BY DEF Tasks
<1>1. CASE UNCHANGED <<task, part, ver, last, reload>>
  BY <1>1 DEF Asked, Insists
<1>2. ASSUME NEW c \in Calls, NEW p \in Parts, NEW b, Change(c, p, b) PROVE Asked'
  <2>1. reload[c].pc = "none"
    BY <1>0, <1>2 DEF Change, Asked, TypeOK, ReloadState
  <2>2. ASSUME NEW d \in Calls PROVE ver'[d] <= last'[part'[d]]
    <3>1. /\ d \in Tasks /\ part[d] \in Parts /\ ver[d] \in Nat /\ ver[d] <= last[part[d]]
          /\ part \in [Tasks -> Parts] /\ ver \in [Tasks -> Nat] /\ last[part[d]] \in Nat
          /\ last[p] \in Nat
      BY <1>0 DEF Asked, TypeOK
    <3>2. CASE d = c
      <4>1. part'[d] = p /\ ver'[d] = last[p] + 1 /\ last'[p] = last[p] + 1
        BY <1>2, <3>1, <3>2 DEF Change, Commit
      <4> QED
        BY <3>1, <4>1
    <3>3. CASE d # c
      <4>1. part'[d] = part[d] /\ ver'[d] = ver[d]
        BY <1>2, <3>1, <3>3 DEF Change
      <4>2. last'[part[d]] >= last[part[d]] /\ last' \in [Parts -> Nat]
        BY <1>2, <3>1, CommitType DEF Change
      <4> QED
        BY <3>1, <4>1, <4>2
    <3> QED
      BY <3>2, <3>3
  <2>3. \A t \in Tasks : t # c => task'[t] = task[t] /\ part'[t] = part[t]
    BY <1>0, <1>2 DEF Change, TypeOK
  <2>4. task'[c] = "export" /\ reload' = reload
    BY <1>0, <1>2 DEF Change, TypeOK
  <2> QED
    BY <1>0, <2>1, <2>2, <2>3, <2>4 DEF Asked, Insists
<1>3. ASSUME NEW e \in Exporters, Fill(e) PROVE Asked'
  <2>1. \A t \in Tasks : task'[t] = task[t] \/ (task[t] = "export" /\ task'[t] = "notify")
    BY <1>3 DEF Fill, Exported, TypeOK
  <2>2. UNCHANGED <<part, ver, last, reload>>
    BY <1>3 DEF Fill, tables
  <2> QED
    BY <1>0, <2>1, <2>2 DEF Asked, Insists
<1>4. ASSUME NEW t \in Tasks, Notify(t) PROVE Asked'
  <2>1. /\ task' = [task EXCEPT ![t] = "wait"] /\ task[t] = "notify"
        /\ \A u \in Tasks : u # t => reload'[u] = reload[u]
        /\ reload'[t].pc = "sent" /\ reload'[t].part = reload[t].part
        /\ UNCHANGED <<part, ver, last>>
    BY <1>4 DEF Notify, tables, TypeOK, ReloadState
  <2>2. reload[t].part = 1
    BY <1>4 DEF Notify, Asked
  <2> QED
    BY <1>0, <2>1, <2>2 DEF Asked, Insists, TypeOK
<1>5. ASSUME NEW t \in Tasks, GivesUp(t) PROVE Asked'
  <2>1. /\ task' = [task EXCEPT ![t] = IF Insists(t) THEN "failed" ELSE "ok"]
        /\ UNCHANGED <<part, ver, last, reload>>
    BY <1>5 DEF GivesUp, Answer, tables
  <2> QED
    BY <1>0, <2>1 DEF Asked, Insists, TypeOK
<1>6. ASSUME NEW t \in Tasks, Reply(t) PROVE Asked'
  <2>1. /\ \A u \in Tasks : u # t => task'[u] = task[u]
        /\ task'[t] \in {"ok", "failed"}
        /\ task'[t] = "ok" /\ Insists(t) => reload[t].pc = "done"
        /\ UNCHANGED <<part, ver, last, reload>>
    BY <1>6 DEF Reply, Answer, tables, TypeOK
  <2> QED
    BY <1>0, <2>1 DEF Asked, Insists
<1>7. ASSUME NEW t \in Tasks, BeginReload(t) \/ LoadPart(t) \/ AssignPart(t) PROVE Asked'
  <2>1. UNCHANGED <<task, part, ver, last>>
    BY <1>7 DEF BeginReload, LoadPart, AssignPart, tables, calls
  <2>2. ASSUME NEW u \in Tasks
        PROVE  /\ reload[u].pc = "done" => reload'[u].pc = "done"
               /\ reload'[u].pc # "none" => reload[u].pc # "none"
               /\ reload'[u].pc \in {"none", "sent"} => reload'[u].part = 1
    <3>0. reload[u] \in ReloadState
      BY DEF TypeOK
    <3>1. CASE BeginReload(t)
      <4>1. CASE u = t
        BY <3>0, <3>1, <4>1 DEF BeginReload, ReloadState
      <4>2. CASE u # t
        <5>1. reload'[u] = reload[u] \/ reload'[u] = [reload[u] EXCEPT !.alone = FALSE]
          BY <3>1, <4>2 DEF BeginReload
        <5>2. reload'[u].pc = reload[u].pc /\ reload'[u].part = reload[u].part
          BY <3>0, <5>1 DEF ReloadState
        <5> QED
          BY <1>1, <5>2 DEF Asked
      <4> QED
        BY <4>1, <4>2
    <3>2. CASE LoadPart(t)
      BY <3>2 DEF LoadPart, Broken, Asked, TypeOK, ReloadState
    <3>3. CASE AssignPart(t)
      BY <3>3 DEF AssignPart, Asked, TypeOK, ReloadState
    <3> QED
      BY <1>7, <3>1, <3>2, <3>3
  <2> QED
    BY <1>0, <2>1, <2>2 DEF Asked, Insists
<1>8. CASE Crash
  <2>1. \A t \in Tasks : task'[t] = task[t] \/ task'[t] = "lost"
    BY <1>8 DEF Crash
  <2> QED
    BY <1>0, <1>8, <2>1 DEF Crash, Asked, Insists, tables
<1>9. CASE Restart
  <2>1. /\ \A t \in Tasks : reload'[t] = reload[t] \/
              (reload'[t].pc = "error" /\ reload[t].pc \in {"sent", "load", "assign"})
        /\ UNCHANGED <<task, part, ver, last>>
    BY <1>9 DEF Restart, Running, Broken, tables, calls
  <2> QED
    BY <1>0, <2>1 DEF Asked, Insists
<1>10. ASSUME NEW s \in Starts, Start(s) PROVE Asked'
  BY <1>0, <1>10 DEF Start, Asked, Insists, TypeOK, tables
<1>11. ASSUME NEW s \in Starts, Seed(s) PROVE Asked'
  <2>1. \A p \in Parts : last'[p] >= last[p]
    BY <1>11, CommitType DEF Seed
  <2>2. \A c \in Calls : ver[c] <= last'[part[c]]
    BY <1>0, <1>11, <2>1, CommitType DEF Seed, Asked, TypeOK
  <2>3. task' = [task EXCEPT ![s] = "export"] /\ task[s] = "restore"
        /\ UNCHANGED <<part, ver, reload>>
    BY <1>11 DEF Seed, Restoring
  <2> QED
    BY <1>0, <2>2, <2>3 DEF Asked, Insists, TypeOK
<1>12. ASSUME NEW s \in Starts, NEW p \in Parts, Sync(s, p) \/ Take(s, p) PROVE Asked'
  <2>1. \A q \in Parts : last'[q] >= last[q]
    BY <1>12, CommitType DEF Sync, Take
  <2>2. UNCHANGED <<task, part, ver, reload>>
    BY <1>12 DEF Sync, Take, calls
  <2>3. \A c \in Calls : ver[c] <= last'[part[c]]
    BY <1>0, <1>12, <2>1, CommitType DEF Sync, Take, Asked, TypeOK
  <2> QED
    BY <2>2, <2>3 DEF Asked, Insists
<1> QED
  BY <1>1, <1>2, <1>3, <1>4, <1>5, <1>6, <1>7, <1>8, <1>9, <1>10, <1>11, <1>12
     DEF Next, Export, Ask, Import, Read, Open, vars, tables, calls

LEMMA TogetherStep == TypeOK /\ Together /\ [Next]_vars => Together'
<1> SUFFICES ASSUME TypeOK, Together, [Next]_vars PROVE Together'
  OBVIOUS
<1>1. CASE UNCHANGED reload
  BY <1>1 DEF Together, Running
<1>2. ASSUME NEW t \in Tasks, Notify(t) PROVE Together'
  BY <1>2 DEF Notify, Together, Running, TypeOK, ReloadState
<1>3. ASSUME NEW t \in Tasks, BeginReload(t) PROVE Together'
  <2>1. \A u \in Tasks : u # t /\ Running(u)' => Running(u) /\ ~reload'[u].alone
    BY <1>3 DEF BeginReload, Running, TypeOK, ReloadState
  <2>2. \A u \in Tasks : Running(u) => ~reload'[t].alone
    BY <1>3 DEF BeginReload, TypeOK, ReloadState
  <2> QED
    BY <2>1, <2>2 DEF Together
<1>4. ASSUME NEW t \in Tasks, LoadPart(t) \/ AssignPart(t) PROVE Together'
  <2>1. /\ \A u \in Tasks : reload'[u].alone = reload[u].alone
        /\ \A u \in Tasks : Running(u)' => Running(u)
    <3>1. CASE LoadPart(t)
      BY <3>1 DEF LoadPart, Broken, Running, TypeOK, ReloadState
    <3>2. CASE AssignPart(t)
      BY <3>2 DEF AssignPart, Running, TypeOK, ReloadState
    <3> QED
      BY <1>4, <3>1, <3>2
  <2> QED
    BY <2>1 DEF Together
<1>5. CASE Restart
  <2>1. \A u \in Tasks : ~Running(u)'
    BY <1>5 DEF Restart, Broken, Running
  <2> QED
    BY <2>1 DEF Together
<1> QED
  BY <1>1, <1>2, <1>3, <1>4, <1>5
     DEF Next, Export, Ask, Import, Read, Open, Fill, GivesUp, Reply, Change, Crash, Start, Take, Sync, Seed, vars

LEMMA AlwaysStep == TypeOK /\ Always /\ [Next]_vars => Always'
  BY StartAloneStep, ExportingStep, AskedStep, TogetherStep DEF Always

-----------------------------------------------------------------------------
(* What holds as long as nothing has disturbed                             *)

LEMMA NobodyHeals == [Next]_vars /\ disturbed => disturbed'
  BY DEF Next, Export, Ask, Import, Read, Open, Fill, GivesUp, Reply, Notify, Change, Crash, Start,
         Take, Sync, Seed, BeginReload, LoadPart, AssignPart, Restart, vars

LEMMA InitClean == Init => Clean
<1> SUFFICES ASSUME Init PROVE Clean
  OBVIOUS
<1>1. /\ \A e \in Exporters : exporter[e].pc = "idle"
      /\ Loop \in Exporters /\ Imports \subseteq Exporters
  BY DEF Init, Idle, Exporters
<1>2. /\ \A t \in Tasks : reload[t].pc = "none" /\ task[t] = "new"
      /\ Starts \subseteq Tasks /\ Calls \subseteq Tasks
  BY DEF Init, NoReload, Tasks
<1>3. db = last /\ file = db /\ mem = db /\ db \in [Parts -> Nat]
  BY DEF Init
<1>4. Agreed /\ Following
  BY <1>1, <1>2, <1>3 DEF Agreed, Following, Follows, Restores, Active
<1>5. Ordered
  BY <1>3 DEF Ordered
<1>6. Carried /\ Loaded
  BY <1>2 DEF Carried, Loaded, Posted, Running
<1>7. Owed
  BY <1>1, <1>3 DEF Owed, Active
<1> QED
  BY <1>4, <1>5, <1>6, <1>7 DEF Clean

\* A commit that disturbs nothing: the loop commits and exports while nobody else does.
Committed ==
    /\ LoopExports /\ db' = last' /\ db' \in [Parts -> Nat]
    /\ \A p \in Parts : db'[p] >= db[p]
    /\ \A i \in Imports : ~Active(i)
    /\ UNCHANGED <<file, mem, reload>>

LEMMA CommitIs ==
    ASSUME TypeOK, Clean, NEW S, Commit(S)
    PROVE  db' = last' /\ db' \in [Parts -> Nat] /\ \A q \in Parts : db'[q] >= db[q]
<1>1. db = last
  BY DEF Clean, Agreed
<1> QED
  BY <1>1 DEF Commit, TypeOK

LEMMA ChangeCommits ==
    ASSUME TypeOK, Always, Clean, ~disturbed', NEW c \in Calls, NEW p \in Parts, NEW b, Change(c, p, b)
    PROVE  Committed
<1>1. \A i \in Imports : ~Active(i)
  BY DEF Change
<1> QED
  BY <1>1, CommitIs DEF Committed, Change

\* A start commits while the registry serves nobody.
LEMMA StartCommits ==
    ASSUME TypeOK, Always, Clean, NEW s \in Starts, NEW p \in Parts,
           Sync(s, p) \/ Take(s, p) \/ Seed(s)
    PROVE  Committed
<1>1. task[s] = "restore"
  BY DEF Sync, Take, Seed, Restoring
<1>2. \A i \in Imports : ~Active(i)
  BY <1>1 DEF Always, StartAlone, Busy, Exporting
<1>3. db' = last' /\ db' \in [Parts -> Nat] /\ \A q \in Parts : db'[q] >= db[q]
  BY CommitIs DEF Sync, Take, Seed
<1> QED
  BY <1>2, <1>3 DEF Committed, Sync, Take, Seed

\* As long as nothing has disturbed every exporter writes what the tables hold.
LEMMA FilledIs ==
    ASSUME TypeOK, Always, Clean, NEW e \in Exporters, Fill(e)
    PROVE  file' = [file EXCEPT ![exporter[e].part] = db[exporter[e].part]]
<1> DEFINE k == exporter[e].part
<1>1. exporter[e].pc = "fill" /\ k \in Parts /\ db \in [Parts -> Nat]
  BY DEF Fill, TypeOK, ExporterState
<1>2. exporter[e].got = db
  BY <1>1 DEF Clean, Agreed, Always, Exporting, Active, Exporters
<1>3. file[k] \in {Empty, db[k]}
  BY <1>1 DEF Clean, Agreed
<1>4. PICK v \in Written(file[k], db[k]) : file' = [file EXCEPT ![k] = v]
  BY <1>2 DEF Fill
<1>5. v = db[k]
  BY <1>3, <1>4 DEF Written
<1> QED
  BY <1>4, <1>5

LEMMA AgreedStep ==
    ASSUME TypeOK, Always, Clean, [Next]_vars, ~disturbed'
    PROVE  Agreed'
<1>0. /\ Loop \in Exporters /\ Imports \subseteq Exporters /\ Loop \notin Imports
      /\ Starts \subseteq Tasks
  BY DEF Exporters, Tasks
<1>1. Agreed /\ Exporting
  BY DEF Clean, Always
<1>2. CASE Committed
  <2>1. /\ \A e \in Exporters : e # Loop => exporter'[e] = exporter[e]
        /\ exporter'[Loop].pc = "open"
    BY <1>0, <1>2 DEF Committed, LoopExports, TypeOK
  <2>2. \A e \in Exporters : exporter'[e].pc # "fill"
    BY <1>2, <2>1 DEF Committed, Active, Exporters
  <2>3. \A i \in Imports : exporter'[i].pc \notin {"read", "open", "fill"}
    BY <1>0, <1>2, <2>1 DEF Committed, Active
  <2> QED
    BY <1>2, <2>2, <2>3 DEF Agreed, Committed
<1>3. CASE UNCHANGED <<db, last, file, exporter>> /\ (Restores' => Restores)
  BY <1>1, <1>3 DEF Agreed, Active
<1>4. ASSUME NEW i \in Imports, Import(i) PROVE Agreed'
  <2>1. /\ exporter[i].pc = "idle" /\ exporter'[i].pc = "read" /\ exporter'[i].part = 1
        /\ \A e \in Exporters : e # i => exporter'[e] = exporter[e]
        /\ UNCHANGED <<db, last, file, task>>
    BY <1>0, <1>1, <1>4 DEF Import, Exporting, TypeOK, ExporterState, tables, calls
  <2> QED
    BY <1>0, <1>1, <2>1, FirstPart DEF Agreed, Active, Restores, Parts
<1>5. ASSUME NEW e \in Exporters, Read(e) PROVE Agreed'
  <2>1. e # Loop /\ e \in Imports
    BY <1>1, <1>5 DEF Read, Exporting, Exporters
  <2> DEFINE k == exporter[e].part
  <2>2. /\ k \in Parts /\ exporter[e].got \in [Parts -> Nat] /\ db \in [Parts -> Nat]
        /\ \A o \in Exporters : o # e => exporter'[o] = exporter[o]
        /\ UNCHANGED <<db, last, file, task>>
    BY <1>5 DEF Read, TypeOK, ExporterState, tables, calls
  <2>3. exporter'[e].got = [exporter[e].got EXCEPT ![k] = db[k]]
    BY <1>5 DEF Read, TypeOK, ExporterState
  <2>4. \A q \in Parts : q <= k => exporter'[e].got[q] = db[q]
    BY <1>1, <1>5, <2>1, <2>2, <2>3, SMTT(20) DEF Read, Agreed, Parts
  <2>5. CASE k < N
    <3>1. exporter'[e].pc = "read" /\ exporter'[e].part = k + 1
      BY <1>5, <2>5 DEF Read, TypeOK, ExporterState
    <3>2. \A q \in Parts : q < k + 1 => q <= k
      BY <2>2 DEF Parts
    <3> QED
      BY <1>0, <1>1, <2>1, <2>2, <2>4, <3>1, <3>2 DEF Agreed, Active, Restores
  <2>6. CASE ~(k < N)
    <3>1. exporter'[e].pc = "open"
      BY <1>5, <2>6 DEF Read, TypeOK, ExporterState
    <3>2. \A q \in Parts : q <= k
      BY <2>2, <2>6 DEF Parts
    <3>3. exporter'[e].got = db
      BY <2>2, <2>3, <2>4, <3>2
    <3> QED
      BY <1>0, <1>1, <2>1, <2>2, <3>1, <3>3 DEF Agreed, Active, Restores
  <2> QED
    BY <2>5, <2>6
<1>6. ASSUME NEW e \in Exporters, Open(e) PROVE Agreed'
  <2> DEFINE k == exporter[e].part
  <2>1. /\ k \in Parts /\ exporter[e].pc = "open"
        /\ exporter'[e].pc = "fill" /\ exporter'[e].part = k /\ exporter'[e].got = exporter[e].got
        /\ \A o \in Exporters : o # e => exporter'[o] = exporter[o]
        /\ file' = [file EXCEPT ![k] = Empty]
        /\ UNCHANGED <<db, last, task>>
    BY <1>6 DEF Open, TypeOK, ExporterState, tables, calls
  <2>2. \A o \in Exporters : exporter'[o].pc = "fill" => file'[exporter'[o].part] \in {Empty, db[exporter'[o].part]}
    BY <1>1, <2>1 DEF Agreed, TypeOK, ExporterState
  <2> QED
    BY <1>0, <1>1, <2>1, <2>2 DEF Agreed, Active, Restores
<1>7. ASSUME NEW e \in Exporters, Fill(e) PROVE Agreed'
  <2> DEFINE k == exporter[e].part
  <2>1. /\ k \in Parts /\ exporter[e].pc = "fill"
        /\ \A o \in Exporters : o # e => exporter'[o] = exporter[o]
        /\ UNCHANGED <<db, last>>
    BY <1>7 DEF Fill, TypeOK, ExporterState, tables
  <2>2. exporter'[e].pc \in {"open", "idle", "over"}
        /\ (exporter'[e].pc = "open" => exporter'[e].got = exporter[e].got)
    BY <1>7 DEF Fill, TypeOK, ExporterState, Rest, Idle
  <2>3. file' = [file EXCEPT ![k] = db[k]]
    BY <1>7, FilledIs
  <2>4. \A o \in Exporters : exporter'[o].pc = "fill" => file'[exporter'[o].part] \in {Empty, db[exporter'[o].part]}
    BY <1>1, <2>1, <2>2, <2>3 DEF Agreed, TypeOK, ExporterState
  <2>5. Restores' => Restores
    BY <1>0, <1>7 DEF Fill, Exported, Restores, TypeOK
  <2>6. Active(Loop)' => Active(Loop)
    BY <2>1, <2>2, <1>0 DEF Active
  <2> QED
    BY <1>0, <1>1, <2>1, <2>2, <2>4, <2>5, <2>6 DEF Agreed
<1>8. CASE Crash
  <2>1. \A e \in Exporters : ~Active(e)'
    BY <1>8 DEF Crash, Active, Rest, Idle
  <2> QED
    BY <1>0, <1>1, <1>8, <2>1 DEF Crash, Agreed, Active, tables
<1>9. ASSUME NEW s \in Starts, Start(s) PROVE Agreed'
  <2>1. ~Active(Loop)
    BY <1>1, <1>9 DEF Start, Exporting
  <2> QED
    BY <1>1, <1>9, <2>1 DEF Start, Agreed, Active, tables
<1>10. ASSUME NEW t \in Tasks, Ask(t) PROVE Agreed'
  <2>1. UNCHANGED <<db, last, file, exporter>> /\ \A s \in Starts : task'[s] = "restore" => task[s] = "restore"
    BY <1>0, <1>10 DEF Ask, Notify, GivesUp, Reply, Answer, TypeOK, tables
  <2> QED
    BY <1>3, <2>1 DEF Restores
<1>11. CASE UNCHANGED <<tables, file, exporter, calls>>
  BY <1>3, <1>11 DEF tables, calls, Restores
<1> QED
  BY <1>2, <1>4, <1>5, <1>6, <1>7, <1>8, <1>9, <1>10, <1>11, ChangeCommits, StartCommits, FirstPart
     DEF Next, Export, BeginReload, LoadPart, AssignPart, Restart, Take, Sync, vars

LEMMA FollowingStep ==
    ASSUME TypeOK, Always, Clean, [Next]_vars, ~disturbed'
    PROVE  Following'
<1>0. /\ Loop \in Exporters /\ Imports \subseteq Exporters /\ Loop \notin Imports
      /\ Starts \subseteq Tasks
  BY DEF Exporters, Tasks
<1>1. Following /\ Agreed /\ Exporting /\ StartAlone
  BY DEF Clean, Always
<1>2. CASE Committed
  <2>1. exporter'[Loop].pc = "open" /\ exporter'[Loop].part = 1
    BY <1>0, <1>2 DEF Committed, LoopExports, TypeOK
  <2> QED
    BY <2>1 DEF Following, Follows, Active, Parts
<1>3. CASE /\ UNCHANGED <<db, file, exporter>>
           /\ registry = "down" => registry' = "down"
           /\ Restores => Restores'
  BY <1>1, <1>3 DEF Following, Follows, Active
<1>4. ASSUME NEW e \in Exporters, Read(e) \/ (e \in Imports /\ Import(e)) PROVE Following'
  <2>1. /\ e # Loop /\ exporter[e].pc # "fill"
        /\ \A o \in Exporters : o # e => exporter'[o] = exporter[o]
        /\ UNCHANGED <<db, file, registry, task>>
    BY <1>1, <1>4 DEF Read, Import, Exporting, TypeOK, tables, calls
  <2> QED
    BY <1>0, <1>1, <2>1 DEF Following, Follows, Active, Restores
<1>5. ASSUME NEW e \in Exporters, Open(e) PROVE Following'
  <2> DEFINE k == exporter[e].part
  <2>1. /\ exporter[e].pc = "open" /\ k \in Parts
        /\ exporter'[e].pc = "fill" /\ exporter'[e].part = k
        /\ \A o \in Exporters : o # e => exporter'[o] = exporter[o]
        /\ file' = [file EXCEPT ![k] = Empty]
        /\ UNCHANGED <<db, registry, task>>
    BY <1>5 DEF Open, TypeOK, ExporterState, tables, calls
  <2>2. ASSUME NEW q \in Parts PROVE Follows(q)'
    <3>1. CASE q = k
      BY <2>1, <3>1 DEF Follows, TypeOK
    <3>2. CASE q # k
      <4>1. file'[q] = file[q] /\ Follows(q)
        BY <1>1, <2>1, <3>2 DEF Following, TypeOK
      <4>2. Active(Loop) /\ exporter[Loop].part <= q => Active(Loop)' /\ exporter'[Loop].part <= q
        BY <1>0, <2>1 DEF Active
      <4> QED
        BY <2>1, <4>1, <4>2 DEF Follows, Restores
    <3> QED
      BY <3>1, <3>2
  <2> QED
    BY <2>2 DEF Following
<1>6. ASSUME NEW e \in Exporters, Fill(e) PROVE Following'
  <2> DEFINE k == exporter[e].part
  <2>1. /\ k \in Parts /\ exporter[e].pc = "fill"
        /\ \A o \in Exporters : o # e => exporter'[o] = exporter[o]
        /\ UNCHANGED <<db, registry>>
    BY <1>6 DEF Fill, TypeOK, ExporterState, tables
  <2>2. file' = [file EXCEPT ![k] = db[k]]
    BY <1>6, FilledIs
  <2>3. Restores => Restores'
    BY <1>0, <1>6 DEF Fill, Exported, Restores, TypeOK
  <2>4. ASSUME NEW q \in Parts PROVE Follows(q)'
    <3>1. CASE q = k
      BY <2>1, <2>2, <3>1 DEF Follows, TypeOK
    <3>2. CASE q # k
      <4>1. file'[q] = file[q] /\ Follows(q)
        BY <1>1, <2>1, <2>2, <3>2 DEF Following, TypeOK
      <4>2. ASSUME Active(Loop), exporter[Loop].part <= q
            PROVE  Active(Loop)' /\ exporter'[Loop].part <= q
        <5>1. CASE e # Loop
          BY <1>0, <2>1, <4>2, <5>1 DEF Active
        <5>2. CASE e = Loop
          <6>1. k < q /\ k < N /\ k + 1 <= q
            BY <2>1, <3>2, <4>2, <5>2 DEF Parts
          <6>2. exporter'[e].part = k + 1 /\ exporter'[e].pc = "open"
            BY <1>6, <6>1 DEF Fill, TypeOK, ExporterState
          <6> QED
            BY <5>2, <6>1, <6>2 DEF Active
        <5> QED
          BY <5>1, <5>2
      <4>3. CASE \E o \in Exporters : exporter[o].pc = "fill" /\ exporter[o].part = q
        <5>1. PICK o \in Exporters : exporter[o].pc = "fill" /\ exporter[o].part = q
          BY <4>3
        <5>2. exporter'[o] = exporter[o]
          BY <2>1, <3>2, <5>1
        <5> QED
          BY <2>1, <2>3, <4>1, <4>2, <5>1, <5>2 DEF Follows
      <4>4. CASE ~ \E o \in Exporters : exporter[o].pc = "fill" /\ exporter[o].part = q
        BY <2>1, <2>3, <4>1, <4>2, <4>4 DEF Follows
      <4> QED
        BY <4>3, <4>4
    <3> QED
      BY <3>1, <3>2
  <2> QED
    BY <2>4 DEF Following
<1>7. CASE Crash
  BY <1>7 DEF Crash, Following, Follows
<1>8. ASSUME NEW s \in Starts, Start(s) PROVE Following'
  <2>1. Restores'
    BY <1>0, <1>8 DEF Start, Restores, TypeOK
  <2> QED
    BY <2>1 DEF Following, Follows
<1>9. ASSUME NEW t \in Tasks, Ask(t) PROVE Following'
  <2>1. /\ UNCHANGED <<db, file, exporter>> /\ task[t] \in {"notify", "wait"}
        /\ \A s \in Tasks : s # t => task'[s] = task[s]
        /\ registry' = registry \/ t \in Starts
    BY <1>9 DEF Ask, Notify, GivesUp, Reply, Answer, TypeOK, tables
  <2>2. registry = "down" => registry' = "down"
    BY <1>1, <2>1 DEF StartAlone, Busy
  <2>3. Restores => Restores'
    BY <1>0, <2>1 DEF Restores
  <2> QED
    BY <1>3, <2>1, <2>2, <2>3
<1>10. CASE UNCHANGED <<tables, file, exporter, calls>>
  BY <1>3, <1>10 DEF tables, calls, Restores
<1> QED
  BY <1>0, <1>2, <1>4, <1>5, <1>6, <1>7, <1>8, <1>9, <1>10, ChangeCommits, StartCommits, FirstPart
     DEF Next, Export, BeginReload, LoadPart, AssignPart, Restart, Take, Sync, vars

LEMMA OrderedStep ==
    ASSUME TypeOK, Always, Clean, [Next]_vars, ~disturbed'
    PROVE  Ordered'
<1>1. Ordered /\ Carried
  BY DEF Clean
<1>2. CASE Committed
  BY <1>1, <1>2 DEF Committed, Ordered, TypeOK, Whole
<1>3. CASE UNCHANGED <<db, file, mem>>
  BY <1>1, <1>3 DEF Ordered, Whole
<1>4. ASSUME NEW e \in Exporters, Open(e) PROVE Ordered'
  BY <1>1, <1>4 DEF Open, Ordered, Whole, TypeOK, tables
<1>5. ASSUME NEW e \in Exporters, Fill(e) PROVE Ordered'
  <2>1. file' = [file EXCEPT ![exporter[e].part] = db[exporter[e].part]]
    BY <1>5, FilledIs
  <2> QED
    BY <1>1, <1>5, <2>1 DEF Fill, Ordered, Whole, TypeOK, tables
<1>6. ASSUME NEW t \in Tasks, AssignPart(t) PROVE Ordered'
  <2>1. /\ mem' = [mem EXCEPT ![reload[t].part] = reload[t].seen] /\ reload[t].pc = "assign"
        /\ reload[t].part \in Parts /\ UNCHANGED <<db, file>>
    BY <1>6 DEF AssignPart, TypeOK, ReloadState, tables
  <2> QED
    BY <1>1, <2>1 DEF Ordered, Carried, TypeOK
<1>7. CASE Restart
  BY <1>1, <1>7 DEF Restart, Ordered, Whole, TypeOK, tables
<1> QED
  BY <1>2, <1>3, <1>4, <1>5, <1>6, <1>7, ChangeCommits, StartCommits, FirstPart
     DEF Next, Export, Ask, Import, Read, Notify, GivesUp, Reply, Crash, Start, Take, Sync, BeginReload,
         LoadPart, vars, tables

LEMMA CarriedStep ==
    ASSUME TypeOK, Always, Clean, [Next]_vars, ~disturbed'
    PROVE  Carried'
<1>1. Ordered /\ Carried /\ Together
  BY DEF Clean, Always
<1>2. CASE Committed
  BY <1>1, <1>2 DEF Committed, Carried, TypeOK, ReloadState
<1>3. CASE UNCHANGED <<db, file, mem, reload>>
  BY <1>1, <1>3 DEF Carried
<1>4. ASSUME NEW e \in Exporters, Open(e) PROVE Carried'
  BY <1>1, <1>4 DEF Open, Carried, Whole, TypeOK, ReloadState, tables
<1>5. ASSUME NEW e \in Exporters, Fill(e) PROVE Carried'
  <2>1. file' = [file EXCEPT ![exporter[e].part] = db[exporter[e].part]]
    BY <1>5, FilledIs
  <2> QED
    BY <1>1, <1>5, <2>1 DEF Fill, Carried, Whole, TypeOK, ReloadState, tables
<1>6. ASSUME NEW t \in Tasks, Notify(t) PROVE Carried'
  <2>1. /\ reload'[t].pc = "sent" /\ \A u \in Tasks : u # t => reload'[u] = reload[u]
        /\ UNCHANGED <<db, file, mem>>
    BY <1>6 DEF Notify, TypeOK, ReloadState, tables
  <2> QED
    BY <1>1, <2>1 DEF Carried
<1>7. ASSUME NEW t \in Tasks, BeginReload(t) PROVE Carried'
  <2>1. ASSUME NEW u \in Tasks, reload'[u].pc = "assign"
        PROVE  /\ reload[u].pc = "assign" /\ reload'[u].seen = reload[u].seen
               /\ reload'[u].part = reload[u].part
               /\ reload'[u].alone => reload[u].alone
    BY <1>7, <2>1 DEF BeginReload, TypeOK, ReloadState
  <2> QED
    BY <1>1, <1>7, <2>1 DEF BeginReload, Carried, tables
<1>8. ASSUME NEW t \in Tasks, LoadPart(t) PROVE Carried'
  <2>1. \A u \in Tasks : u # t => reload'[u] = reload[u]
    BY <1>8 DEF LoadPart, TypeOK
  <2>2. ASSUME reload'[t].pc = "assign"
        PROVE  /\ reload'[t].part \in Parts /\ Whole(file[reload'[t].part])
               /\ reload'[t].seen = file[reload'[t].part]
    BY <1>8, <2>2 DEF LoadPart, Broken, TypeOK, ReloadState
  <2>3. UNCHANGED <<db, file, mem>> /\ \A p \in Parts : Whole(file[p]) => file[p] \in Nat
    BY <1>8 DEF LoadPart, tables, TypeOK, Whole
  <2> QED
    BY <1>1, <2>1, <2>2, <2>3 DEF Carried, Ordered
<1>9. ASSUME NEW t \in Tasks, AssignPart(t) PROVE Carried'
  <2>1. /\ \A u \in Tasks : u # t => reload'[u] = reload[u]
        /\ reload'[t].pc # "assign" /\ reload[t].pc = "assign"
        /\ UNCHANGED <<db, file>>
    BY <1>9 DEF AssignPart, TypeOK, ReloadState, tables
  <2>2. \A u \in Tasks : u # t /\ reload[u].pc = "assign" => ~reload[u].alone
    BY <1>1, <2>1 DEF Together, Running
  <2> QED
    BY <1>1, <2>1, <2>2 DEF Carried
<1>10. CASE Restart
  <2>1. \A u \in Tasks : reload'[u].pc # "assign"
    BY <1>10 DEF Restart, Broken, Running
  <2> QED
    BY <2>1 DEF Carried
<1> QED
  BY <1>2, <1>3, <1>4, <1>5, <1>6, <1>7, <1>8, <1>9, <1>10, ChangeCommits, StartCommits, FirstPart
     DEF Next, Export, Ask, Import, Read, GivesUp, Reply, Crash, Start, Take, Sync, vars, tables

LEMMA LoadedStep ==
    ASSUME TypeOK, Always, Clean, [Next]_vars, ~disturbed'
    PROVE  Loaded'
<1>0. /\ Starts \subseteq Tasks /\ Calls \subseteq Tasks /\ \A s \in Starts : s \notin Calls
      /\ Loop \in Exporters
  BY DEF Tasks, Exporters
<1>1. Loaded /\ Asked /\ Agreed
  BY DEF Clean, Always
\* Nothing but what is posted, the files and the reloads count.
<1>2. ASSUME UNCHANGED <<part, ver, file, reload>>,
             \A c \in Calls : task'[c] = "notify" => task[c] = "notify"
      PROVE  Loaded'
  BY <1>1, <1>2 DEF Loaded, Posted, Running, Whole
<1>3. ASSUME NEW c \in Calls, NEW p \in Parts, NEW b, Change(c, p, b) PROVE Loaded'
  <2>1. reload[c].pc = "none"
    BY <1>0, <1>1, <1>3 DEF Change, Asked, TypeOK, ReloadState
  <2>2. /\ task'[c] = "export" /\ UNCHANGED <<file, reload>>
        /\ \A d \in Calls : d # c => part'[d] = part[d] /\ ver'[d] = ver[d] /\ task'[d] = task[d]
    BY <1>0, <1>3 DEF Change, TypeOK
  <2> QED
    BY <1>1, <2>1, <2>2 DEF Loaded, Posted, Running, Whole
<1>4. ASSUME NEW e \in Exporters, Open(e) PROVE Loaded'
  <2>1. /\ file' = [file EXCEPT ![exporter[e].part] = Empty]
        /\ UNCHANGED <<part, ver, task, reload>>
    BY <1>4 DEF Open, calls
  <2>2. \A q \in Parts : file'[q] = file[q] \/ ~Whole(file[q])'
    BY <2>1 DEF Whole, TypeOK
  <2>3. \A c \in Calls : part[c] \in Parts
    BY <1>0 DEF TypeOK
  <2> QED
    BY <1>1, <2>1, <2>2, <2>3 DEF Loaded, Posted, Running, Whole
<1>5. ASSUME NEW e \in Exporters, Fill(e) PROVE Loaded'
  <2> DEFINE k == exporter[e].part
  <2>1. /\ file' = [file EXCEPT ![k] = db[k]] /\ k \in Parts
        /\ UNCHANGED <<part, ver, reload, db, last, registry>>
    BY <1>5, FilledIs DEF Fill, tables, TypeOK, ExporterState
  <2>2. \A c \in Calls : part[c] \in Parts /\ ver[c] <= db[part[c]]
    BY <1>0, <1>1 DEF Agreed, Asked, TypeOK
  <2>3. ASSUME NEW c \in Calls, Posted(c)', Whole(file[part[c]])'
        PROVE  file'[part'[c]] >= ver'[c]
    <3>1. CASE part[c] = k
      BY <2>1, <2>2, <3>1 DEF TypeOK
    <3>2. CASE part[c] # k /\ Posted(c)
      BY <1>1, <2>1, <2>2, <2>3, <3>2 DEF Loaded, Whole, TypeOK
    <3>3. CASE part[c] # k /\ ~Posted(c)
      <4>1. e = Loop /\ task[c] = "export" /\ ~(k < N)
        BY <1>0, <1>5, <2>1, <2>3, <3>3 DEF Posted, Fill, Exported, TypeOK
      <4>2. ~Active(Loop)'
        BY <1>5, <4>1 DEF Fill, Rest, Idle, Active, TypeOK
      <4>3. registry' # "down" /\ ~Restores
        <5>1. registry = "up"
          BY <4>1 DEF Always, StartAlone
        <5> QED
          BY <2>1, <5>1 DEF Always, StartAlone, Busy, Restores
      <4>4. ~Restores'
        BY <1>0, <1>5, <4>3 DEF Fill, Exported, Restores, TypeOK
      <4>5. \A q \in Parts : Follows(q)'
        BY FollowingStep DEF Following
      <4>6. file'[part[c]] = db[part[c]]
        BY <2>1, <2>2, <2>3, <4>2, <4>3, <4>4, <4>5 DEF Follows, Whole
      <4> QED
        BY <1>0, <2>1, <2>2, <4>6 DEF TypeOK
    <3> QED
      BY <3>1, <3>2, <3>3
  <2> QED
    BY <1>1, <2>1, <2>3 DEF Loaded, Running, Whole
<1>6. ASSUME NEW t \in Tasks, Notify(t) PROVE Loaded'
  <2>1. /\ task[t] = "notify" /\ task'[t] = "wait" /\ reload'[t].pc = "sent"
        /\ \A u \in Tasks : u # t => reload'[u] = reload[u] /\ task'[u] = task[u]
        /\ UNCHANGED <<part, ver, file>>
    BY <1>6 DEF Notify, TypeOK, ReloadState
  <2> QED
    BY <1>0, <1>1, <2>1 DEF Loaded, Posted, Running, Whole
<1>7. ASSUME NEW t \in Tasks, GivesUp(t) \/ Reply(t) PROVE Loaded'
  <2>1. /\ UNCHANGED <<part, ver, file, reload>>
        /\ \A u \in Tasks : task'[u] = "notify" => task[u] = "notify"
    BY <1>7 DEF GivesUp, Reply, Answer, TypeOK
  <2> QED
    BY <1>0, <1>2, <2>1
<1>8. ASSUME NEW t \in Tasks, BeginReload(t) PROVE Loaded'
  <2>1. /\ reload[t].pc = "sent" /\ reload[t].part = 1 /\ reload'[t].pc = "load" /\ reload'[t].part = 1
        /\ UNCHANGED <<part, ver, file, task>>
    BY <1>1, <1>8 DEF BeginReload, Asked, TypeOK, ReloadState, calls
  <2>2. ASSUME NEW u \in Tasks, u # t
        PROVE  /\ reload'[u].pc = reload[u].pc /\ reload'[u].part = reload[u].part
               /\ reload'[u].seen = reload[u].seen /\ reload'[u].own = reload[u].own
    <3>1. reload[u] \in ReloadState
      BY DEF TypeOK
    <3>2. reload'[u] = reload[u] \/ reload'[u] = [reload[u] EXCEPT !.alone = FALSE]
      BY <1>8, <2>2 DEF BeginReload
    <3> QED
      BY <3>1, <3>2 DEF ReloadState
  <2>3. \A c \in Calls : part[c] \in Parts /\ ~(1 > part[c])
    BY <1>0 DEF TypeOK, Parts
  <2> QED
    BY <1>0, <1>1, <2>1, <2>2, <2>3 DEF Loaded, Posted, Running, Whole
<1>9. ASSUME NEW t \in Tasks, LoadPart(t) PROVE Loaded'
  <2>1. /\ \A u \in Tasks : u # t => reload'[u] = reload[u]
        /\ UNCHANGED <<part, ver, file, task>> /\ reload[t].pc = "load"
    BY <1>9 DEF LoadPart, TypeOK, calls
  <2>2. CASE Whole(file[reload[t].part])
    <3>1. /\ reload'[t].pc = "assign" /\ reload'[t].part = reload[t].part
          /\ reload'[t].seen = file[reload[t].part] /\ reload'[t].own = reload[t].own
      BY <1>9, <2>2 DEF LoadPart, TypeOK, ReloadState
    <3> QED
      BY <1>0, <1>1, <2>1, <2>2, <3>1 DEF Loaded, Posted, Running, Whole
  <2>3. CASE ~Whole(file[reload[t].part])
    <3>1. reload'[t].pc = "error"
      BY <1>9, <2>3 DEF LoadPart, Broken, TypeOK
    <3> QED
      BY <1>0, <1>1, <2>1, <3>1 DEF Loaded, Posted, Running, Whole
  <2> QED
    BY <2>2, <2>3
<1>10. ASSUME NEW t \in Tasks, AssignPart(t) PROVE Loaded'
  <2> DEFINE k == reload[t].part
  <2>1. /\ \A u \in Tasks : u # t => reload'[u] = reload[u]
        /\ UNCHANGED <<part, ver, file, task>> /\ reload[t].pc = "assign" /\ k \in Parts
    BY <1>10 DEF AssignPart, TypeOK, ReloadState, calls
  <2>2. /\ reload'[t].own = IF k = part[t] THEN reload[t].seen ELSE reload[t].own
        /\ reload'[t].pc = IF k < N THEN "load" ELSE "done"
        /\ k < N => reload'[t].part = k + 1
    BY <1>10 DEF AssignPart, TypeOK, ReloadState
  <2>3. ASSUME t \in Calls, k >= part[t] PROVE reload'[t].own >= ver[t]
    <3>1. k = part[t] \/ k > part[t]
      BY <1>0, <2>1, <2>3 DEF Parts, TypeOK
    <3>2. CASE k = part[t]
      BY <1>1, <2>1, <2>2, <2>3, <3>2 DEF Loaded
    <3>3. CASE k > part[t] /\ k # part[t]
      BY <1>1, <2>1, <2>2, <2>3, <3>3 DEF Loaded, Running
    <3> QED
      BY <1>0, <2>1, <3>1, <3>2, <3>3 DEF Parts, TypeOK
  <2>4. /\ k < N /\ k + 1 > part[t] => k >= part[t]
        /\ ~(k < N) => k >= part[t]
    BY <2>1, SMTT(20) DEF Parts, TypeOK
  <2>5. CASE k < N
    BY <1>0, <1>1, <2>1, <2>2, <2>3, <2>4, <2>5 DEF Loaded, Posted, Running, Whole
  <2>6. CASE ~(k < N)
    BY <1>0, <1>1, <2>1, <2>2, <2>3, <2>4, <2>6 DEF Loaded, Posted, Running, Whole
  <2> QED
    BY <2>5, <2>6
<1>11. CASE Crash
  <2>1. /\ UNCHANGED <<part, ver, file, reload>>
        /\ \A u \in Tasks : task'[u] = "notify" => task[u] = "notify"
    BY <1>11 DEF Crash
  <2> QED
    BY <1>0, <1>2, <2>1
<1>12. CASE Restart
  <2>1. /\ UNCHANGED <<part, ver, file, task>>
        /\ \A u \in Tasks : reload'[u] = reload[u] \/
              (reload'[u].pc = "error" /\ reload[u].pc \in {"sent", "load", "assign"})
    BY <1>12 DEF Restart, Broken, Running, calls
  <2> QED
    BY <1>0, <1>1, <2>1 DEF Loaded, Posted, Running, Whole
<1>13. ASSUME NEW s \in Starts, Start(s) \/ Seed(s) PROVE Loaded'
  <2>1. /\ UNCHANGED <<part, ver, file, reload>>
        /\ \A u \in Tasks : task'[u] = "notify" => task[u] = "notify"
    BY <1>13 DEF Start, Seed, TypeOK
  <2> QED
    BY <1>0, <1>2, <2>1
<1>14. CASE UNCHANGED <<file, calls, reload>>
  BY <1>2, <1>14 DEF calls
<1> QED
  BY <1>3, <1>4, <1>5, <1>6, <1>7, <1>8, <1>9, <1>10, <1>11, <1>12, <1>13, <1>14
     DEF Next, Export, Ask, Import, Read, Take, Sync, vars

\* A file that is whole and not current belongs to an export that goes on.
LEMMA WholeIsCurrent ==
    ASSUME TypeOK, Clean, NEW p \in Parts, Whole(file[p]), file[p] # db[p]
    PROVE  \/ \E t \in Tasks : task[t] = "export"
           \/ registry = "down" \/ Restores
  BY DEF Clean, Following, Follows, Owed, Whole

LEMMA OwedStep ==
    ASSUME TypeOK, Always, Clean, [Next]_vars, ~disturbed'
    PROVE  Owed'
<1>0. /\ Starts \subseteq Tasks /\ Calls \subseteq Tasks /\ Loop \in Exporters
      /\ \A p \in Parts : mem[p] \in Nat /\ db[p] \in Nat
  BY DEF Tasks, Exporters, TypeOK
<1>1. Owed /\ Agreed /\ Carried /\ Together /\ Asked /\ StartAlone /\ Exporting
  BY DEF Clean, Always
\* A task that exports owes everything.
<1>2. ASSUME NEW t \in Tasks, task'[t] = "export" PROVE Owed'
  BY <1>2 DEF Owed, Owes
<1>3. ASSUME /\ Active(Loop)' => Active(Loop)
             /\ \A t \in Tasks : task[t] = "export" => task'[t] = "export"
             /\ registry = "down" => registry' = "down"
             /\ Restores => Restores'
             /\ \A p \in Parts : mem[p] = db[p] => mem'[p] = db'[p] \/ \E t \in Tasks : Owes(t, p)'
             /\ \A t \in Tasks, p \in Parts :
                   Owes(t, p) => mem'[p] = db'[p] \/ \E u \in Tasks : Owes(u, p)'
      PROVE  Owed'
  <2>1. Active(Loop)' => Restores' \/ \E t \in Tasks : task'[t] = "export"
    BY <1>1, <1>3 DEF Owed
  <2>2. ASSUME NEW p \in Parts
        PROVE  \/ mem'[p] = db'[p]
               \/ \E t \in Tasks : Owes(t, p)'
               \/ registry' = "down" \/ Restores'
    BY <1>1, <1>3 DEF Owed
  <2> QED
    BY <2>1, <2>2 DEF Owed
<1>4. CASE UNCHANGED <<db, mem, reload, exporter, task, registry>>
  BY <1>1, <1>4 DEF Owed, Owes, Active, Restores
<1>5. ASSUME NEW c \in Calls, NEW p \in Parts, NEW b, Change(c, p, b) PROVE Owed'
  <2>1. task'[c] = "export"
    BY <1>0, <1>5 DEF Change, TypeOK
  <2> QED
    BY <1>0, <1>2, <2>1
<1>6. ASSUME NEW s \in Starts, Seed(s) PROVE Owed'
  <2>1. task'[s] = "export"
    BY <1>0, <1>6 DEF Seed, TypeOK
  <2> QED
    BY <1>0, <1>2, <2>1
<1>7. ASSUME NEW i \in Exporters, Read(i) \/ Open(i) \/ (i \in Imports /\ Import(i)) PROVE Owed'
  <2>1. UNCHANGED <<db, mem, reload, task, registry>>
    BY <1>7 DEF Read, Open, Import, tables, calls
  <2>2. Active(Loop)' => Active(Loop)
    BY <1>0, <1>7 DEF Read, Open, Import, Active, TypeOK, Exporters, DistinctAssumption
  <2> QED
    BY <1>1, <2>1, <2>2 DEF Owed, Owes, Restores
<1>8. ASSUME NEW e \in Exporters, Fill(e) PROVE Owed'
  <2>1. /\ UNCHANGED <<db, mem, reload, registry>> /\ Active(e)
        /\ \A o \in Exporters : o # e => exporter'[o] = exporter[o]
    BY <1>8 DEF Fill, Active, tables, TypeOK
  <2>2. CASE task' = task
    <3>1. Active(Loop)' => Active(Loop)
      BY <1>0, <2>1 DEF Active
    <3> QED
      BY <1>1, <2>1, <2>2, <3>1 DEF Owed, Owes, Restores
  <2>3. CASE task' # task
    <3>1. /\ e = Loop /\ ~(exporter[e].part < N)
          /\ task' = [t \in Tasks |-> IF task[t] = "export" THEN "notify" ELSE task[t]]
      BY <1>8, <2>3 DEF Fill, Exported
    <3>2. ~Active(Loop)'
      BY <1>8, <3>1 DEF Fill, Rest, Idle, Active, TypeOK
    <3>3. \A t \in Tasks, p \in Parts : Owes(t, p) => Owes(t, p)'
      BY <2>1, <3>1 DEF Owes
    <3>4. Restores => Restores'
      BY <1>0, <3>1 DEF Restores
    <3> QED
      BY <1>1, <2>1, <3>2, <3>3, <3>4 DEF Owed
  <2> QED
    BY <2>2, <2>3
<1>9. ASSUME NEW t \in Tasks, Ask(t) PROVE Owed'
  <2>1. /\ UNCHANGED <<db, mem, exporter>> /\ task[t] \in {"notify", "wait"}
        /\ \A u \in Tasks : u # t => task'[u] = task[u] /\ reload'[u] = reload[u]
        /\ registry' = registry \/ t \in Starts
    BY <1>9 DEF Ask, Notify, GivesUp, Reply, Answer, TypeOK, tables
  <2>2. registry = "down" => registry' = "down"
    BY <1>1, <2>1 DEF StartAlone, Busy
  <2>3. Restores => Restores'
    BY <1>0, <2>1 DEF Restores
  <2>4. ASSUME NEW p \in Parts, Owes(t, p) PROVE Owes(t, p)'
    <3>1. CASE Notify(t)
      BY <3>1 DEF Notify, Owes, TypeOK, ReloadState
    <3>2. CASE GivesUp(t) \/ Reply(t)
      <4>1. task'[t] \in {"ok", "failed"} /\ reload' = reload
        BY <3>2 DEF GivesUp, Reply, Answer, TypeOK
      <4>2. task[t] = "notify" => reload[t].pc = "none"
        BY <1>1 DEF Asked
      <4>3. task[t] # "export"
        BY <2>1
      <4> QED
        BY <2>1, <2>4, <4>1, <4>2, <4>3 DEF Owes
    <3> QED
      BY <1>9, <3>1, <3>2 DEF Ask
  <2>5. \A u \in Tasks, p \in Parts : Owes(u, p) => Owes(u, p)'
    BY <2>1, <2>4 DEF Owes
  <2> QED
    BY <1>1, <1>3, <2>1, <2>2, <2>3, <2>5 DEF Active
<1>10. ASSUME NEW t \in Tasks, BeginReload(t) PROVE Owed'
  <2>1. /\ UNCHANGED <<db, mem, exporter, task, registry>> /\ reload[t].pc = "sent"
        /\ reload'[t].pc = "load" /\ reload'[t].part = 1
    BY <1>1, <1>10 DEF BeginReload, Asked, TypeOK, ReloadState, tables, calls
  <2>2. ASSUME NEW u \in Tasks, u # t, NEW p \in Parts, Owes(u, p) PROVE Owes(u, p)'
    <3>1. reload[u] \in ReloadState
      BY DEF TypeOK
    <3>2. reload'[u] = reload[u] \/ reload'[u] = [reload[u] EXCEPT !.alone = FALSE]
      BY <1>10, <2>2 DEF BeginReload
    <3>3. /\ reload'[u].pc = reload[u].pc /\ reload'[u].part = reload[u].part
          /\ reload'[u].seen = reload[u].seen
          /\ ~reload[u].alone => ~reload'[u].alone
      BY <3>1, <3>2 DEF ReloadState
    <3> QED
      BY <2>1, <2>2, <3>3 DEF Owes
  <2>3. \A p \in Parts : Owes(t, p)'
    BY <2>1 DEF Owes, Parts
  <2> QED
    BY <1>1, <1>3, <2>1, <2>2, <2>3 DEF Active, Restores
<1>11. ASSUME NEW t \in Tasks, LoadPart(t) PROVE Owed'
  <2> DEFINE k == reload[t].part
  <2>1. /\ UNCHANGED <<db, mem, exporter, task, registry, file>> /\ reload[t].pc = "load" /\ k \in Parts
        /\ \A u \in Tasks : u # t => reload'[u] = reload[u]
    BY <1>11 DEF LoadPart, TypeOK, ReloadState, tables, calls
  <2>2. CASE ~Whole(file[k])
    <3>1. reload'[t].pc = "error"
      BY <1>11, <2>2 DEF LoadPart, Broken, TypeOK
    <3> QED
      BY <1>1, <1>3, <2>1, <3>1 DEF Active, Restores, Owes
  <2>3. CASE Whole(file[k]) /\ file[k] # db[k]
    <3>1. \/ \E u \in Tasks : task[u] = "export"
          \/ registry = "down" \/ Restores
      BY <2>1, <2>3, WholeIsCurrent
    <3>2. CASE \E u \in Tasks : task[u] = "export"
      BY <1>2, <2>1, <3>2
    <3>3. CASE registry = "down" \/ Restores
      BY <1>1, <2>1, <3>3 DEF Owed, Active, Restores
    <3> QED
      BY <3>1, <3>2, <3>3
  <2>4. CASE Whole(file[k]) /\ file[k] = db[k]
    <3>1. /\ reload'[t].pc = "assign" /\ reload'[t].part = k /\ reload'[t].seen = db[k]
          /\ reload'[t].alone = reload[t].alone
      BY <1>11, <2>4 DEF LoadPart, TypeOK, ReloadState
    <3>2. ASSUME NEW p \in Parts, Owes(t, p) PROVE Owes(t, p)'
      <4>1. k <= p => k < p \/ k = p
        BY <2>1 DEF Parts
      <4> QED
        BY <2>1, <3>1, <3>2, <4>1 DEF Owes
    <3>3. \A u \in Tasks, p \in Parts : Owes(u, p) => Owes(u, p)'
      BY <2>1, <3>2 DEF Owes
    <3> QED
      BY <1>1, <1>3, <2>1, <3>3 DEF Active, Restores
  <2> QED
    BY <2>2, <2>3, <2>4
<1>12. ASSUME NEW t \in Tasks, AssignPart(t) PROVE Owed'
  <2> DEFINE k == reload[t].part
  <2>1. /\ UNCHANGED <<db, exporter, task, registry>> /\ reload[t].pc = "assign" /\ k \in Parts
        /\ \A u \in Tasks : u # t => reload'[u] = reload[u]
        /\ mem' = [mem EXCEPT ![k] = reload[t].seen] /\ reload[t].seen \in Nat
    BY <1>12 DEF AssignPart, TypeOK, ReloadState, tables, calls
  <2>2. /\ reload'[t].pc = IF k < N THEN "load" ELSE "done"
        /\ k < N => reload'[t].part = k + 1
        /\ reload'[t].alone = reload[t].alone
    BY <1>12 DEF AssignPart, TypeOK, ReloadState
  <2>3. CASE ~reload[t].alone
    <3>1. \A p \in Parts : Owes(t, p)'
      BY <2>2, <2>3 DEF Owes
    <3> QED
      BY <1>1, <1>3, <2>1, <3>1 DEF Active, Restores
  <2>4. CASE reload[t].alone
    <3>1. mem[k] = db[k] => reload[t].seen = db[k]
      BY <1>0, <1>1, <2>1, <2>4 DEF Carried
    <3>2. ASSUME NEW p \in Parts, mem[p] = db[p] PROVE mem'[p] = db'[p]
      BY <1>0, <2>1, <3>1, <3>2 DEF TypeOK
    <3>3. ASSUME NEW u \in Tasks, u # t, NEW p \in Parts, Owes(u, p) PROVE Owes(u, p)'
      BY <2>1, <3>3 DEF Owes
    <3>4. ASSUME NEW p \in Parts, Owes(t, p) PROVE mem'[p] = db'[p] \/ Owes(t, p)'
      <4>1. CASE k < p
        <5>1. k < N /\ k + 1 <= p
          BY <2>1, <4>1 DEF Parts
        <5> QED
          BY <2>2, <5>1 DEF Owes
      <4>2. CASE k = p /\ reload[t].seen = db[p]
        BY <1>0, <2>1, <4>2 DEF TypeOK
      <4>3. CASE task[t] \in {"export", "notify"}
        BY <2>1, <4>3 DEF Owes
      <4> QED
        BY <2>1, <2>4, <3>4, <4>1, <4>2, <4>3 DEF Owes
    <3> QED
      BY <1>1, <1>3, <2>1, <3>2, <3>3, <3>4 DEF Active, Restores
  <2> QED
    BY <2>3, <2>4
<1>13. CASE Crash
  <2>1. ~Active(Loop)' /\ registry' = "down"
    BY <1>0, <1>13 DEF Crash, Active, Rest, Idle
  <2> QED
    BY <2>1 DEF Owed
<1>14. ASSUME NEW s \in Starts, Start(s) PROVE Owed'
  <2>1. Restores' /\ exporter' = exporter /\ ~Active(Loop)
    BY <1>0, <1>1, <1>14 DEF Start, Restores, TypeOK, Exporting
  <2> QED
    BY <2>1 DEF Owed, Active
<1>15. CASE Restart
  <2>1. /\ UNCHANGED <<db, exporter, task, registry>> /\ mem' = file
        /\ \A p \in Parts : Whole(file[p])
    BY <1>15 DEF Restart, tables, calls
  <2>2. CASE \E p \in Parts : file[p] # db[p]
    <3>1. \/ \E u \in Tasks : task[u] = "export"
          \/ registry = "down" \/ Restores
      BY <2>1, <2>2, WholeIsCurrent
    <3>2. CASE \E u \in Tasks : task[u] = "export"
      BY <1>2, <2>1, <3>2
    <3>3. CASE registry = "down" \/ Restores
      BY <1>1, <2>1, <3>3 DEF Owed, Owes, Active, Restores
    <3> QED
      BY <3>1, <3>2, <3>3
  <2>3. CASE \A p \in Parts : file[p] = db[p]
    BY <1>1, <2>1, <2>3 DEF Owed, Active, Restores
  <2> QED
    BY <2>2, <2>3
<1>16. ASSUME NEW s \in Starts, NEW p \in Parts, Sync(s, p) \/ Take(s, p) PROVE Owed'
  <2>1. Restores'
    BY <1>16 DEF Sync, Take, Restoring, Restores, calls
  <2> QED
    BY <2>1 DEF Owed
<1> QED
  BY <1>4, <1>5, <1>6, <1>7, <1>8, <1>9, <1>10, <1>11, <1>12, <1>13, <1>14, <1>15, <1>16
     DEF Next, Export, vars, tables, calls, Exporters

-----------------------------------------------------------------------------
(* The theorems                                                            *)

LEMMA InvStep == Inv /\ [Next]_vars => Inv'
<1> SUFFICES ASSUME Inv, [Next]_vars PROVE Inv'
  OBVIOUS
<1>1. TypeOK' /\ Always'
  BY NextType, AlwaysStep DEF Inv
<1>2. disturbed' \/ Clean'
  <2> SUFFICES ASSUME ~disturbed' PROVE Clean'
    OBVIOUS
  <2>1. Clean
    BY NobodyHeals DEF Inv
  <2> QED
    BY <2>1, AgreedStep, FollowingStep, OrderedStep, CarriedStep, LoadedStep, OwedStep DEF Inv, Clean
<1> QED
  BY <1>1, <1>2 DEF Inv

LEMMA Invariance == Spec => []Inv
<1>1. Init => Inv
  BY InitType, InitAlways, InitClean DEF Inv
<1> QED
  BY <1>1, InvStep, PTL DEF Spec

\* SnapshotsFollow of RuntimeConfig: whenever the registry serves and nobody exports the
\* files hold what the tables hold, whatever was cut off by a crash, as long as no import
\* has exported while a change was made.
THEOREM SnapshotsAlwaysFollow == Spec => []SnapshotsFollow
<1>1. Inv => SnapshotsFollow
  <2> SUFFICES ASSUME Inv, AtRest, ~disturbed PROVE file = db
    BY DEF SnapshotsFollow
  <2>1. /\ Following /\ StartAlone /\ TypeOK /\ Starts \subseteq Tasks /\ Loop \in Exporters
    BY DEF Inv, Clean, Always, Tasks, Exporters
  <2>2. ~Restores
    BY <2>1 DEF AtRest, Restores, StartAlone, Busy
  <2>3. \A e \in Exporters : ~Active(e) /\ exporter[e].pc # "fill"
    BY DEF AtRest, Active
  <2>4. \A q \in Parts : file[q] = db[q]
    BY <2>1, <2>2, <2>3 DEF Following, Follows, AtRest
  <2> QED
    BY <2>1, <2>4 DEF TypeOK
<1> QED
  BY <1>1, Invariance, PTL

\* ConfirmedIsLoaded of RuntimeConfig: a change that has to be reloaded is confirmed only
\* when its reload has gone through, and has loaded it, or a later one, as long as no
\* import has exported while a change was made.
THEOREM ConfirmedAlwaysLoaded == Spec => []ConfirmedIsLoaded
<1>1. Inv => ConfirmedIsLoaded
  BY DEF Inv, Always, Asked, Clean, Loaded, ConfirmedIsLoaded
<1> QED
  BY <1>1, Invariance, PTL

\* ReloadedIsCurrent of RuntimeConfig: when all reloads went through, one after the other,
\* the orchestrator has what the tables have, as long as no import has exported while a
\* change was made.
THEOREM ReloadedAlwaysCurrent == Spec => []ReloadedIsCurrent
<1>1. Inv => ReloadedIsCurrent
  <2> SUFFICES ASSUME Inv, AtRest, ~disturbed, AllReloaded PROVE mem = db
    BY DEF ReloadedIsCurrent
  <2>1. /\ Owed /\ Asked /\ StartAlone /\ TypeOK /\ Starts \subseteq Tasks
    BY DEF Inv, Clean, Always, Tasks
  <2>2. ~Restores
    BY <2>1 DEF AtRest, Restores, StartAlone, Busy
  <2>3. ASSUME NEW t \in Tasks, NEW p \in Parts PROVE ~Owes(t, p)
    <3>1. /\ reload[t].pc \in {"none", "done"} /\ reload[t].alone
          /\ reload[t].pc = "none" => task[t] \in {"new", "lost"}
      BY DEF AllReloaded
    <3>2. reload[t].pc # "none" => task[t] \notin {"export", "notify"}
      BY <2>1 DEF Asked
    <3> QED
      BY <3>1, <3>2 DEF Owes
  <2>4. \A p \in Parts : mem[p] = db[p]
    BY <2>1, <2>2, <2>3 DEF Owed, AtRest
  <2> QED
    BY <2>1, <2>4 DEF TypeOK
<1> QED
  BY <1>1, Invariance, PTL

\* NeverBack of RuntimeConfig: only a reload that runs beside another one takes a global of
\* the orchestrator back to an older commit, as long as no import has exported while a
\* change was made; what a start puts back to a bootstrap file is a commit of its own.
THEOREM NeverGoesBack == Spec => NeverBack
<1> DEFINE Forward == \A p \in Parts :
                         \/ mem'[p] >= mem[p]
                         \/ disturbed
                         \/ \E t \in Tasks : reload[t].pc = "assign" /\ ~reload[t].alone
<1>1. Inv /\ [Next]_vars => [Forward]_vars
  <2> SUFFICES ASSUME Inv, Next PROVE Forward
    OBVIOUS
  <2>1. TypeOK
    BY DEF Inv
  <2>2. CASE UNCHANGED mem
    BY <2>1, <2>2 DEF TypeOK
  <2>3. ASSUME NEW t \in Tasks, AssignPart(t), ~disturbed, reload[t].alone PROVE Forward
    <3>1. reload[t].seen >= mem[reload[t].part]
      BY <2>3 DEF AssignPart, Inv, Clean, Carried
    <3> QED
      BY <2>1, <2>3, <3>1 DEF AssignPart, TypeOK
  <2>4. ASSUME NEW t \in Tasks, AssignPart(t), ~reload[t].alone PROVE Forward
    BY <2>4 DEF AssignPart
  <2>5. ASSUME Restart, ~disturbed PROVE Forward
    BY <2>1, <2>5 DEF Restart, Inv, Clean, Ordered
  <2>6. ASSUME disturbed PROVE Forward
    BY <2>6
  <2> QED
    BY <2>2, <2>3, <2>4, <2>5, <2>6
       DEF Next, Export, Ask, Import, Read, Open, Fill, Notify, GivesUp, Reply, Change, Crash, Start,
           Take, Sync, Seed, BeginReload, LoadPart
<1> QED
  BY <1>1, Invariance, PTL DEF Spec, NeverBack

-----------------------------------------------------------------------------
(* Users, sessions and keys *)

USE AccountsAssumption

Hashes == [of : Passwords, old : BOOLEAN]

Roles == DOMAIN RolePermissions

\* A handler knows the row i by this name: the row may be gone, and another
\* never takes its id.
Known(rows, top, i, name) ==
    i \in 1 .. top /\ name \in Names /\ (rows[i] # None => rows[i].name = name)

\* What the SELECT of a replacement returned.
ReadBefore(rows, top, existing) ==
    \A n \in DOMAIN existing :
       /\ Known(rows, top, existing[n].id, n)
       /\ existing[n].hash \in Hashes /\ existing[n].hash.of[1] = n

\* What a handler may be at.
Held(rows, top, tokens, h) ==
    /\ h.at \in {"idle", "rehash", "matched", "found", "admitted", "replacing", "created"}
    /\ h.at \in {"rehash", "matched"} =>
          Known(rows, top, h.id, h.name) /\ h.pw \in Passwords /\ h.pw[1] = h.name
    /\ h.at = "found" => Known(rows, top, h.id, h.name)
    /\ h.at = "admitted" /\ h.cookie # None => h.cookie \in Tokens /\ tokens[h.cookie] # None
    /\ h.at = "replacing" => h.list \in Lists /\ ReadBefore(rows, top, h.existing)

\* The inductive invariant: the tables and, for each handler, what it has read.
AccountsInv == AccountsTypeOK /\ OwnAccount /\ \A c \in Clients : Held(users, lastId, sessions, req[c])

\* No step makes a row another user's, gives out an id again or forgets a token.
Kept ==
    /\ lastId <= lastId'
    /\ \A i \in 1 .. lastId : users'[i] # None => users[i] # None /\ users'[i].name = users[i].name
    /\ \A t \in Tokens : sessions[t] # None => sessions'[t] # None

LEMMA IdsAre == AccountsTypeOK => lastId \in Nat /\ 1 .. lastId \subseteq Ids /\ Ids \subseteq Nat
  BY DEF AccountsTypeOK, Ids

LEMMA HeldStays ==
    ASSUME AccountsTypeOK, AccountsTypeOK', Kept, NEW h, Held(users, lastId, sessions, h)
    PROVE  Held(users', lastId', sessions', h)
  <1>1. \A i, name : Known(users, lastId, i, name) => Known(users', lastId', i, name)
    BY IdsAre DEF Known, Kept, AccountsTypeOK, Ids
  <1>2. \A existing : ReadBefore(users, lastId, existing) => ReadBefore(users', lastId', existing)
    BY <1>1 DEF ReadBefore
  <1>3. \A t \in Tokens : sessions[t] # None => sessions'[t] # None
    BY DEF Kept
  <1> QED
    BY <1>1, <1>2, <1>3 DEF Held

\* A step of one handler keeps the invariant when it keeps the tables' part.
LEMMA Onward ==
    ASSUME AccountsInv, AccountsTypeOK', OwnAccount', Kept, NEW c \in Clients, NEW h,
           req' = [req EXCEPT ![c] = h], Held(users', lastId', sessions', h)
    PROVE  AccountsInv'
  <1>1. DOMAIN req = Clients
    BY DEF AccountsInv, AccountsTypeOK
  <1>2. \A d \in Clients : d # c => Held(users', lastId', sessions', req[d])
    BY HeldStays DEF AccountsInv
  <1>3. \A d \in Clients : Held(users', lastId', sessions', req'[d])
    BY <1>1, <1>2
  <1> QED
    BY <1>3 DEF AccountsInv

\* Where neither users nor tokens change.
LEMMA TablesStay ==
    ASSUME AccountsInv, UNCHANGED <<users, lastId, sessions>>, DOMAIN req' = Clients
    PROVE  AccountsTypeOK' /\ OwnAccount' /\ Kept
  BY IdsAre DEF AccountsInv, AccountsTypeOK, OwnAccount, Kept, Rows

LEMMA IdleHeld == Held(users', lastId', sessions', NoRequest)
  BY DEF Held, NoRequest

LEMMA UsersAre ==
    ASSUME AccountsTypeOK, NEW i \in Ids, users[i] # None
    PROVE  /\ i \in 1 .. lastId /\ users[i] \in AccountRows
           /\ users[i].name \in Names /\ users[i].hash \in Hashes
           /\ users[i].hash.of \in Passwords
  <1>1. users[i] \in AccountRows
    BY DEF AccountsTypeOK
  <1>2. i \in 1 .. lastId
    BY DEF AccountsTypeOK, Ids
  <1> QED
    BY <1>1, <1>2 DEF AccountRows, Hashes

LEMMA AccountsInitInv == AccountsInit => AccountsInv
  <1> SUFFICES ASSUME AccountsInit PROVE AccountsInv
    OBVIOUS
  <1>1. PICK old \in BOOLEAN : users = [i \in Ids |-> IF i = 1
             THEN Account("admin", [of |-> <<"admin", 1>>, old |-> old], TRUE, {"admin"})
             ELSE None]
    BY DEF AccountsInit
  <1>2. 1 \in Ids /\ lastId = 1
    BY DEF AccountsInit, Ids
  <1>3. <<"admin", 1>> \in Passwords
    BY DEF Passwords
  <1>4. Account("admin", [of |-> <<"admin", 1>>, old |-> old], TRUE, {"admin"}) \in AccountRows
    BY <1>3 DEF Account, AccountRows, RolePermissions
  <1>5. AccountsTypeOK
    <2>1. users \in [Ids -> AccountRows \cup {None}]
      BY <1>1, <1>4
    <2>2. \A i \in Ids : i > lastId => users[i] = None
      <3>1. \A i \in Ids : i # 1 => users[i] = None
        BY <1>1
      <3>2. \A i \in Ids : i > 1 => i # 1
        BY DEF Ids
      <3> QED
        BY <3>1, <3>2, <1>2
    <2> QED
      BY <2>1, <2>2, <1>2 DEF AccountsInit, AccountsTypeOK
  <1>6. OwnAccount
    <2>1. \A i \in Rows : users[i].hash.of[1] = users[i].name
      <3> TAKE i \in Rows
      <3>1. i = 1
        BY <1>1 DEF Rows
      <3> QED
        BY <3>1, <1>1, <1>2 DEF Account
    <2>2. \A t \in Tokens : sessions[t] = None
      BY DEF AccountsInit
    <2> QED
      BY <2>1, <2>2 DEF OwnAccount
  <1>7. \A c \in Clients : Held(users, lastId, sessions, req[c])
    BY DEF AccountsInit, Held, NoRequest
  <1> QED
    BY <1>5, <1>6, <1>7 DEF AccountsInv

---------------------------------------------------------------------------
(* Login *)

LEMMA AuthenticateInv == ASSUME AccountsInv, NEW c \in Clients, AuthenticateUser(c) PROVE AccountsInv'
  <1>1. PICK i \in Rows, pw \in Passwords :
           /\ Verifies(pw, users[i].hash)
           /\ req' = [req EXCEPT ![c] =
                 [at |-> IF users[i].hash.old THEN "rehash" ELSE "matched",
                  id |-> i, name |-> users[i].name, pw |-> pw]]
    BY DEF AuthenticateUser
  <1> DEFINE h == [at |-> IF users[i].hash.old THEN "rehash" ELSE "matched",
                   id |-> i, name |-> users[i].name, pw |-> pw]
  <1>2. UNCHANGED <<users, lastId, sessions>> /\ DOMAIN req' = Clients
    BY <1>1 DEF AuthenticateUser, AccountsInv, AccountsTypeOK
  <1>3. AccountsTypeOK' /\ OwnAccount' /\ Kept
    BY <1>2, TablesStay
  <1>4. i \in 1 .. lastId /\ users[i].name \in Names
    BY <1>1, UsersAre DEF Rows, AccountsInv
  <1>5. pw[1] = users[i].name
    BY <1>1 DEF Verifies, AccountsInv, OwnAccount
  <1>6. Held(users', lastId', sessions', h)
    BY <1>2, <1>4, <1>5, <1>1 DEF Held, Known
  <1> HIDE DEF h
  <1>7. req' = [req EXCEPT ![c] = h]
    BY <1>1 DEF h
  <1> QED
    BY <1>3, <1>6, <1>7, Onward

LEMMA RehashInv == ASSUME AccountsInv, NEW c \in Clients, Rehash(c) PROVE AccountsInv'
  <1> DEFINE i == req[c].id
             h == [req[c] EXCEPT !.at = "matched"]
  <1>1. Known(users, lastId, i, req[c].name) /\ req[c].pw \in Passwords /\ req[c].pw[1] = req[c].name
    BY DEF AccountsInv, Held, Rehash
  <1>2. i \in Ids
    BY <1>1, IdsAre DEF Known, AccountsInv
  <1>3. users' = IF users[i] = None THEN users ELSE [users EXCEPT ![i].hash = Hash(req[c].pw)]
    BY DEF Rehash
  <1>4. UNCHANGED <<lastId, sessions>> /\ DOMAIN req' = Clients
    BY DEF Rehash, AccountsInv, AccountsTypeOK
  <1>5. /\ users' \in [Ids -> AccountRows \cup {None}]
        /\ \A j \in Ids : (users'[j] = None) = (users[j] = None)
        /\ \A j \in Ids : users[j] # None =>
              users'[j].name = users[j].name /\ users'[j].hash.of[1] = users[j].name
    <2>1. CASE users[i] = None
      BY <2>1, <1>3 DEF AccountsInv, AccountsTypeOK, OwnAccount, Rows
    <2>2. CASE users[i] # None
      <3>1. users[i] \in AccountRows /\ users[i].name = req[c].name
        BY <2>2, <1>1, <1>2, UsersAre DEF AccountsInv, Known
      <3>2. Hash(req[c].pw) \in Hashes /\ Hash(req[c].pw).of[1] = users[i].name
        BY <1>1, <3>1 DEF Hash, Hashes
      <3>3. users' = [users EXCEPT ![i] = [@ EXCEPT !.hash = Hash(req[c].pw)]]
        BY <1>3, <2>2
      <3> DEFINE row == [users[i] EXCEPT !.hash = Hash(req[c].pw)]
      <3>4. row \in AccountRows /\ row.name = users[i].name /\ row.hash.of[1] = users[i].name
        BY <3>1, <3>2 DEF AccountRows, Hashes
      <3>5. None \notin AccountRows
        BY NoneAssumption
      <3> HIDE DEF row
      <3>6. users' = [users EXCEPT ![i] = row]
        BY <3>3 DEF row
      <3> QED
        BY <3>4, <3>5, <3>6, <2>2, <1>2 DEF AccountsInv, AccountsTypeOK, OwnAccount, Rows
    <2> QED
      BY <2>1, <2>2
  <1>6. AccountsTypeOK'
    BY <1>4, <1>5 DEF AccountsInv, AccountsTypeOK
  <1>7. Kept
    BY <1>4, <1>5, IdsAre DEF AccountsInv, AccountsTypeOK, Kept
  <1>8. OwnAccount'
    <2>1. \A t \in Tokens : sessions[t] # None => sessions[t].user \in Ids
      BY DEF AccountsInv, AccountsTypeOK, SessionRows
    <2> QED
      BY <2>1, <1>4, <1>5 DEF AccountsInv, OwnAccount, Rows
  <1>9. Held(users, lastId, sessions, h)
    BY <1>1 DEF Held
  <1>10. Held(users', lastId', sessions', h)
    BY <1>6, <1>7, <1>9, HeldStays DEF AccountsInv
  <1>11. req' = [req EXCEPT ![c] = h]
    BY DEF Rehash, AccountsInv, AccountsTypeOK
  <1> HIDE DEF h
  <1> QED
    BY <1>6, <1>7, <1>8, <1>10, <1>11, Onward

LEMMA FindUserInv == ASSUME AccountsInv, NEW c \in Clients, FindUser(c) PROVE AccountsInv'
  <1>1. UNCHANGED <<users, lastId, sessions>> /\ DOMAIN req' = Clients
    BY DEF FindUser, AccountsInv, AccountsTypeOK
  <1>2. AccountsTypeOK' /\ OwnAccount' /\ Kept
    BY <1>1, TablesStay
  <1>3. CASE req' = [req EXCEPT ![c] = NoRequest]
    BY <1>2, <1>3, IdleHeld, Onward
  <1>4. CASE \E i \in Named(users, req[c].name) :
               req' = [req EXCEPT ![c] = [at |-> "found", id |-> i, name |-> req[c].name]]
    <2>1. PICK i \in Named(users, req[c].name) :
             req' = [req EXCEPT ![c] = [at |-> "found", id |-> i, name |-> req[c].name]]
      BY <1>4
    <2> DEFINE h == [at |-> "found", id |-> i, name |-> req[c].name]
    <2>2. i \in 1 .. lastId /\ users[i].name = req[c].name /\ users[i].name \in Names
      BY <2>1, UsersAre DEF Named, AccountsInv
    <2>3. Held(users', lastId', sessions', h)
      BY <1>1, <2>2 DEF Held, Known
    <2> HIDE DEF h
    <2>4. req' = [req EXCEPT ![c] = h]
      BY <2>1 DEF h
    <2> QED
      BY <1>2, <2>3, <2>4, Onward
  <1>5. DOMAIN req = Clients
    BY DEF AccountsInv, AccountsTypeOK
  <1> QED
    BY <1>3, <1>4, <1>5 DEF FindUser

LEMMA OpenSessionInv == ASSUME AccountsInv, NEW c \in Clients, OpenSession(c) PROVE AccountsInv'
  <1>1. /\ req[c].at = "found" /\ Known(users, lastId, req[c].id, req[c].name)
        /\ UNCHANGED <<users, lastId>> /\ req' = [req EXCEPT ![c] = NoRequest]
        /\ DOMAIN req' = Clients
    BY DEF OpenSession, AccountsInv, Held, AccountsTypeOK
  <1>2. CASE UNCHANGED sessions
    BY <1>1, <1>2, TablesStay, IdleHeld, Onward
  <1>3. CASE users[req[c].id] # None /\ ~ UNCHANGED sessions
    <2> DEFINE row == [user |-> req[c].id, login |-> req[c].name, state |-> "open"]
    <2>1. PICK t \in Tokens : sessions' = [sessions EXCEPT ![t] = row]
      BY <1>3 DEF OpenSession
    <2>2. row \in SessionRows /\ users[row.user] # None /\ users[row.user].name = row.login
      BY <1>1, <1>3, IdsAre DEF Known, SessionRows, AccountsInv
    <2> HIDE DEF row
    <2>3. AccountsTypeOK'
      BY <1>1, <2>1, <2>2 DEF AccountsInv, AccountsTypeOK
    <2>4. OwnAccount'
      BY <1>1, <2>1, <2>2 DEF AccountsInv, AccountsTypeOK, OwnAccount, Rows
    <2>5. None \notin SessionRows
      BY NoneAssumption
    <2>6. Kept
      BY <1>1, <2>1, <2>2, <2>5, IdsAre DEF AccountsInv, AccountsTypeOK, Kept
    <2> QED
      BY <1>1, <2>3, <2>4, <2>6, IdleHeld, Onward
  <1> QED
    BY <1>2, <1>3 DEF OpenSession

\* A session that is there gets another state, and is deleted or was not.
LEMMA StateOfSession ==
    ASSUME AccountsInv, NEW t \in Tokens, sessions[t] # None, NEW state \in {"expired", "deleted"},
           state = "deleted" \/ sessions[t].state # "deleted",
           sessions' = [sessions EXCEPT ![t].state = state],
           UNCHANGED <<users, lastId>>, DOMAIN req' = Clients
    PROVE  AccountsTypeOK' /\ OwnAccount' /\ Kept
  <1> DEFINE row == [sessions[t] EXCEPT !.state = state]
  <1>1. row \in SessionRows /\ row.user = sessions[t].user /\ row.login = sessions[t].login
        /\ row.state = state
    <2>1. sessions[t] \in SessionRows
      BY DEF AccountsInv, AccountsTypeOK
    <2> QED
      BY <2>1 DEF SessionRows
  <1>2. sessions' = [sessions EXCEPT ![t] = row]
    OBVIOUS
  <1> HIDE DEF row
  <1>3. None \notin SessionRows
    BY NoneAssumption
  <1>4. AccountsTypeOK'
    BY <1>1, <1>2 DEF AccountsInv, AccountsTypeOK
  <1>5. OwnAccount'
    BY <1>1, <1>2 DEF AccountsInv, AccountsTypeOK, OwnAccount, Rows
  <1>6. Kept
    BY <1>1, <1>2, <1>3, IdsAre DEF AccountsInv, AccountsTypeOK, Kept
  <1> QED
    BY <1>4, <1>5, <1>6

LEMMA ExpireInv == ASSUME AccountsInv, NEW t \in Tokens, Expire(t) PROVE AccountsInv'
  <1>1. AccountsTypeOK' /\ OwnAccount' /\ Kept /\ req' = req
    BY StateOfSession DEF Expire, AccountsInv, AccountsTypeOK
  <1>2. \A c \in Clients : Held(users', lastId', sessions', req[c])
    BY <1>1, HeldStays DEF AccountsInv
  <1> QED
    BY <1>1, <1>2 DEF AccountsInv

---------------------------------------------------------------------------
(* Requests that are admitted, and keys *)

LEMMA CookieInv == ASSUME AccountsInv, NEW c \in Clients, CookieRequest(c) PROVE AccountsInv'
  <1>1. PICK t \in Tokens :
          /\ sessions[t] # None
          /\ \/ /\ req' = [req EXCEPT ![c] = Admitted(Permissions(users[sessions[t].user]), t)]
                /\ UNCHANGED sessions
             \/ /\ sessions' = Ended(t)
                /\ UNCHANGED req
    BY DEF CookieRequest
  <1>2. UNCHANGED <<users, lastId>> /\ DOMAIN req' = Clients
    BY DEF CookieRequest, AccountsInv, AccountsTypeOK
  <1>3. CASE /\ req' = [req EXCEPT ![c] = Admitted(Permissions(users[sessions[t].user]), t)]
             /\ UNCHANGED sessions
    <2> DEFINE h == Admitted(Permissions(users[sessions[t].user]), t)
    <2>1. Held(users', lastId', sessions', h)
      BY <1>1, <1>3 DEF Held, Admitted
    <2>2. req' = [req EXCEPT ![c] = h]
      BY <1>3
    <2> HIDE DEF h
    <2> QED
      BY <1>2, <1>3, <2>1, <2>2, TablesStay, Onward
  <1>4. CASE sessions' = Ended(t) /\ UNCHANGED req
    <2>1. AccountsTypeOK' /\ OwnAccount' /\ Kept
      BY <1>1, <1>2, <1>4, StateOfSession DEF Ended
    <2>2. \A d \in Clients : Held(users', lastId', sessions', req[d])
      BY <2>1, HeldStays DEF AccountsInv
    <2> QED
      BY <1>4, <2>1, <2>2 DEF AccountsInv
  <1> QED
    BY <1>1, <1>3, <1>4

LEMMA BearerInv == ASSUME AccountsInv, NEW c \in Clients, BearerRequest(c) PROVE AccountsInv'
  <1>1. PICK k \in KeyIds, t \in {s \in Tokens : sessions[s] # None} \cup {None} :
          req' = [req EXCEPT ![c] = Admitted(keys[k].scopes, t)]
    BY DEF BearerRequest
  <1>2. UNCHANGED <<users, lastId, sessions>> /\ DOMAIN req' = Clients
    BY <1>1 DEF BearerRequest, AccountsInv, AccountsTypeOK
  <1> DEFINE h == Admitted(keys[k].scopes, t)
  <1>3. Held(users', lastId', sessions', h)
    BY <1>1, <1>2 DEF Held, Admitted
  <1>4. req' = [req EXCEPT ![c] = h]
    BY <1>1
  <1> HIDE DEF h
  <1> QED
    BY <1>2, <1>3, <1>4, TablesStay, Onward

LEMMA LogoutInv == ASSUME AccountsInv, NEW c \in Clients, Logout(c) PROVE AccountsInv'
  <1>1. /\ req[c].cookie \in Tokens /\ sessions[req[c].cookie] # None
        /\ sessions' = [sessions EXCEPT ![req[c].cookie].state = "deleted"]
        /\ UNCHANGED <<users, lastId>> /\ req' = [req EXCEPT ![c] = NoRequest]
        /\ DOMAIN req' = Clients
    BY DEF Logout, Ended, AccountsInv, Held, AccountsTypeOK
  <1>2. AccountsTypeOK' /\ OwnAccount' /\ Kept
    BY <1>1, StateOfSession
  <1> QED
    BY <1>1, <1>2, IdleHeld, Onward

\* A handler that ends without a write to users or sessions.
LEMMA EndsInv ==
    ASSUME AccountsInv, NEW c \in Clients, req' = [req EXCEPT ![c] = NoRequest],
           UNCHANGED <<users, lastId, sessions>>
    PROVE  AccountsInv'
  <1>1. DOMAIN req' = Clients
    BY DEF AccountsInv, AccountsTypeOK
  <1> QED
    BY <1>1, TablesStay, IdleHeld, Onward

LEMMA KeysInv ==
    ASSUME AccountsInv, NEW c \in Clients, CreateApiKey(c) \/ AnswerKey(c) \/ RevokeApiKey(c) \/ AnswerOnly(c)
    PROVE  AccountsInv'
  <1>1. CASE AnswerKey(c) \/ RevokeApiKey(c) \/ AnswerOnly(c)
    BY <1>1, EndsInv DEF AnswerKey, RevokeApiKey, AnswerOnly
  <1>2. CASE CreateApiKey(c)
    <2>1. PICK k \in KeyIds : req' = [req EXCEPT ![c] = [at |-> "created", key |-> k]]
      BY <1>2 DEF CreateApiKey
    <2>2. UNCHANGED <<users, lastId, sessions>> /\ DOMAIN req' = Clients
      BY <1>2, <2>1 DEF CreateApiKey, AccountsInv, AccountsTypeOK
    <2>3. Held(users', lastId', sessions', [at |-> "created", key |-> k])
      BY DEF Held
    <2> QED
      BY <2>1, <2>2, <2>3, TablesStay, Onward
  <1> QED
    BY <1>1, <1>2

LEMMA ReadUsersInv == ASSUME AccountsInv, NEW c \in Clients, ReadUsers(c) PROVE AccountsInv'
  <1> DEFINE Before == [n \in {users[i].name : i \in Rows} |->
                 LET i == CHOOSE j \in Named(users, n) : TRUE
                 IN  [id |-> i, hash |-> users[i].hash]]
  <1>1. PICK list \in Lists :
          req' = [req EXCEPT ![c] = [at |-> "replacing", list |-> list, existing |-> Before]]
    BY DEF ReadUsers
  <1>2. UNCHANGED <<users, lastId, sessions>> /\ DOMAIN req' = Clients
    BY <1>1 DEF ReadUsers, AccountsInv, AccountsTypeOK
  <1>3. ASSUME NEW n \in DOMAIN Before
        PROVE  /\ Known(users, lastId, Before[n].id, n)
               /\ Before[n].hash \in Hashes /\ Before[n].hash.of[1] = n
    <2> DEFINE i == CHOOSE j \in Named(users, n) : TRUE
    <2>1. Named(users, n) # {}
      BY <1>3 DEF Named, Rows
    <2>2. i \in Named(users, n)
      BY <2>1
    <2>3. Before[n] = [id |-> i, hash |-> users[i].hash]
      OBVIOUS
    <2> HIDE DEF i, Before
    <2>4. i \in Ids /\ users[i] # None /\ users[i].name = n
      BY <2>2 DEF Named
    <2>5. i \in 1 .. lastId /\ n \in Names /\ users[i].hash \in Hashes
      BY <2>4, UsersAre DEF AccountsInv
    <2>6. users[i].hash.of[1] = n
      BY <2>4 DEF AccountsInv, OwnAccount, Rows
    <2> QED
      BY <2>3, <2>4, <2>5, <2>6 DEF Known
  <1> HIDE DEF Before
  <1>4. ReadBefore(users', lastId', Before)
    BY <1>2, <1>3 DEF ReadBefore
  <1> DEFINE h == [at |-> "replacing", list |-> list, existing |-> Before]
  <1>5. Held(users', lastId', sessions', h)
    BY <1>1, <1>4 DEF Held
  <1>6. req' = [req EXCEPT ![c] = h]
    BY <1>1
  <1> HIDE DEF h
  <1> QED
    BY <1>2, <1>5, <1>6, TablesStay, Onward

LEMMA RestartInv == ASSUME AccountsInv, HostRestart PROVE AccountsInv'
  <1>1. req' = [c \in Clients |-> NoRequest] /\ UNCHANGED sessions
    BY DEF HostRestart
  <1>2. \A c \in Clients : Held(users', lastId', sessions', req'[c])
    BY <1>1, IdleHeld
  <1>3. CASE UNCHANGED <<users, lastId>>
    BY <1>1, <1>2, <1>3, TablesStay DEF AccountsInv
  <1>4. CASE Rows = {} /\ ~ UNCHANGED <<users, lastId>>
    <2> DEFINE row == Account("admin", Hash(<<"admin", 1>>), TRUE, {"admin"})
    <2>1. /\ lastId < MaxIds /\ lastId' = lastId + 1
          /\ users' = [users EXCEPT ![lastId + 1] = row]
      BY <1>4 DEF HostRestart, FreshUserId
    <2>2. row \in AccountRows /\ row.hash.of[1] = row.name
      <3>1. <<"admin", 1>> \in Passwords
        BY DEF Passwords
      <3> QED
        BY <3>1 DEF Account, Hash, AccountRows, RolePermissions
    <2> HIDE DEF row
    <2>3. \A i \in Ids : users[i] = None
      BY <1>4 DEF Rows
    <2>4. lastId \in Nat /\ lastId + 1 \in Ids
      BY <2>1, IdsAre DEF AccountsInv, AccountsTypeOK, Ids
    <2>5. AccountsTypeOK'
      BY <1>1, <2>1, <2>2, <2>3, <2>4 DEF AccountsInv, AccountsTypeOK, Ids
    <2>6. Kept
      BY <1>1, <2>1, <2>3, <2>4, IdsAre DEF AccountsInv, AccountsTypeOK, Kept
    <2>7. OwnAccount'
      <3>1. \A t \in Tokens : sessions[t] # None => sessions[t].state = "deleted"
        BY <2>3 DEF AccountsInv, OwnAccount, AccountsTypeOK, SessionRows
      <3>2. \A i \in Ids : users'[i] # None => users'[i] = row
        BY <2>1, <2>3, <2>4 DEF AccountsInv, AccountsTypeOK
      <3> QED
        BY <1>1, <2>2, <3>1, <3>2 DEF OwnAccount, Rows
    <2> QED
      BY <1>2, <2>5, <2>7 DEF AccountsInv
  <1> QED
    BY <1>3, <1>4 DEF HostRestart

---------------------------------------------------------------------------
(* The writes of a replacement *)

Tables == [rows : [Ids -> AccountRows \cup {None}], last : Nat, failed : BOOLEAN]

\* What a connection may have written, whatever items it has gone through: the
\* rows it found keep their names, and the ids above them are new.
Drafts ==
    {draft \in Tables :
       /\ lastId <= draft.last
       /\ \A i \in Ids : i > draft.last => draft.rows[i] = None
       /\ \A i \in 1 .. lastId :
             /\ draft.rows[i] = None <=> users[i] = None
             /\ draft.rows[i] # None => draft.rows[i].name = users[i].name
       /\ \A i \in Ids : draft.rows[i] # None => draft.rows[i].hash.of[1] = draft.rows[i].name}

OwnItems == {item \in Items : item.password # None => item.password[1] = item.name}

LEMMA Untouched ==
    ASSUME AccountsInv
    PROVE  [rows |-> users, last |-> lastId, failed |-> FALSE] \in Drafts
  <1> DEFINE draft == [rows |-> users, last |-> lastId, failed |-> FALSE]
  <1>1. draft \in Tables
    BY IdsAre DEF AccountsInv, AccountsTypeOK, Tables
  <1>2. /\ \A i \in Ids : i > lastId => users[i] = None
        /\ \A i \in Ids : users[i] # None => users[i].hash.of[1] = users[i].name
    BY DEF AccountsInv, AccountsTypeOK, OwnAccount, Rows
  <1>3. draft.rows = users /\ draft.last = lastId /\ lastId \in Nat
    BY IdsAre DEF AccountsInv
  <1>4. \A i \in 1 .. lastId : draft.rows[i] = users[i]
    BY <1>3
  <1> HIDE DEF draft
  <1>5. draft \in Drafts
    BY <1>1, <1>2, <1>3, <1>4 DEF Drafts
  <1> QED
    BY <1>5 DEF draft

\* One row of a draft is written: a new one, or one with the name it has.
LEMMA RowWritten ==
    ASSUME AccountsInv, NEW draft \in Drafts, NEW i \in Ids, NEW row \in AccountRows,
           row.hash.of[1] = row.name, NEW top \in Nat, NEW failed \in BOOLEAN,
           \/ draft.rows[i] # None /\ row.name = draft.rows[i].name /\ top = draft.last
           \/ i = draft.last + 1 /\ top = draft.last + 1
    PROVE  [rows |-> [draft.rows EXCEPT ![i] = row], last |-> top, failed |-> failed] \in Drafts
  <1> DEFINE rows == [draft.rows EXCEPT ![i] = row]
             new == [rows |-> rows, last |-> top, failed |-> failed]
  <1>1. /\ draft.rows \in [Ids -> AccountRows \cup {None}] /\ draft.last \in Nat /\ lastId <= draft.last
        /\ \A j \in Ids : j > draft.last => draft.rows[j] = None
    BY DEF Drafts, Tables
  <1>2. None \notin AccountRows
    BY NoneAssumption
  <1>3. \A j \in Ids : j \in Nat
    BY DEF Ids
  <1>4. rows \in [Ids -> AccountRows \cup {None}] /\ lastId \in Nat /\ 1 .. lastId \subseteq Ids
    BY <1>1, IdsAre DEF AccountsInv
  <1>5. lastId <= top /\ \A j \in Ids : j > top => rows[j] = None
    BY <1>1, <1>3, <1>4
  <1>6. \A j \in 1 .. lastId :
           /\ rows[j] = None <=> users[j] = None
           /\ rows[j] # None => rows[j].name = users[j].name
    BY <1>1, <1>2, <1>4 DEF Drafts
  <1>7. \A j \in Ids : rows[j] # None => rows[j].hash.of[1] = rows[j].name
    BY <1>1 DEF Drafts
  <1>8. new \in Tables
    BY <1>4 DEF Tables
  <1> HIDE DEF rows
  <1>9. new \in Drafts
    BY <1>5, <1>6, <1>7, <1>8 DEF Drafts
  <1> QED
    BY <1>9 DEF rows

LEMMA RowOfTables ==
    ASSUME NEW draft \in Tables, NEW i, NEW row
    PROVE  [draft EXCEPT !.rows[i] = row]
             = [rows |-> [draft.rows EXCEPT ![i] = row], last |-> draft.last, failed |-> draft.failed]
  <1>1. PICK r, l, f : draft = [rows |-> r, last |-> l, failed |-> f]
    BY DEF Tables
  <1>2. draft.rows = r /\ draft.last = l /\ draft.failed = f
    BY <1>1
  <1>3. [draft EXCEPT !.rows[i] = row] = [rows |-> [r EXCEPT ![i] = row], last |-> l, failed |-> f]
    BY <1>1
  <1> QED
    BY <1>2, <1>3

LEMMA FailedDraft ==
    ASSUME NEW draft \in Drafts, NEW failed \in BOOLEAN
    PROVE  [draft EXCEPT !.failed = failed] \in Drafts
  BY DEF Drafts, Tables

\* What the two statements write into the row of an item.
LEMMA ItemRow ==
    ASSUME NEW item \in OwnItems, NEW name \in Names, item.name = name,
           item.roles \subseteq Roles, NEW hash \in Hashes, hash.of[1] = name
    PROVE  LET set == IF item.password = None THEN hash ELSE Hash(item.password)
               row == Account(name, set, item.active, item.roles)
           IN  row \in AccountRows /\ row.hash.of[1] = row.name
  <1>1. item.password # None => Hash(item.password) \in Hashes /\ Hash(item.password).of[1] = name
    BY DEF OwnItems, Items, Hash, Hashes
  <1>2. item.active \in BOOLEAN /\ item.roles \in SUBSET Roles
    BY DEF OwnItems, Items
  <1> QED
    BY <1>1, <1>2 DEF Account, AccountRows, Hashes, Roles

LEMMA WriteUserDraft ==
    ASSUME AccountsInv, NEW existing, ReadBefore(users, lastId, existing),
           NEW draft \in Drafts, NEW item \in OwnItems
    PROVE  WriteUser(existing, item, draft) \in Drafts
  <1> DEFINE Named2 == Named(draft.rows, item.name)
  <1>1. CASE draft.failed \/ item.name = "" \/ ~(item.roles \subseteq Roles)
    BY <1>1, FailedDraft DEF WriteUser, Roles
  <1>2. CASE ~ draft.failed /\ item.name # "" /\ item.roles \subseteq Roles /\ item.name \in DOMAIN existing
    <2> DEFINE read == existing[item.name]
               hash == IF item.password = None THEN read.hash ELSE Hash(item.password)
    <2>1. WriteUser(existing, item, draft) = Update(item, read, draft)
      BY <1>2 DEF WriteUser, Roles
    <2>2. /\ Known(users, lastId, read.id, item.name)
          /\ read.hash \in Hashes /\ read.hash.of[1] = item.name
      BY <1>2 DEF ReadBefore
    <2>3. read.id \in Ids /\ read.id \in 1 .. lastId /\ item.name \in Names
      BY <2>2, IdsAre DEF Known, AccountsInv
    <2>4. CASE draft.rows[read.id] = None
      BY <2>1, <2>4, FailedDraft DEF Update
    <2>5. CASE draft.rows[read.id] # None
      <3>1. draft.rows[read.id].name = item.name
        BY <2>2, <2>3, <2>5 DEF Drafts, Known
      <3> DEFINE row == Account(item.name, hash, item.active, item.roles)
      <3>2. row \in AccountRows /\ row.hash.of[1] = row.name /\ row.name = item.name
        BY <1>2, <2>2, <2>3, ItemRow DEF Account
      <3>3. draft.last \in Nat /\ draft \in Tables /\ draft.failed \in BOOLEAN
        BY DEF Drafts, Tables
      <3>4. Update(item, read, draft) = [draft EXCEPT !.rows[read.id] = row]
        BY <2>5, <3>1 DEF Update
      <3> HIDE DEF row, read
      <3>5. [rows |-> [draft.rows EXCEPT ![read.id] = row], last |-> draft.last, failed |-> draft.failed] \in Drafts
        BY <2>3, <2>5, <3>1, <3>2, <3>3, RowWritten
      <3>6. [draft EXCEPT !.rows[read.id] = row]
              = [rows |-> [draft.rows EXCEPT ![read.id] = row], last |-> draft.last, failed |-> draft.failed]
        BY <3>3, RowOfTables
      <3> QED
        BY <2>1, <3>4, <3>5, <3>6
    <2> QED
      BY <2>4, <2>5
  <1>3. CASE ~ draft.failed /\ item.name # "" /\ item.roles \subseteq Roles /\ item.name \notin DOMAIN existing
    <2>1. WriteUser(existing, item, draft) = Insert(item, draft)
      BY <1>3 DEF WriteUser, Roles
    <2>2. CASE item.password = None \/ Named(draft.rows, item.name) # {}
      BY <2>1, <2>2, FailedDraft DEF Insert
    <2>3. CASE item.password # None /\ Named(draft.rows, item.name) = {}
      <3> DEFINE row == Account(item.name, Hash(item.password), item.active, item.roles)
                 id == draft.last + 1
      <3>1. Insert(item, draft) = [rows |-> [draft.rows EXCEPT ![id] = row], last |-> id, failed |-> FALSE]
        BY <2>3 DEF Insert, FreshUserId
      <3>2. item.name \in Names /\ Hash(item.password) \in Hashes /\ Hash(item.password).of[1] = item.name
        BY <1>3, <2>3 DEF OwnItems, Items, Hash, Hashes
      <3>3. row \in AccountRows /\ row.hash.of[1] = row.name
        BY <1>3, <2>3, <3>2, ItemRow
      <3>4. draft \in Tables /\ draft.last \in Nat /\ draft.rows \in [Ids -> AccountRows \cup {None}]
        BY DEF Drafts, Tables
      <3> HIDE DEF row
      <3>5. CASE id \in Ids
        <4>1. \A f \in BOOLEAN :
                 [rows |-> [draft.rows EXCEPT ![id] = row], last |-> id, failed |-> f] \in Drafts
          <5> TAKE f \in BOOLEAN
          <5>1. id = draft.last + 1 /\ id \in Nat
            BY <3>4
          <5> HIDE DEF id
          <5> QED
            BY <3>3, <3>5, <5>1, RowWritten
        <4>2. FALSE \in BOOLEAN
          OBVIOUS
        <4> HIDE DEF id
        <4> QED
          BY <2>1, <3>1, <4>1, <4>2, Zenon
      <3>6. CASE id \notin Ids
        <4>1. [draft.rows EXCEPT ![id] = row] = draft.rows
          BY <3>4, <3>6
        <4>2. [rows |-> draft.rows, last |-> id, failed |-> FALSE] \in Drafts
          <5>1. /\ lastId <= draft.last /\ lastId \in Nat
                /\ \A i \in Ids : i > draft.last => draft.rows[i] = None
            BY IdsAre DEF Drafts, AccountsInv
          <5>2. lastId <= id /\ \A i \in Ids : i > id => draft.rows[i] = None
            BY <3>4, <5>1 DEF Ids
          <5>3. [rows |-> draft.rows, last |-> id, failed |-> FALSE] \in Tables
            BY <3>4 DEF Tables
          <5> HIDE DEF id
          <5> QED
            BY <5>2, <5>3 DEF Drafts
        <4> QED
          BY <2>1, <3>1, <4>1, <4>2
      <3> QED
        BY <3>5, <3>6
    <2> QED
      BY <2>2, <2>3
  <1> QED
    BY <1>1, <1>2, <1>3

Unwritten == [rows |-> users, last |-> lastId, failed |-> FALSE]

WrittenBy(existing, list) ==
    FoldLeft(LAMBDA draft, item : WriteUser(existing, item, draft), Unwritten, list)

\* The fold over the list goes through drafts, one item at a time.
LEMMA WrittenPath ==
    ASSUME AccountsInv, NEW existing, ReadBefore(users, lastId, existing), NEW list \in Lists
    PROVE  \E h \in [0 .. Len(list) -> Drafts] :
              /\ h[0] = Unwritten /\ h[Len(list)] = WrittenBy(existing, list)
              /\ \A k \in 1 .. Len(list) : h[k] = WriteUser(existing, list[k], h[k - 1])
  <1> DEFINE n == Len(list)
             op == [draft \in Drafts |-> [item \in OwnItems |-> WriteUser(existing, item, draft)]]
             Q(it) == it = [s \in SUBSET DOMAIN list |->
                              IF s = {} THEN Unwritten
                              ELSE WriteUser(existing, list[Max(s)], it[s \ {Max(s)}])]
             it == CHOOSE f : Q(f)
  <1>1. n \in Nat /\ DOMAIN list = 1 .. n /\ list \in [1 .. n -> OwnItems]
    <2>1. list \in Seq(Items) /\ \A k \in DOMAIN list :
             list[k].password # None => list[k].password[1] = list[k].name
      BY ListsAssumption
    <2> QED
      BY <2>1 DEF OwnItems
  <1>2. op \in [Drafts -> [OwnItems -> Drafts]]
    BY WriteUserDraft
  <1>3. Unwritten \in Drafts
    BY Untouched DEF Unwritten
  <1>4. \E f : Q(f)
    <2>1. PICK f \in [SUBSET (1 .. n) -> Drafts] : FoldTable(Unwritten, op, list, f, n)
      <3> HIDE DEF op, n
      <3> QED
        BY <1>1, <1>2, <1>3, FoldTableExists
    <2>2. \A s \in SUBSET (1 .. n) :
             f[s] = IF s = {} THEN Unwritten ELSE op[f[s \ {Max(s)}]][list[Max(s)]]
      BY <2>1 DEF FoldTable
    <2>3. \A s \in SUBSET (1 .. n) : s # {} =>
             op[f[s \ {Max(s)}]][list[Max(s)]] = WriteUser(existing, list[Max(s)], f[s \ {Max(s)}])
      <3> TAKE s \in SUBSET (1 .. n)
      <3> HAVE s # {}
      <3>1. Max(s) \in s
        BY <1>1, MaxUpTo
      <3>2. list[Max(s)] \in OwnItems /\ f[s \ {Max(s)}] \in Drafts
        BY <1>1, <2>1, <3>1
      <3> QED
        BY <3>2
    <2>4. f = [s \in SUBSET (1 .. n) |->
                 IF s = {} THEN Unwritten
                 ELSE WriteUser(existing, list[Max(s)], f[s \ {Max(s)}])]
      <3> HIDE DEF op
      <3>1. f = [s \in SUBSET (1 .. n) |-> f[s]]
        BY <2>1
      <3> QED
        BY <2>2, <2>3, <3>1
    <2> QED
      BY <1>1, <2>4
  <1>5. Q(it)
    <2> HIDE DEF Q
    <2> QED
      BY <1>4, Zenon
  <1>6. it = [s \in SUBSET (1 .. n) |->
                 IF s = {} THEN Unwritten
                 ELSE WriteUser(existing, list[Max(s)], it[s \ {Max(s)}])]
    <2> HIDE DEF it
    <2> QED
      BY <1>1, <1>5
  <1>7. WrittenBy(existing, list) = it[1 .. n]
    <2>1. WrittenBy(existing, list) = it[DOMAIN list]
      BY Zenon DEF WrittenBy, FoldLeft, MapThenFoldSet
    <2> HIDE DEF it, n
    <2> QED
      BY <1>1, <2>1
  <1> HIDE DEF it
  <1>8. it[{}] = Unwritten
    BY <1>6
  <1>9. \A k \in 1 .. n : it[1 .. k] = WriteUser(existing, list[k], it[1 .. k - 1])
    <2> TAKE k \in 1 .. n
    <2>1. k \in Nat /\ k > 0 /\ n \in Nat
      BY <1>1
    <2>2. Max(1 .. k) = k /\ (1 .. k) \ {Max(1 .. k)} = 1 .. k - 1
      BY <2>1, MaxOfRange
    <2> HIDE DEF n
    <2>3. 1 .. k \in SUBSET (1 .. n) /\ 1 .. k # {}
      <3>1. \A j \in 1 .. k : j \in 1 .. n
        BY <2>1
      <3>2. k \in 1 .. k
        BY <2>1
      <3> QED
        BY <3>1, <3>2
    <2> QED
      BY <1>6, <2>2, <2>3
  <1>10. FoldSteps(Drafts, op, list, it, n)
    BY <1>1, <1>9 DEF FoldSteps
  <1>11. PICK h \in [0 .. n -> Drafts] : FoldRun(Unwritten, op, list, it, h, n)
    <2> HIDE DEF op, n
    <2> QED
      BY <1>1, <1>2, <1>3, <1>8, <1>10, FoldPath
  <1>12. \A k \in 1 .. n : h[k] = WriteUser(existing, list[k], h[k - 1])
    <2> TAKE k \in 1 .. n
    <2>1. k - 1 \in 0 .. n /\ list[k] \in OwnItems
      BY <1>1
    <2>2. h[k - 1] \in Drafts
      BY <1>11, <2>1
    <2> QED
      BY <1>11, <2>1, <2>2 DEF FoldRun
  <1> QED
    BY <1>7, <1>11, <1>12 DEF FoldRun

\* A row is as its item says.
Says(item, row) ==
    /\ row.name = item.name /\ row.active = item.active /\ row.roles = item.roles
    /\ item.password # None => Verifies(item.password, row.hash)

\* What one item does when the connection has not failed.
LEMMA WriteUserEffect ==
    ASSUME AccountsInv, NEW existing, ReadBefore(users, lastId, existing),
           NEW draft \in Drafts, NEW item \in OwnItems, ~ WriteUser(existing, item, draft).failed
    PROVE  LET new == WriteUser(existing, item, draft) IN
           /\ ~ draft.failed
           /\ new.last \in {draft.last, draft.last + 1}
           /\ \A i \in Ids : draft.rows[i] # None /\ draft.rows[i].name # item.name =>
                 new.rows[i] = draft.rows[i]
           /\ item.roles # {} /\ draft.last < MaxIds =>
                 \E i \in Ids : new.rows[i] # None /\ Says(item, new.rows[i])
  <1> DEFINE new == WriteUser(existing, item, draft)
  <1>1. draft \in Tables /\ draft.last \in Nat /\ draft.rows \in [Ids -> AccountRows \cup {None}]
        /\ draft.failed \in BOOLEAN
    BY DEF Drafts, Tables
  <1>2. ~ (draft.failed \/ item.name = "" \/ ~(item.roles \subseteq Roles))
    <2> SUFFICES ASSUME draft.failed \/ item.name = "" \/ ~(item.roles \subseteq Roles) PROVE FALSE
      OBVIOUS
    <2>1. new = [draft EXCEPT !.failed = TRUE]
      BY DEF WriteUser, Roles
    <2>2. [draft EXCEPT !.failed = TRUE].failed
      BY <1>1 DEF Tables
    <2> QED
      BY <2>1, <2>2
  <1>3. None \notin AccountRows
    BY NoneAssumption
  <1>4. CASE item.name \in DOMAIN existing
    <2> DEFINE read == existing[item.name]
               hash == IF item.password = None THEN read.hash ELSE Hash(item.password)
               row == Account(item.name, hash, item.active, item.roles)
    <2>1. new = Update(item, read, draft)
      BY <1>2, <1>4 DEF WriteUser, Roles
    <2>2. /\ Known(users, lastId, read.id, item.name)
          /\ read.hash \in Hashes /\ read.hash.of[1] = item.name
      BY <1>4 DEF ReadBefore
    <2>3. read.id \in Ids /\ read.id \in 1 .. lastId /\ item.name \in Names
      BY <2>2, IdsAre DEF Known, AccountsInv
    <2> HIDE DEF read
    <2>4. CASE draft.rows[read.id] = None
      <3>1. new = [draft EXCEPT !.failed = item.roles # {}]
        BY <2>1, <2>4 DEF Update
      <3>2. item.roles = {}
        <4>1. [draft EXCEPT !.failed = item.roles # {}].failed = (item.roles # {})
          BY <1>1 DEF Tables
        <4> QED
          BY <3>1, <4>1
      <3>3. new.last = draft.last /\ new.rows = draft.rows
        BY <1>1, <3>1 DEF Tables
      <3> QED
        BY <1>2, <3>2, <3>3
    <2>5. CASE draft.rows[read.id] # None
      <3>1. draft.rows[read.id].name = item.name
        BY <2>2, <2>3, <2>5 DEF Drafts, Known
      <3>2. new = [draft EXCEPT !.rows[read.id] = row]
        BY <2>1, <2>5, <3>1 DEF Update
      <3> HIDE DEF row
      <3>3. new = [rows |-> [draft.rows EXCEPT ![read.id] = row], last |-> draft.last, failed |-> draft.failed]
        BY <1>1, <3>2, RowOfTables
      <3>4. new.last = draft.last /\ new.rows = [draft.rows EXCEPT ![read.id] = row]
        BY <3>3
      <3>5. row \in AccountRows /\ Says(item, row)
        BY <1>2, <2>2, <2>3, ItemRow DEF Says, Account, Verifies, Hash, row
      <3>6. \E i \in Ids : new.rows[i] # None /\ Says(item, new.rows[i])
        BY <1>1, <1>3, <2>3, <3>4, <3>5
      <3>7. \A i \in Ids : draft.rows[i] # None /\ draft.rows[i].name # item.name =>
               new.rows[i] = draft.rows[i]
        BY <1>1, <3>1, <3>4
      <3>8. new.last \in {draft.last, draft.last + 1}
        BY <3>4
      <3> HIDE DEF new
      <3> QED
        BY <1>2, <3>6, <3>7, <3>8, Zenon DEF new
    <2> QED
      BY <2>4, <2>5
  <1>5. CASE item.name \notin DOMAIN existing
    <2> DEFINE row == Account(item.name, Hash(item.password), item.active, item.roles)
               id == draft.last + 1
    <2>1. new = Insert(item, draft)
      BY <1>2, <1>5 DEF WriteUser, Roles
    <2>2. item.password # None /\ Named(draft.rows, item.name) = {}
      <3>1. [draft EXCEPT !.failed = TRUE].failed
        BY <1>1 DEF Tables
      <3> QED
        BY <2>1, <3>1 DEF Insert
    <2>3. new = [rows |-> [draft.rows EXCEPT ![id] = row], last |-> id, failed |-> FALSE]
      BY <2>1, <2>2 DEF Insert, FreshUserId
    <2>4. new.last = id /\ new.rows = [draft.rows EXCEPT ![id] = row]
      BY <2>3
    <2>5. item.name \in Names /\ Hash(item.password) \in Hashes /\ Hash(item.password).of[1] = item.name
      BY <1>2, <2>2 DEF OwnItems, Items, Hash, Hashes
    <2>6. row \in AccountRows /\ Says(item, row)
      BY <1>2, <2>2, <2>5, ItemRow DEF Says, Account, Verifies, Hash
    <2> HIDE DEF row, new
    <2>7. id \in Ids => draft.rows[id] = None
      BY <1>1 DEF Drafts
    <2>8. \A i \in Ids : draft.rows[i] # None => new.rows[i] = draft.rows[i]
      BY <1>1, <2>4, <2>7
    <2>9. draft.last < MaxIds => \E i \in Ids : new.rows[i] # None /\ Says(item, new.rows[i])
      <3> HAVE draft.last < MaxIds
      <3>1. id \in Ids
        BY <1>1 DEF Ids
      <3> HIDE DEF id
      <3> QED
        BY <1>1, <1>3, <2>4, <2>6, <3>1
    <2> QED
      BY <1>2, <2>4, <2>8, <2>9 DEF new
  <1> QED
    BY <1>4, <1>5

LastAmong(list, m, k) == \A j \in 1 .. k : list[j].name = list[m].name => j <= m

\* After k items: so many ids are given out, and the top item of each name that
\* has a role is in the table.
Progress(list, k, draft) ==
    ~ draft.failed =>
       /\ draft.last <= lastId + k
       /\ lastId + k <= MaxIds =>
             \A m \in 1 .. k : list[m].roles # {} /\ LastAmong(list, m, k) =>
                \E i \in Ids : draft.rows[i] # None /\ Says(list[m], draft.rows[i])

LEMMA ProgressStep ==
    ASSUME AccountsInv, NEW existing, ReadBefore(users, lastId, existing), NEW list \in Lists,
           NEW k \in 1 .. Len(list), NEW draft \in Drafts, Progress(list, k - 1, draft)
    PROVE  Progress(list, k, WriteUser(existing, list[k], draft))
  <1> DEFINE item == list[k]
             new == WriteUser(existing, item, draft)
  <1> SUFFICES ASSUME ~ new.failed PROVE Progress(list, k, new)
    BY DEF Progress
  <1>1. item \in OwnItems /\ Len(list) \in Nat /\ k \in Nat
    BY ListsAssumption DEF OwnItems
  <1>2. /\ ~ draft.failed /\ new.last \in {draft.last, draft.last + 1}
        /\ \A i \in Ids : draft.rows[i] # None /\ draft.rows[i].name # item.name =>
                 new.rows[i] = draft.rows[i]
        /\ item.roles # {} /\ draft.last < MaxIds =>
                 \E i \in Ids : new.rows[i] # None /\ Says(item, new.rows[i])
    <2> HIDE DEF item
    <2> QED
      BY <1>1, WriteUserEffect
  <1> HIDE DEF new
  <1>3. draft.last \in Nat /\ lastId \in Nat /\ MaxIds \in Nat
    BY IdsAre DEF Drafts, Tables, AccountsInv
  <1>4. draft.last <= lastId + (k - 1)
    BY <1>2 DEF Progress
  <1>5. new.last <= lastId + k
    BY <1>1, <1>2, <1>3, <1>4
  <1>6. ASSUME lastId + k <= MaxIds, NEW m \in 1 .. k, list[m].roles # {}, LastAmong(list, m, k)
        PROVE  \E i \in Ids : new.rows[i] # None /\ Says(list[m], new.rows[i])
    <2>1. CASE m = k
      <3>1. draft.last < MaxIds
        BY <1>1, <1>3, <1>4, <1>6
      <3> QED
        BY <1>2, <1>6, <2>1, <3>1
    <2>2. CASE m # k
      <3>1. m \in 1 .. k - 1 /\ lastId + (k - 1) <= MaxIds
        BY <1>1, <1>3, <1>6, <2>2
      <3>2. LastAmong(list, m, k - 1)
        BY <1>1, <1>6 DEF LastAmong
      <3>3. PICK i \in Ids : draft.rows[i] # None /\ Says(list[m], draft.rows[i])
        BY <1>2, <1>6, <3>1, <3>2 DEF Progress
      <3>4. list[m].name # item.name
        <4>1. ~ (k <= m)
          BY <1>1, <1>6, <2>2
        <4> QED
          BY <1>1, <1>6, <4>1 DEF LastAmong
      <3>5. new.rows[i] = draft.rows[i]
        BY <1>2, <3>3, <3>4 DEF Says
      <3> QED
        BY <3>3, <3>5
    <2> QED
      BY <2>1, <2>2
  <1> QED
    BY <1>5, <1>6 DEF Progress

LEMMA WrittenIs ==
    ASSUME AccountsInv, NEW existing, ReadBefore(users, lastId, existing), NEW list \in Lists
    PROVE  WrittenBy(existing, list) \in Drafts /\ Progress(list, Len(list), WrittenBy(existing, list))
  <1>1. PICK h \in [0 .. Len(list) -> Drafts] :
           /\ h[0] = Unwritten /\ h[Len(list)] = WrittenBy(existing, list)
           /\ \A k \in 1 .. Len(list) : h[k] = WriteUser(existing, list[k], h[k - 1])
    BY WrittenPath
  <1>2. Len(list) \in Nat
    BY ListsAssumption
  <1> DEFINE T == {k \in 0 .. Len(list) : Progress(list, k, h[k])}
  <1>3. 0 \in T
    <2>1. Unwritten.last = lastId /\ lastId \in Nat
      BY IdsAre DEF Unwritten, AccountsInv
    <2>2. Progress(list, 0, Unwritten)
      BY <2>1 DEF Progress
    <2> QED
      BY <1>1, <1>2, <2>2
  <1>4. ASSUME NEW k \in 1 .. Len(list), k - 1 \in T PROVE k \in T
    <2>1. k - 1 \in 0 .. Len(list) /\ k \in 0 .. Len(list)
      BY <1>2
    <2>2. Progress(list, k - 1, h[k - 1])
      BY <1>4, Zenon
    <2>3. h[k - 1] \in Drafts
      BY <1>1, <2>1
    <2>4. Progress(list, k, WriteUser(existing, list[k], h[k - 1]))
      BY <2>2, <2>3, ProgressStep
    <2> QED
      BY <1>1, <2>1, <2>4
  <1>5. \A k \in 0 .. Len(list) : k \in T
    <2> HIDE DEF T
    <2> QED
      BY <1>2, <1>3, <1>4, UpTo, Zenon
  <1>6. Len(list) \in 0 .. Len(list)
    BY <1>2
  <1>7. Progress(list, Len(list), h[Len(list)])
    BY <1>5, <1>6, Zenon
  <1>8. h[Len(list)] \in Drafts
    BY <1>1, <1>6
  <1> QED
    BY <1>1, <1>7, <1>8

\* The rows of a replacement that has got through.
ReplacedRows(existing, list) ==
    [i \in Ids |-> IF i \in Omitted(existing, list) THEN None ELSE WrittenBy(existing, list).rows[i]]

LEMMA ReplacedIs ==
    ASSUME AccountsInv, NEW existing, ReadBefore(users, lastId, existing), NEW list \in Lists
    PROVE  LET done == Replaced(existing, list) IN
           /\ done.failed = WrittenBy(existing, list).failed
           /\ done.last = WrittenBy(existing, list).last
           /\ done.rows = ReplacedRows(existing, list)
  <1> DEFINE w == WrittenBy(existing, list)
             off == Omitted(existing, list)
  <1>1. Replaced(existing, list) = [w EXCEPT !.rows = [i \in Ids |-> IF i \in off THEN None ELSE @[i]]]
    BY Zenon DEF Replaced, WrittenBy, Unwritten
  <1>2. w \in Tables
    BY WrittenIs DEF Drafts
  <1> HIDE DEF w, off
  <1>3. w = [rows |-> w.rows, last |-> w.last, failed |-> w.failed]
    BY <1>2 DEF Tables
  <1> QED
    BY <1>1, <1>3 DEF ReplacedRows, w, off

LEMMA WriteUsersInv == ASSUME AccountsInv, NEW c \in Clients, WriteUsers(c) PROVE AccountsInv'
  <1> DEFINE list == req[c].list
             existing == req[c].existing
             w == WrittenBy(existing, list)
  <1>1. /\ list \in Lists /\ ReadBefore(users, lastId, existing)
        /\ lastId + Len(list) <= MaxIds /\ req' = [req EXCEPT ![c] = NoRequest]
    BY DEF WriteUsers, AccountsInv, Held
  <1>2. CASE UNCHANGED <<users, lastId, sessions>>
    BY <1>1, <1>2, EndsInv
  <1>3. CASE /\ ~ w.failed /\ users' = ReplacedRows(existing, list) /\ lastId' = w.last
             /\ sessions' = Cascade(ReplacedRows(existing, list))
    <2>1. w \in Drafts /\ Progress(list, Len(list), w)
      BY <1>1, WrittenIs
    <2>2. Len(list) \in Nat
      BY <1>1, ListsAssumption
    <2> HIDE DEF w
    <2>3. /\ w.rows \in [Ids -> AccountRows \cup {None}] /\ w.last \in Nat /\ lastId <= w.last
          /\ \A i \in Ids : i > w.last => w.rows[i] = None
          /\ w.last <= lastId + Len(list) /\ lastId \in Nat /\ 1 .. lastId \subseteq Ids
      BY <1>3, <2>1, IdsAre DEF Drafts, Tables, Progress, AccountsInv
    <2>4. lastId' \in Ids
      BY <1>1, <1>3, <2>2, <2>3 DEF AccountsInv, AccountsTypeOK, Ids
    <2>5. /\ users' \in [Ids -> AccountRows \cup {None}]
          /\ \A i \in Ids : users'[i] # None => users'[i] = w.rows[i]
          /\ \A i \in Ids : i > lastId' => users'[i] = None
      BY <1>3, <2>3 DEF ReplacedRows, w
    <2>6. sessions' \in [Tokens -> SessionRows \cup {None}]
      <3>1. \A t \in Tokens : sessions[t] # None =>
               [sessions[t] EXCEPT !.state = "deleted"] \in SessionRows
        BY DEF AccountsInv, AccountsTypeOK, SessionRows
      <3> QED
        BY <1>3, <3>1 DEF Cascade, AccountsInv, AccountsTypeOK
    <2>7. AccountsTypeOK'
      BY <1>1, <2>4, <2>5, <2>6 DEF AccountsInv, AccountsTypeOK
    <2>8. \A t \in Tokens : sessions[t] # None => sessions'[t] # None
      <3>1. \A t \in Tokens : sessions[t] # None =>
               [sessions[t] EXCEPT !.state = "deleted"] \in SessionRows
        BY DEF AccountsInv, AccountsTypeOK, SessionRows
      <3> QED
        BY <1>3, <3>1, NoneAssumption DEF Cascade
    <2>9. \A i \in 1 .. lastId : users'[i] # None => users[i] # None /\ users'[i].name = users[i].name
      BY <2>1, <2>3, <2>5 DEF Drafts
    <2>10. Kept
      BY <1>3, <2>3, <2>8, <2>9 DEF Kept
    <2>11. OwnAccount'
      <3>1. \A i \in Ids : users'[i] # None => users'[i].hash.of[1] = users'[i].name
        BY <2>1, <2>5 DEF Drafts
      <3>2. ASSUME NEW t \in Tokens, sessions'[t] # None, sessions'[t].state # "deleted"
            PROVE  /\ users'[sessions'[t].user] # None
                   /\ users'[sessions'[t].user].name = sessions'[t].login
        <4>1. /\ sessions[t] # None => [sessions[t] EXCEPT !.state = "deleted"].state = "deleted"
          BY DEF AccountsInv, AccountsTypeOK, SessionRows
        <4>2. /\ sessions'[t] = sessions[t] /\ sessions[t] # None /\ sessions[t].state # "deleted"
              /\ users'[sessions[t].user] # None
          BY <1>3, <3>2, <4>1 DEF Cascade
        <4>3. sessions[t].user \in Ids /\ users[sessions[t].user] # None
              /\ users[sessions[t].user].name = sessions[t].login
          BY <4>2 DEF AccountsInv, AccountsTypeOK, OwnAccount, SessionRows
        <4>4. sessions[t].user \in 1 .. lastId
          BY <4>3, UsersAre DEF AccountsInv
        <4> QED
          BY <2>9, <4>2, <4>3, <4>4
      <3> QED
        BY <3>1, <3>2 DEF OwnAccount, Rows
    <2> QED
      BY <1>1, <2>7, <2>10, <2>11, IdleHeld, Onward
  <1>4. LET done == Replaced(existing, list) IN
           /\ done.failed = w.failed /\ done.last = w.last
           /\ done.rows = ReplacedRows(existing, list)
    BY <1>1, ReplacedIs
  <1> QED
    BY <1>2, <1>3, <1>4 DEF WriteUsers

LEMMA AccountsNextInv == AccountsInv /\ [AccountsNext]_accountVars => AccountsInv'
  <1> SUFFICES ASSUME AccountsInv, [AccountsNext]_accountVars PROVE AccountsInv'
    OBVIOUS
  <1>1. CASE UNCHANGED accountVars
    BY <1>1 DEF accountVars, AccountsInv, AccountsTypeOK, OwnAccount, Rows
  <1>2. ASSUME NEW c \in Clients,
               \/ AuthenticateUser(c) \/ Rehash(c) \/ FindUser(c) \/ OpenSession(c)
               \/ CookieRequest(c) \/ BearerRequest(c) \/ Logout(c)
        PROVE  AccountsInv'
    BY <1>2, AuthenticateInv, RehashInv, FindUserInv, OpenSessionInv, CookieInv, BearerInv, LogoutInv
  <1>3. ASSUME NEW c \in Clients,
               \/ AnswerOnly(c) \/ ReadUsers(c) \/ WriteUsers(c)
               \/ CreateApiKey(c) \/ AnswerKey(c) \/ RevokeApiKey(c)
        PROVE  AccountsInv'
    BY <1>3, KeysInv, ReadUsersInv, WriteUsersInv
  <1> QED
    BY <1>1, <1>2, <1>3, ExpireInv, RestartInv DEF AccountsNext

LEMMA AccountsAlways == AccountsSpec => []AccountsInv
  BY AccountsInitInv, AccountsNextInv, PTL DEF AccountsSpec

\* However replacements, logins and rehashes interleave, no row has a password
\* chosen for another name and no session serves a name that did not log in.
THEOREM AccountsAlwaysOwn == AccountsSpec => []OwnAccount
  <1>1. AccountsInv => OwnAccount
    BY DEF AccountsInv
  <1> QED
    BY <1>1, AccountsAlways, PTL

---------------------------------------------------------------------------
(* A replacement takes hold *)

LEMMA LastItemIs ==
    ASSUME NEW list \in Lists, NEW n \in ListNames(list)
    PROVE  \E m \in 1 .. Len(list) :
              list[m] = LastItem(list, n) /\ list[m].name = n /\ LastAmong(list, m, Len(list))
  <1> DEFINE named == {k \in 1 .. Len(list) : list[k].name = n}
             Lasts(k) == list[k].name = n /\ \A j \in DOMAIN list : list[j].name = n => j <= k
             top == CHOOSE k \in DOMAIN list : Lasts(k)
  <1>1. Len(list) \in Nat /\ DOMAIN list = 1 .. Len(list)
    BY ListsAssumption
  <1>2. named # {} /\ named \in SUBSET (1 .. Len(list))
    BY <1>1 DEF ListNames
  <1>3. Max(named) \in named /\ \A y \in named : Max(named) >= y
    <2> HIDE DEF named
    <2> QED
      BY <1>1, <1>2, MaxUpTo
  <1>4. \E k \in DOMAIN list : Lasts(k)
    <2>1. \A y \in named : y <= Max(named)
      BY <1>1, <1>3
    <2> QED
      BY <1>1, <1>3, <2>1
  <1>5. top \in DOMAIN list /\ Lasts(top)
    <2> HIDE DEF Lasts
    <2> QED
      BY <1>4, Zenon
  <1>6. LastItem(list, n) = list[top]
    BY Zenon DEF LastItem
  <1> HIDE DEF top
  <1> QED
    BY <1>1, <1>5, <1>6 DEF LastAmong

LEMMA WritesHold ==
    ASSUME AccountsInv, NEW c \in Clients, WriteUsers(c), users' # users
    PROVE  Holds(req[c].list, req[c].existing, users')
  <1> DEFINE list == req[c].list
             existing == req[c].existing
             w == WrittenBy(existing, list)
  <1>1. /\ list \in Lists /\ ReadBefore(users, lastId, existing) /\ lastId + Len(list) <= MaxIds
    BY DEF WriteUsers, AccountsInv, Held
  <1>2. ~ w.failed /\ users' = ReplacedRows(existing, list)
    <2>1. LET done == Replaced(existing, list) IN
             done.failed = w.failed /\ done.rows = ReplacedRows(existing, list)
      BY <1>1, ReplacedIs
    <2> QED
      BY <2>1 DEF WriteUsers
  <1>3. w \in Drafts /\ Progress(list, Len(list), w)
    BY <1>1, WrittenIs
  <1> HIDE DEF w
  <1>4. \A n \in DOMAIN existing :
           /\ existing[n].id \in 1 .. lastId /\ existing[n].id \in Ids
           /\ w.rows[existing[n].id] # None => w.rows[existing[n].id].name = n
    BY <1>1, <1>3, IdsAre DEF ReadBefore, Known, Drafts, AccountsInv
  <1>5. \A i \in Ids : users'[i] = IF i \in Omitted(existing, list) THEN None ELSE w.rows[i]
    BY <1>2 DEF ReplacedRows, w
  <1>6. ASSUME NEW n \in ListNames(list), LastItem(list, n).roles # {}
        PROVE  \E i \in Named(users', n) :
                  /\ users'[i].active = LastItem(list, n).active
                  /\ users'[i].roles = LastItem(list, n).roles
                  /\ LastItem(list, n).password # None =>
                        Verifies(LastItem(list, n).password, users'[i].hash)
    <2>1. PICK m \in 1 .. Len(list) :
             list[m] = LastItem(list, n) /\ list[m].name = n /\ LastAmong(list, m, Len(list))
      BY <1>1, <1>6, LastItemIs
    <2>2. PICK i \in Ids : w.rows[i] # None /\ Says(list[m], w.rows[i])
      BY <1>1, <1>2, <1>3, <1>6, <2>1 DEF Progress
    <2>3. i \notin Omitted(existing, list)
      BY <1>4, <1>6, <2>1, <2>2 DEF Omitted, Says
    <2>4. users'[i] = w.rows[i]
      BY <1>5, <2>3
    <2> QED
      BY <2>1, <2>2, <2>4 DEF Named, Says
  <1>7. ASSUME NEW i \in Ids, users'[i] # None, users'[i].name \notin ListNames(list)
        PROVE  i \notin {existing[n].id : n \in DOMAIN existing}
    BY <1>4, <1>5, <1>7 DEF Omitted
  <1> HIDE DEF list, existing
  <1>8. Holds(list, existing, users')
    BY <1>6, <1>7 DEF Holds
  <1> QED
    BY <1>8 DEF list, existing

\* A replacement that was committed has done what its list says, whatever was
\* written between its SELECT and its own writes.
THEOREM ReplaceAlwaysTakesHold == AccountsSpec => ReplaceTakesHold
  <1>1. AccountsInv /\ [AccountsNext]_accountVars =>
           [\A c \in Clients : WriteUsers(c) /\ users' # users =>
               Holds(req[c].list, req[c].existing, users')]_accountVars
    BY WritesHold
  <1> QED
    BY <1>1, AccountsAlways, PTL DEF AccountsSpec, ReplaceTakesHold
=============================================================================
