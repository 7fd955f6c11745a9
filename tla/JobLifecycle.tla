----------------------------- MODULE JobLifecycle -----------------------------
(***************************************************************************)
(* What the registry and its workers promise of an ingestion job, with no   *)
(* worker, request or corpus in sight: a job is created once, started at    *)
(* most once, its work returns at most once, only a started job is reported *)
(* on, and it is called completed only when its work has returned.  A       *)
(* cancellation is a word in the row, not an end: what was started may      *)
(* still be reported on.                                                    *)
(***************************************************************************)
CONSTANT Jobs

VARIABLES
    status,      \* job -> its status, "unused" before and "gone" after its row
    started,     \* jobs whose claim was granted
    returned     \* jobs whose work returned

lifecycle == <<status, started, returned>>

HasRow(j) == status[j] \notin {"unused", "gone"}

Init ==
    /\ status = [j \in Jobs |-> "unused"]
    /\ started = {}
    /\ returned = {}

\* A user asks for a job.
Create(j) ==
    /\ status[j] = "unused"
    /\ status' = [status EXCEPT ![j] = "pending"]
    /\ UNCHANGED <<started, returned>>

\* A claim is granted.
Start(j) ==
    /\ status[j] = "pending"
    /\ j \notin started
    /\ status' = [status EXCEPT ![j] = "running"]
    /\ started' = started \cup {j}
    /\ UNCHANGED returned

\* The work of a job is over.
Finish(j) ==
    /\ j \in started
    /\ j \notin returned
    /\ returned' = returned \cup {j}
    /\ UNCHANGED <<status, started>>

\* A worker's word on a job that has a row.
Tell(j, s) ==
    /\ HasRow(j)
    /\ j \in started
    /\ s = "completed" => j \in returned
    /\ status' = [status EXCEPT ![j] = s]
    /\ UNCHANGED <<started, returned>>

\* A user's cancellation.
Cancel(j) ==
    /\ HasRow(j)
    /\ status' = [status EXCEPT ![j] = "cancelled"]
    /\ UNCHANGED <<started, returned>>

\* The rows of a corpus go with it.
Remove(gone) ==
    /\ \A j \in gone : HasRow(j)
    /\ status' = [j \in Jobs |-> IF j \in gone THEN "gone" ELSE status[j]]
    /\ UNCHANGED <<started, returned>>

Next ==
    \/ \E j \in Jobs : Create(j) \/ Start(j) \/ Finish(j) \/ Cancel(j)
    \/ \E j \in Jobs, s \in {"running", "completed", "failed"} : Tell(j, s)
    \/ \E gone \in SUBSET Jobs : Remove(gone)

Spec == Init /\ [][Next]_lifecycle

=============================================================================
