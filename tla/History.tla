------------------------------ MODULE History ------------------------------
(***************************************************************************)
(* The deployment history: the SQLite table `deployments`, one row per     *)
(* deployment, reduced to its status column (infrastructure/history.rs).   *)
(* Every operator below is one closure run under the connection mutex      *)
(* (sqlite.rs, Db::call), hence one atomic step.                           *)
(*                                                                         *)
(* Retention orders the finished rows by started_at, a wall-clock value of *)
(* one-second resolution, and breaks ties by a random (v4) id, so which    *)
(* finished rows are the newest is left open: any `Keep` of them may stay. *)
(***************************************************************************)
EXTENDS FiniteSets, Naturals

CONSTANTS Deploys,    \* deployment ids
          Projects,   \* deploy keys: projects and environments alike
          ProjectOf,  \* the key each deployment targets
          Keep        \* finished rows kept per key (history_keep)

ASSUME HistoryAssumption ==
    /\ ProjectOf \in [Deploys -> Projects]
    /\ Keep \in Nat

VARIABLE row          \* status of each deployment's row, "none" without a row

Active == {"queued", "running"}

Terminal == {"success", "failed", "superseded", "canceled", "interrupted"}

Statuses == Active \cup Terminal

RowTypeOK == row \in [Deploys -> Statuses \cup {"none"}]

HistoryInit == row = [d \in Deploys |-> "none"]

DeploysOf(p) == {d \in Deploys : ProjectOf[d] = p}

FinishedRows(p) == {d \in DeploysOf(p) : row[d] \in Terminal}

\* The sets of finished rows retention may delete: all but Keep of them go.
Expired(p) ==
    LET n == Cardinality(FinishedRows(p))
    IN  {gone \in SUBSET FinishedRows(p) :
            Cardinality(gone) = IF n > Keep THEN n - Keep ELSE 0}

\* INSERT of the queued row alone; the DELETE that follows it failed.
InsertOnly(d) == row' = [row EXCEPT ![d] = "queued"]

\* INSERT of the queued row, then the DELETE of the expired ones.
RecordQueued(d) ==
    \E gone \in Expired(ProjectOf[d]) :
        row' = [x \in Deploys |-> IF x = d THEN "queued"
                                  ELSE IF x \in gone THEN "none" ELSE row[x]]

\* UPDATE ... WHERE id AND status = 'queued'; no such row is an error.
MarkRunning(d) ==
    /\ row[d] = "queued"
    /\ row' = [row EXCEPT ![d] = "running"]

\* UPDATE ... WHERE id: whatever the row says now, as long as there is one.
RecordFinished(d, status) ==
    /\ row[d] # "none"
    /\ row' = [row EXCEPT ![d] = status]

\* Startup: every row left active by the previous process.
SweepInterrupted ==
    row' = [d \in Deploys |-> IF row[d] \in Active THEN "interrupted" ELSE row[d]]
=============================================================================
