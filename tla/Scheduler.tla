----------------------------- MODULE Scheduler -----------------------------
(***************************************************************************)
(* The deploy queue as the agent runs it: DeployScheduler                  *)
(* (application/scheduler.rs), the life of one run around its stages       *)
(* (DeployProject::execute, application/deploy.rs), the history rows they  *)
(* write, the log stream each deployment has in the events hub, and the    *)
(* HTTP handlers that call them (bin/agent/http.rs).                       *)
(*                                                                         *)
(* A handler is a future the server drops when its client disconnects; a   *)
(* database call runs in spawn_blocking, so a write that was requested     *)
(* lands even when nobody waits for it any more.  Each `.await` on the     *)
(* database is therefore two steps, the write and the resumption, and a    *)
(* dropped handler keeps the first and loses the second.  The slots are    *)
(* under one mutex that is never held across an await: one step each.      *)
(*                                                                         *)
(* The stages of a run are one step here, ending in success, failure or    *)
(* cancellation; Environments opens them.                                  *)
(***************************************************************************)
EXTENDS History

CONSTANTS None,     \* no deployment
          Budgets   \* bounds on the events nothing in the system makes happen

Kinds == {"storage", "disconnect", "panic", "crash", "removal", "latecomer"}

ASSUME SchedulerAssumption ==
    /\ None \notin Deploys
    /\ Budgets \subseteq [Kinds -> Nat]

VARIABLES
    running,  \* slot.running of each key
    pending,  \* slot.pending of each key
    token,    \* deployments whose cancellation token has been signalled
    req,      \* where the submit handler of each deployment stands
    old,      \* the deployment that handler replaced, or None
    absent,   \* deployments whose submit handler was dropped during a write
    run,      \* where the run of each deployment stands
    verdict,  \* the status a run has decided to record
    cxl,      \* where a cancel handler of each deployment stands
    stream,   \* deployments that have an entry in the events hub
    leaving,  \* keys whose removal is past its check for active deployments
    told,     \* the final statuses viewers of each deployment have been sent
    up,       \* the agent process is serving
    spent     \* how often each kind of event has happened

slotVars == <<running, pending>>
runVars  == <<run, verdict, token>>
reqVars  == <<req, old, absent>>
hubVars  == <<stream, told>>
sysVars  == <<leaving, up>>
vars     == <<row, slotVars, runVars, reqVars, cxl, hubVars, sysVars, spent>>

\* "inserting": waits for record_queued; "inserted"/"refused": it returned
\* Ok/Err; "replacing"/"replaced": waits for/has the result of writing the
\* superseded row; "answered"/"rejected": returned; "lost": dropped, or died in a crash.
ReqStates == {"idle", "inserting", "inserted", "refused", "replacing",
              "replaced", "answered", "rejected", "lost"}

\* "spawned": holds the slot, not yet marked running; "stages": run_stages;
\* "ended": verdict known; "recorded": row written; "returned": execute is
\* over, the slot is still held; "panicked": the task died; "gone": no more.
RunStates == {"none", "spawned", "stages", "ended", "recorded", "returned",
              "panicked", "gone"}

\* "checked": history said not terminal; "taking"/"taken": out of the queue,
\* its row being/been written; "detached": as taking, the handler dropped.
CancelStates == {"idle", "checked", "taking", "taken", "detached"}

Verdicts == {"success", "failed", "canceled"}

TypeOK ==
    /\ RowTypeOK
    /\ running \in [Projects -> Deploys \cup {None}]
    /\ pending \in [Projects -> Deploys \cup {None}]
    /\ token \in SUBSET Deploys
    /\ req \in [Deploys -> ReqStates]
    /\ old \in [Deploys -> Deploys \cup {None}]
    /\ absent \in SUBSET Deploys
    /\ run \in [Deploys -> RunStates]
    /\ verdict \in [Deploys -> Verdicts \cup {"none"}]
    /\ cxl \in [Deploys -> CancelStates]
    /\ stream \in SUBSET Deploys
    /\ told \in [Deploys -> SUBSET Terminal]
    /\ leaving \in SUBSET Projects
    /\ up \in BOOLEAN
    /\ spent \in [Kinds -> Nat]

Init ==
    /\ HistoryInit
    /\ running = [p \in Projects |-> None]
    /\ pending = [p \in Projects |-> None]
    /\ token = {}
    /\ req = [d \in Deploys |-> "idle"]
    /\ old = [d \in Deploys |-> None]
    /\ absent = {}
    /\ run = [d \in Deploys |-> "none"]
    /\ verdict = [d \in Deploys |-> "none"]
    /\ cxl = [d \in Deploys |-> "idle"]
    /\ stream = {}
    /\ told = [d \in Deploys |-> {}]
    /\ leaving = {}
    /\ up = TRUE
    /\ spent = [kind \in Kinds |-> 0]

\* One of the budgets still allows an event of the kind.
Spend(kind) ==
    /\ {b \in Budgets : /\ spent[kind] < b[kind]
                        /\ \A k \in Kinds : spent[k] <= b[k]} # {}
    /\ spent' = [spent EXCEPT ![kind] = @ + 1]

\* LogSink::finished: the hub drops the entry and its viewers get the status.
Close(d, status) ==
    /\ stream' = stream \ {d}
    /\ told' = IF d \in stream THEN [told EXCEPT ![d] = @ \cup {status}] ELSE told

\* An awaited record_finished: written, or an error the caller outlives.
WriteFinal(d, status) ==
    \/ RecordFinished(d, status) /\ UNCHANGED spent
    \/ Spend("storage") /\ UNCHANGED row
    \/ row[d] = "none" /\ UNCHANGED <<row, spent>>
-----------------------------------------------------------------------------
(* Slips the properties are tested against: each stands in for the action   *)
(* named in its comment, and no specification here uses it.                 *)

\* NextInLine that drops the slot together with the one who waits in it.
DropSlot(d) ==
    LET p == ProjectOf[d] IN
    /\ run[d] = "returned"
    /\ running' = [running EXCEPT ![p] = None]
    /\ pending' = [pending EXCEPT ![p] = None]
    /\ run' = [run EXCEPT ![d] = "gone"]
    /\ token' = token \ {d}
    /\ verdict' = [verdict EXCEPT ![d] = "none"]
    /\ UNCHANGED <<row, reqVars, cxl, hubVars, sysVars, spent>>

\* NextInLine that registers who waits as running and never spawns its task.
PromoteOnly(d) ==
    LET p == ProjectOf[d] IN
    /\ run[d] = "returned"
    /\ running' = [running EXCEPT ![p] = pending[p]]
    /\ pending' = [pending EXCEPT ![p] = None]
    /\ run' = [run EXCEPT ![d] = "gone"]
    /\ token' = token \ {d}
    /\ verdict' = [verdict EXCEPT ![d] = "none"]
    /\ UNCHANGED <<row, reqVars, cxl, hubVars, sysVars, spent>>

\* StartNow without the test for a running entry.
StartAnyway(d) ==
    /\ req[d] = "inserted"
    /\ running' = [running EXCEPT ![ProjectOf[d]] = d]
    /\ run' = [run EXCEPT ![d] = "spawned"]
    /\ req' = [req EXCEPT ![d] = "answered"]
    /\ UNCHANGED <<row, pending, token, verdict, old, absent, cxl, hubVars, sysVars, spent>>

\* CancelQueued that looks at the pending entry without taking it.
CancelPeek(d) ==
    /\ cxl[d] = "checked"
    /\ pending[ProjectOf[d]] = d
    /\ cxl' = [cxl EXCEPT ![d] = "taking"]
    /\ UNCHANGED <<row, slotVars, runVars, reqVars, hubVars, sysVars, spent>>

\* EndStages that tells the viewers before the row is written.
TellFirst(d) ==
    /\ run[d] = "stages"
    /\ \E v \in Verdicts :
        /\ v = "canceled" => d \in token
        /\ verdict' = [verdict EXCEPT ![d] = v]
        /\ Close(d, v)
    /\ run' = [run EXCEPT ![d] = "ended"]
    /\ UNCHANGED <<row, slotVars, token, reqVars, cxl, sysVars, spent>>

\* CloseSuperseded that forgets the sink it replaced.
LeaveOpen(d) ==
    /\ req[d] = "replaced"
    /\ old' = [old EXCEPT ![d] = None]
    /\ req' = [req EXCEPT ![d] = "answered"]
    /\ UNCHANGED <<row, slotVars, runVars, absent, cxl, hubVars, sysVars, spent>>
-----------------------------------------------------------------------------
(* The submit handler: create_deployment and DeployScheduler::submit.      *)

\* The stream is registered before the row is requested.
Submit(d) ==
    /\ up
    /\ req[d] = "idle"
    /\ req' = [req EXCEPT ![d] = "inserting"]
    /\ stream' = stream \cup {d}
    /\ UNCHANGED <<row, slotVars, runVars, old, absent, cxl, told, sysVars, spent>>

\* A write has landed: its handler is resumed, if it still exists.
Resume(d, state) ==
    /\ req' = [req EXCEPT ![d] = IF d \in absent THEN "lost" ELSE state]
    /\ absent' = absent \ {d}

InsertRow(d) ==
    /\ req[d] = "inserting"
    /\ \/ RecordQueued(d) /\ Resume(d, "inserted") /\ UNCHANGED spent
       \/ /\ InsertOnly(d) \/ UNCHANGED row
          /\ Resume(d, "refused")
          /\ Spend("storage")
    /\ UNCHANGED <<slotVars, runVars, old, cxl, hubVars, sysVars>>

Refuse(d) ==
    /\ req[d] = "refused"
    /\ req' = [req EXCEPT ![d] = "rejected"]
    /\ Close(d, "failed")
    /\ UNCHANGED <<row, slotVars, runVars, old, absent, cxl, sysVars, spent>>

\* The key is idle: the deployment takes the slot and its run is spawned.
StartNow(d) ==
    LET p == ProjectOf[d] IN
    /\ req[d] = "inserted"
    /\ running[p] = None
    /\ running' = [running EXCEPT ![p] = d]
    /\ run' = [run EXCEPT ![d] = "spawned"]
    /\ req' = [req EXCEPT ![d] = "answered"]
    /\ UNCHANGED <<row, pending, token, verdict, old, absent, cxl, hubVars, sysVars, spent>>

\* The key is busy: latest wins, and the one it replaces is superseded.
Replace(d) ==
    LET p == ProjectOf[d] IN
    /\ req[d] = "inserted"
    /\ running[p] # None
    /\ pending' = [pending EXCEPT ![p] = d]
    /\ old' = [old EXCEPT ![d] = pending[p]]
    /\ req' = [req EXCEPT ![d] = IF pending[p] = None THEN "answered" ELSE "replacing"]
    /\ UNCHANGED <<row, running, runVars, absent, cxl, hubVars, sysVars, spent>>

RecordSuperseded(d) ==
    /\ req[d] = "replacing"
    /\ WriteFinal(old[d], "superseded")
    /\ Resume(d, "replaced")
    /\ old' = IF d \in absent THEN [old EXCEPT ![d] = None] ELSE old
    /\ UNCHANGED <<slotVars, runVars, cxl, hubVars, sysVars>>

CloseSuperseded(d) ==
    /\ req[d] = "replaced"
    /\ Close(old[d], "superseded")
    /\ old' = [old EXCEPT ![d] = None]
    /\ req' = [req EXCEPT ![d] = "answered"]
    /\ UNCHANGED <<row, slotVars, runVars, absent, cxl, sysVars, spent>>

\* The client of a handler that is still waiting disconnects: a write in
\* flight goes on alone, everything after it is lost.
DropSubmit(d) ==
    /\ \/ /\ req[d] \in {"inserting", "replacing"}
          /\ d \notin absent
          /\ absent' = absent \cup {d}
          /\ UNCHANGED <<req, old>>
       \/ /\ req[d] \in {"inserted", "refused", "replaced"}
          /\ req' = [req EXCEPT ![d] = "lost"]
          /\ old' = [old EXCEPT ![d] = None]
          /\ UNCHANGED absent
    /\ Spend("disconnect")
    /\ UNCHANGED <<row, slotVars, runVars, cxl, hubVars, sysVars>>
-----------------------------------------------------------------------------
(* The run of a deployment: run_project and DeployProject::execute.        *)

\* mark_running; its failure makes the run end as failed.
StartRun(d) ==
    /\ run[d] = "spawned"
    /\ \/ /\ MarkRunning(d)
          /\ run' = [run EXCEPT ![d] = "stages"]
          /\ UNCHANGED <<verdict, spent>>
       \/ /\ run' = [run EXCEPT ![d] = "ended"]
          /\ verdict' = [verdict EXCEPT ![d] = "failed"]
          /\ \/ Spend("storage")
             \/ row[d] # "queued" /\ UNCHANGED spent
          /\ UNCHANGED row
    /\ UNCHANGED <<slotVars, token, reqVars, cxl, hubVars, sysVars>>

\* The stages succeed or fail by themselves, or the token wins the select.
EndStages(d) ==
    /\ run[d] = "stages"
    /\ \E v \in Verdicts :
        /\ v = "canceled" => d \in token
        /\ verdict' = [verdict EXCEPT ![d] = v]
    /\ run' = [run EXCEPT ![d] = "ended"]
    /\ UNCHANGED <<row, slotVars, token, reqVars, cxl, hubVars, sysVars, spent>>

\* A panic unwinds execute: the guard closes the stream, nothing else runs.
Panic(d) ==
    /\ run[d] = "stages"
    /\ Spend("panic")
    /\ Close(d, "failed")
    /\ run' = [run EXCEPT ![d] = "panicked"]
    /\ UNCHANGED <<row, slotVars, token, verdict, reqVars, cxl, sysVars>>

RecordVerdict(d) ==
    /\ run[d] = "ended"
    /\ WriteFinal(d, verdict[d])
    /\ run' = [run EXCEPT ![d] = "recorded"]
    /\ UNCHANGED <<slotVars, token, verdict, reqVars, cxl, hubVars, sysVars>>

CloseRun(d) ==
    /\ run[d] = "recorded"
    /\ Close(d, verdict[d])
    /\ run' = [run EXCEPT ![d] = "returned"]
    /\ UNCHANGED <<row, slotVars, token, verdict, reqVars, cxl, sysVars, spent>>

\* run_project after a run: the pending deployment is promoted, or the slot
\* is dropped.
NextInLine(d) ==
    LET p == ProjectOf[d]
        next == pending[p]
    IN  /\ run[d] = "returned"
        /\ running' = [running EXCEPT ![p] = next]
        /\ pending' = [pending EXCEPT ![p] = None]
        /\ run' = [x \in Deploys |-> IF x = d THEN "gone"
                                     ELSE IF x = next THEN "spawned" ELSE run[x]]
        /\ token' = token \ {d}
        /\ verdict' = [verdict EXCEPT ![d] = "none"]
        /\ UNCHANGED <<row, reqVars, cxl, hubVars, sysVars, spent>>
-----------------------------------------------------------------------------
(* The cancel handler: cancel_deployment and DeployScheduler::cancel.      *)

\* A recorded terminal status ends the call (nothing changes then); a failed
\* read does not.  A client knows the ids it was answered and those listed as
\* active (active_deployments).
CancelRead(d) ==
    /\ up
    /\ cxl[d] = "idle"
    /\ row[d] # "none" \/ req[d] = "answered"
    /\ \/ row[d] \notin Terminal /\ UNCHANGED spent
       \/ Spend("storage")
    /\ cxl' = [cxl EXCEPT ![d] = "checked"]
    /\ UNCHANGED <<row, slotVars, runVars, reqVars, hubVars, sysVars>>

CancelQueued(d) ==
    /\ cxl[d] = "checked"
    /\ pending[ProjectOf[d]] = d
    /\ pending' = [pending EXCEPT ![ProjectOf[d]] = None]
    /\ cxl' = [cxl EXCEPT ![d] = "taking"]
    /\ UNCHANGED <<row, running, runVars, reqVars, hubVars, sysVars, spent>>

\* Signals the token of a running deployment, or finds the id in no slot.
CancelElse(d) ==
    /\ cxl[d] = "checked"
    /\ pending[ProjectOf[d]] # d
    /\ token' = IF running[ProjectOf[d]] = d THEN token \cup {d} ELSE token
    /\ cxl' = [cxl EXCEPT ![d] = "idle"]
    /\ UNCHANGED <<row, slotVars, run, verdict, reqVars, hubVars, sysVars, spent>>

RecordCanceled(d) ==
    /\ cxl[d] \in {"taking", "detached"}
    /\ WriteFinal(d, "canceled")
    /\ cxl' = [cxl EXCEPT ![d] = IF @ = "taking" THEN "taken" ELSE "idle"]
    /\ UNCHANGED <<slotVars, runVars, reqVars, hubVars, sysVars>>

CloseCanceled(d) ==
    /\ cxl[d] = "taken"
    /\ Close(d, "canceled")
    /\ cxl' = [cxl EXCEPT ![d] = "idle"]
    /\ UNCHANGED <<row, slotVars, runVars, reqVars, sysVars, spent>>

DropCancel(d) ==
    /\ cxl[d] # "idle" /\ cxl[d] # "detached"
    /\ Spend("disconnect")
    /\ cxl' = [cxl EXCEPT ![d] = IF @ = "taking" THEN "detached" ELSE "idle"]
    /\ UNCHANGED <<row, slotVars, runVars, reqVars, hubVars, sysVars>>
-----------------------------------------------------------------------------
(* Removal of a key (RemoveProject::execute), as far as the queue meets    *)
(* it: the check that nothing is active, and the deletion of the rows.     *)

\* The keys are registered from earlier deployments; one removal each.
RemoveCheck(p) ==
    /\ up
    /\ p \notin leaving
    /\ \A d \in DeploysOf(p) : row[d] \notin Active
    /\ Spend("removal")
    /\ leaving' = leaving \cup {p}
    /\ UNCHANGED <<row, slotVars, runVars, reqVars, cxl, hubVars, up>>

RemoveRows(p) ==
    /\ p \in leaving
    /\ row' = [d \in Deploys |-> IF ProjectOf[d] = p THEN "none" ELSE row[d]]
    /\ leaving' = leaving \ {p}
    /\ UNCHANGED <<slotVars, runVars, reqVars, cxl, hubVars, up, spent>>
-----------------------------------------------------------------------------
(* Viewers and the process.                                                *)

\* deployment_logs without a hub entry: the row's status is what the viewer
\* is sent as final, "interrupted" standing for a row that is not terminal.
ViewPast(d) ==
    /\ up
    /\ d \notin stream
    /\ row[d] # "none"
    /\ told' = [told EXCEPT ![d] = @ \cup
                   {IF row[d] \in Terminal THEN row[d] ELSE "interrupted"}]
    /\ Spend("latecomer")
    /\ UNCHANGED <<row, slotVars, runVars, reqVars, cxl, stream, sysVars>>

\* The process dies: all that is in memory is gone, the rows are not.
Crash ==
    /\ up
    /\ Spend("crash")
    /\ up' = FALSE
    /\ running' = [p \in Projects |-> None]
    /\ pending' = [p \in Projects |-> None]
    /\ token' = {}
    /\ req' = [d \in Deploys |-> IF req[d] \in {"idle", "answered", "rejected"}
                                 THEN req[d] ELSE "lost"]
    /\ old' = [d \in Deploys |-> None]
    /\ run' = [d \in Deploys |-> IF run[d] = "none" THEN "none" ELSE "gone"]
    /\ verdict' = [d \in Deploys |-> "none"]
    /\ absent' = {}
    /\ cxl' = [d \in Deploys |-> "idle"]
    /\ stream' = {}
    /\ leaving' = {}
    /\ UNCHANGED <<row, told>>

\* run: the sweep comes before the first connection is accepted.
Startup ==
    /\ ~up
    /\ SweepInterrupted
    /\ up' = TRUE
    /\ UNCHANGED <<slotVars, runVars, reqVars, cxl, hubVars, leaving, spent>>
-----------------------------------------------------------------------------
SubmitStep(d) ==
    \/ InsertRow(d) \/ Refuse(d) \/ StartNow(d) \/ Replace(d)
    \/ RecordSuperseded(d) \/ CloseSuperseded(d)

RunStep(d) ==
    \/ StartRun(d) \/ EndStages(d) \/ RecordVerdict(d) \/ CloseRun(d)
    \/ NextInLine(d)

CancelStep(d) ==
    CancelQueued(d) \/ CancelElse(d) \/ RecordCanceled(d) \/ CloseCanceled(d)

Next ==
    \/ \E d \in Deploys :
        \/ Submit(d) \/ SubmitStep(d) \/ DropSubmit(d)
        \/ RunStep(d) \/ Panic(d)
        \/ CancelRead(d) \/ CancelStep(d) \/ DropCancel(d)
        \/ ViewPast(d)
    \/ \E p \in Projects : RemoveCheck(p) \/ RemoveRows(p)
    \/ Crash \/ Startup

Spec == Init /\ [][Next]_vars

\* Tasks and handlers that can go on are polled, and a requested database
\* call returns.  Fetch, build, up and on_create have timeouts and health a
\* deadline; the calls of the other stages return.  Nothing makes a client
\* submit, cancel, look or disconnect, or the process stop.
FairSpec ==
    /\ Spec
    /\ \A d \in Deploys : WF_vars(SubmitStep(d))
    /\ \A d \in Deploys : WF_vars(RunStep(d))
    /\ \A d \in Deploys : WF_vars(CancelStep(d))
    /\ WF_vars(Startup)
-----------------------------------------------------------------------------
(* Properties.                                                             *)

\* Its task is alive, from the spawn to the last line of run_project.
Live(d) == run[d] \notin {"none", "panicked", "gone"}

\* The slot and the task agree: whoever is alive is its key's running entry,
\* so two runs of one key never overlap (scheduler.rs: submit against
\* run_project's exit); and an entry outlives its task only when that
\* panicked.  run_project dies with the run it awaits, so the entry of such a
\* run stays until the process ends, whoever submits, cancels or is removed.
OneRunPerKey ==
    \A d \in Deploys :
        running[ProjectOf[d]] = d <=> Live(d) \/ run[d] = "panicked"

\* Nothing waits behind an idle key: the slot is dropped only when no one is
\* waiting in it, so no queued deployment is ever forgotten by run_project.
NoneWaitsForNobody ==
    \A p \in Projects : pending[p] # None => running[p] # None

\* Who has the final status of a deployment still to write: the queue that is
\* to start it, the handler that superseded it or canceled it, its run.
Custodians(d) ==
    (IF pending[ProjectOf[d]] = d THEN {"queue"} ELSE {})
    \cup (IF Live(d) THEN {"run"} ELSE {})
    \cup (IF cxl[d] \in {"taking", "taken", "detached"} THEN {"cancel"} ELSE {})
    \cup {x \in Deploys : old[x] = d}

\* No two of them ever have it at once, whatever submits, cancels and
\* promotions race for the same entry: the final status is decided once.  After
\* a panic nobody has it: no handler takes over what the dead task owed.
OneCustodian ==
    \A d \in Deploys :
        /\ \A c, e \in Custodians(d) : c = e
        /\ run[d] = "panicked" => Custodians(d) = {}

\* record_finished overwrites whatever the row says (no status in its WHERE);
\* still no row ever changes from one final status to another or comes back.
FinalStatusStable ==
    [][\A d \in Deploys : row[d] \in Terminal => row'[d] \in {row[d], "none"}]_row

\* A superseded deployment, and one canceled in the queue, never starts, and
\* no deployment starts twice.
NeverStartsAgain ==
    [][\A d \in Deploys : run[d] # "spawned" /\ run'[d] = "spawned" =>
            /\ run[d] = "none"
            /\ row[d] \notin Terminal
            /\ told[d] = {}
            /\ Custodians(d) \subseteq {"queue"}]_run

\* None of these has happened.
Without(kinds) == \A kind \in kinds : spent[kind] = 0

\* A key is wedged while its running entry names a run that panicked: nobody
\* will hand it on.  What it strands is that run and whoever waits behind it.
Wedged(p) == running[p] # None /\ run[running[p]] = "panicked"

Stranded(d) == LET p == ProjectOf[d] IN Wedged(p) /\ d \in {running[p], pending[p]}

\* While storage answers and clients stay, a row that says queued or running
\* is owed its final status by somebody, or stranded: it is the row of a run
\* that panicked, or it waits behind one, and blocks `rpi rm` until it is
\* replaced, canceled or, for the run itself, swept by a restart.  No crash,
\* removal or cancel leaves such a row, and no panic one that is elsewhere.
ActiveRowIsOwed ==
    up /\ Without({"storage", "disconnect"}) => \A d \in Deploys :
            row[d] \in Active =>
                \/ req[d] = "inserted"
                \/ Stranded(d)
                \/ /\ Custodians(d) # {}
                   /\ pending[ProjectOf[d]] = d => Live(running[ProjectOf[d]])

\* While storage answers, clients stay and no run panics, every viewer of a
\* deployment is sent the same final status, live, replayed or read back after
\* a restart, and it is the one recorded (the row is written before the stream
\* is closed).
ViewersAgree ==
    Without({"storage", "disconnect", "panic"}) => \A d \in Deploys :
        Cardinality(told[d] \cup ({row[d]} \cap Terminal)) <= 1

\* Once its request is in, a deployment gets a final status and its log stream
\* ends, or the row went with its key (FairSpec; storage and clients stay).
EveryDeployEnds ==
    \A d \in Deploys :
        req[d] = "inserting" ~> d \notin stream /\ row[d] \notin Active

-----------------------------------------------------------------------------
(* The queue implements DeployQueue.                                       *)

\* Turned away, or in the queue once and no longer.
Over == {d \in Deploys :
            /\ req[d] \notin {"idle", "inserting", "inserted", "refused"}
            /\ d \notin {running[ProjectOf[d]], pending[ProjectOf[d]]}}

\* Replaced, and the handler that replaced it has yet to tell its viewers.
Outgoing == {old[d] : d \in Deploys} \ {None}

Queue == INSTANCE DeployQueue WITH
             active <- running, waiting <- pending, outgoing <- Outgoing,
             over <- Over, serving <- up

\* Every behaviour of the scheduler, its handlers and its runs is one of the
\* promised queue: latest wins, immediate promotion, nothing comes back.
ImplementsQueue == Queue!Spec

\* And whoever has the key gives it up in the end, so the one waiting runs.
ImplementsFairQueue == Queue!FairSpec
=============================================================================
