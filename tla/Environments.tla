---------------------------- MODULE Environments ----------------------------
(***************************************************************************)
(* The life of a project or environment key on the agent: what a           *)
(* deployment makes, stage after stage (run_stages, application/deploy.rs; *)
(* infrastructure/repo.rs), what a removal or a reset-data takes away,     *)
(* step after step (application/remove.rs, environments.rs), and the       *)
(* reaper that removes environments whose ttl is over.                     *)
(*                                                                         *)
(* A step may fail with its effect done or not: an error, a timeout, a     *)
(* canceled deployment, a client that disconnects all end the sequence     *)
(* there.  Deployments of a key follow each other (Scheduler), and routing *)
(* a hostname is one instant (Ingress, RouteTable); nothing keeps a        *)
(* deployment and a removal of one key apart but a look at the history.    *)
(*                                                                         *)
(* The secret bundle is left to its store.  No two keys ask for the same   *)
(* hostname, and a key keeps its ttl.                                      *)
(***************************************************************************)
EXTENDS Integers, FiniteSetsExt

CONSTANTS Keys,      \* project keys
          Envs,      \* those of environments
          Ports,     \* the agent's range of host ports
          Asks,      \* what a deployment of each key may ask for
          Operators, \* clients that remove and reset
          Reaper,    \* the sweep of expired environments
          None,      \* nothing there
          Budget     \* bound on each kind of event

Kinds == {"deploy", "failure", "broken", "overlap", "removal", "reset", "age",
          "crash"}

Workers == Operators \cup {Reaper}

\* Of the configuration: the hostname, and the compose path in the tree.
Hosts  == {c.host : c \in UNION {Asks[k] : k \in Keys}} \ {None}
Files  == {c.file : c \in UNION {Asks[k] : k \in Keys}}
Config == [host : Hosts \cup {None}, file : Files]

HostsOf(k) == {c.host : c \in Asks[k]} \ {None}

\* Registry, of each key: its port and configuration, on_create_done, and
\* whether its ttl has passed since its last success.
Row == [port : Ports, conf : Config, done : BOOLEAN, stale : BOOLEAN]

\* The stage that comes next.
Stages == {"register", "fetch", "override", "up", "route", "seed", "flag",
           "stamp", "record"}

\* What it was submitted with, and the port and on_create_done upsert returned.
Deploy == [at : Stages, ask : Config, port : Ports \cup {None}, done : BOOLEAN]

\* "look" is the reaper's fresh look; nothing is done before "check" is over.
Steps == {"look", "get", "check", "down", "unroute", "cleanup", "override",
          "rows", "unregister", "unflag"}

\* "rm" may keep the volumes, "destroy" does not; was: the configuration read.
Job == [key : Keys, plan : {"rm", "destroy", "reset"}, at : Steps,
        was : Config \cup {None}]

Volumes == {"none", "empty", "seeded"}

ASSUME EnvironmentsAssumption ==
    /\ Envs \subseteq Keys
    /\ Ports \subseteq Nat /\ IsFiniteSet(Ports)
    /\ Reaper \notin Operators
    /\ \A k \in Keys : Asks[k] \subseteq Config
    /\ \A j, k \in Keys : j # k => HostsOf(j) \cap HostsOf(k) = {}
    /\ None \notin Ports \cup Keys \cup Files \cup Config \cup Row \cup Deploy \cup Job
    /\ Budget \in [Kinds -> Nat]

VARIABLES
    reg,      \* the registry row of each key, or None
    active,   \* keys with a queued or running deployment in the history
    dep,      \* the deployment of each key
    tree,     \* the compose path in the key's work tree, None: no tree
    override, \* the port the key's generated override publishes, or None
    stack,    \* the port the key's running containers publish, or None
    data,     \* the key's volumes
    route,    \* the port each hostname leads to, or None
    job,      \* what each worker is doing
    due,      \* expired environments the sweep has listed and not visited
    lapsed,   \* those still expired, by their row, against the time of the tick
    budget    \* events of each kind still allowed

hostVars  == <<tree, override, stack, data, route>>
sweepVars == <<due, lapsed>>
vars      == <<reg, active, dep, hostVars, job, sweepVars, budget>>

TypeOK ==
    /\ reg \in [Keys -> Row \cup {None}]
    /\ active \in SUBSET Keys
    /\ dep \in [Keys -> Deploy \cup {None}]
    /\ tree \in [Keys -> Files \cup {None}]
    /\ override \in [Keys -> Ports \cup {None}]
    /\ stack \in [Keys -> Ports \cup {None}]
    /\ data \in [Keys -> Volumes]
    /\ route \in [Hosts -> Ports \cup {None}]
    /\ job \in [Workers -> Job \cup {None}]
    /\ due \in SUBSET Envs
    /\ lapsed \in SUBSET Envs
    /\ budget \in [Kinds -> Nat]

Init ==
    /\ reg = [k \in Keys |-> None]
    /\ active = {}
    /\ dep = [k \in Keys |-> None]
    /\ tree = [k \in Keys |-> None]
    /\ override = [k \in Keys |-> None]
    /\ stack = [k \in Keys |-> None]
    /\ data = [k \in Keys |-> "none"]
    /\ route = [h \in Hosts |-> None]
    /\ job = [w \in Workers |-> None]
    /\ due = {}
    /\ lapsed = {}
    /\ budget = Budget

Spend(kinds) ==
    /\ \A kind \in kinds : budget[kind] > 0
    /\ budget' = [kind \in Kinds |-> budget[kind] - IF kind \in kinds THEN 1 ELSE 0]

Registered(k) == reg[k] # None
-----------------------------------------------------------------------------
(* A deployment.                                                           *)

At(k, stage) == dep[k] # None /\ dep[k].at = stage

\* Its end, whatever it is, is in the history; after a removal has deleted the
\* rows there is none to update.
End(k) ==
    /\ dep' = [dep EXCEPT ![k] = None]
    /\ active' = active \ {k}

\* A stage is over: on to the next, or ended there after all.
GoOn(k, stage) ==
    \/ dep' = [dep EXCEPT ![k].at = stage] /\ UNCHANGED <<active, budget>>
    \/ End(k) /\ Spend({"failure"})

\* Past the first check for active deployments.
Committed(w) ==
    job[w] # None /\ (w = Reaper \/ job[w].at \notin {"get", "check"})

Submit(k, c) ==
    /\ dep[k] = None
    /\ Spend(IF \E w \in Workers : Committed(w) /\ job[w].key = k
             THEN {"deploy", "overlap"} ELSE {"deploy"})
    /\ dep' = [dep EXCEPT ![k] = [at |-> "register", ask |-> c,
                                  port |-> None, done |-> FALSE]]
    /\ active' = active \cup {k}
    /\ UNCHANGED <<reg, hostVars, job, sweepVars>>

\* Canceled in the queue, timed out, or a stage that failed before it began.
Abort(k) ==
    /\ dep[k] # None
    /\ Spend({"failure"})
    /\ End(k)
    /\ UNCHANGED <<reg, hostVars, job, sweepVars>>

FreePorts == Ports \ {reg[k].port : k \in {j \in Keys : Registered(j)}}

\* An existing row keeps its port and flags; a new one has the lowest free.
Upsert(k, c) ==
    IF Registered(k) THEN [reg[k] EXCEPT !.conf = c]
    ELSE [port |-> Min(FreePorts), conf |-> c, done |-> FALSE, stale |-> FALSE]

Register(k) ==
    /\ At(k, "register")
    /\ \/ /\ Registered(k) \/ FreePorts # {}
          /\ reg' = [reg EXCEPT ![k] = Upsert(k, dep[k].ask)]
          /\ \/ /\ dep' = [dep EXCEPT ![k] = [at |-> "fetch", ask |-> @.ask,
                                port |-> reg'[k].port, done |-> reg'[k].done]]
                /\ UNCHANGED <<active, budget>>
             \/ End(k) /\ Spend({"failure"})
       \/ ~Registered(k) /\ FreePorts = {} /\ End(k) /\ UNCHANGED <<reg, budget>>
    /\ UNCHANGED <<hostVars, job, sweepVars>>

Fetch(k) ==
    /\ At(k, "fetch")
    /\ tree' = [tree EXCEPT ![k] = dep[k].ask.file]
    /\ GoOn(k, "override")
    /\ UNCHANGED <<reg, override, stack, data, route, job, sweepVars>>

\* Services are read from the compose file; a tree that is gone fails it.
WriteOverride(k) ==
    /\ At(k, "override")
    /\ \/ /\ tree[k] = dep[k].ask.file
          /\ override' = [override EXCEPT ![k] = dep[k].port]
          /\ GoOn(k, "up")
       \/ tree[k] # dep[k].ask.file /\ End(k) /\ UNCHANGED <<override, budget>>
    /\ UNCHANGED <<reg, tree, stack, data, route, job, sweepVars>>

\* Build, start and health: a stack that is not healthy stays up.  It cannot
\* start on a port that another stack publishes.
CanStart(k) ==
    /\ tree[k] = dep[k].ask.file
    /\ override[k] # None
    /\ \A j \in Keys \ {k} : stack[j] # override[k]

Up(k) ==
    /\ At(k, "up")
    /\ \/ /\ CanStart(k)
          /\ stack' = [stack EXCEPT ![k] = override[k]]
          /\ data' = [data EXCEPT ![k] = IF @ = "none" THEN "empty" ELSE @]
          /\ GoOn(k, "route")
       \/ ~CanStart(k) /\ End(k) /\ UNCHANGED <<stack, data, budget>>
    /\ UNCHANGED <<reg, tree, override, route, job, sweepVars>>

Route(k) ==
    /\ At(k, "route")
    /\ route' = [h \in Hosts |-> IF h = dep[k].ask.host THEN dep[k].port ELSE route[h]]
    /\ GoOn(k, "seed")
    /\ UNCHANGED <<reg, tree, override, stack, data, job, sweepVars>>

\* Slip for Seed: the flag is set before on_create has run.
FlagFirst(k) ==
    /\ At(k, "seed")
    /\ IF k \in Envs /\ ~dep[k].done
       THEN /\ reg' = [reg EXCEPT ![k] = IF Registered(k) THEN [@ EXCEPT !.done = TRUE] ELSE @]
            /\ \/ data' = [data EXCEPT ![k] = "seeded"] /\ GoOn(k, "stamp")
               \/ End(k) /\ Spend({"failure"}) /\ UNCHANGED data
       ELSE GoOn(k, "stamp") /\ UNCHANGED <<reg, data>>
    /\ UNCHANGED <<tree, override, stack, route, job, sweepVars>>

\* on_create runs in the containers if upsert said it has not; an exec that is
\* given up on may still come to its end.
Seed(k) ==
    /\ At(k, "seed")
    /\ \/ /\ k \notin Envs \/ dep[k].done
          /\ GoOn(k, "stamp")
          /\ UNCHANGED data
       \/ /\ k \in Envs /\ ~dep[k].done /\ stack[k] # None
          /\ data' = [data EXCEPT ![k] = "seeded"]
          /\ GoOn(k, "flag")
       \/ /\ k \in Envs /\ ~dep[k].done /\ stack[k] = None
          /\ End(k)
          /\ UNCHANGED <<data, budget>>
    /\ UNCHANGED <<reg, tree, override, stack, route, job, sweepVars>>

\* An UPDATE by name, of no row if the key is gone.
SetDone(k, flag) ==
    reg' = [reg EXCEPT ![k] = IF Registered(k) THEN [@ EXCEPT !.done = flag] ELSE @]

Flag(k) ==
    /\ At(k, "flag")
    /\ SetDone(k, TRUE)
    /\ GoOn(k, "stamp")
    /\ UNCHANGED <<hostVars, job, sweepVars>>

\* mark_deploy_success; when it fails the deployment is a success all the same.
Stamp(k) ==
    /\ At(k, "stamp")
    /\ dep' = [dep EXCEPT ![k].at = "record"]
    /\ \/ /\ reg' = [reg EXCEPT ![k] =
                        IF Registered(k) THEN [@ EXCEPT !.stale = FALSE] ELSE @]
          /\ lapsed' = lapsed \ {k}
          /\ UNCHANGED budget
       \/ Spend({"failure"}) /\ UNCHANGED <<reg, lapsed>>
    /\ UNCHANGED <<active, hostVars, job, due>>

Record(k) ==
    /\ At(k, "record")
    /\ End(k)
    /\ UNCHANGED <<reg, hostVars, job, sweepVars, budget>>
-----------------------------------------------------------------------------
(* A removal or a reset.                                                   *)

Doing(w, step) == job[w] # None /\ job[w].at = step

Leave(w) == job' = [job EXCEPT ![w] = None]

\* A step is over: on to the next, or ended there after all.
Then(w, step) ==
    \/ job' = [job EXCEPT ![w].at = step] /\ UNCHANGED budget
    \/ Leave(w) /\ Spend({"broken"})

Begin(w, k, p) ==
    /\ job[w] = None
    /\ p = "rm" \/ k \in Envs
    /\ Spend({IF p = "reset" THEN "reset" ELSE "removal"})
    /\ job' = [job EXCEPT ![w] = [key |-> k, plan |-> p, at |-> "get", was |-> None]]
    /\ UNCHANGED <<reg, active, dep, hostVars, sweepVars>>

\* The client disconnects, or the next step fails before it begins.
Break(w) ==
    /\ job[w] # None
    /\ Spend({"broken"})
    /\ Leave(w)
    /\ UNCHANGED <<reg, active, dep, hostVars, sweepVars>>

Get(w) ==
    /\ Doing(w, "get")
    /\ LET k == job[w].key
       IN IF Registered(k)
          THEN job' = [job EXCEPT ![w].at = "check", ![w].was = reg[k].conf]
          ELSE Leave(w)
    /\ UNCHANGED <<reg, active, dep, hostVars, sweepVars, budget>>

Check(w) ==
    /\ Doing(w, "check")
    /\ IF job[w].key \in active THEN Leave(w)
                                ELSE job' = [job EXCEPT ![w].at = "down"]
    /\ UNCHANGED <<reg, active, dep, hostVars, sweepVars, budget>>

\* Slip for Down: a `compose down` that fails is only logged.
DownAnyhow(w) ==
    /\ Doing(w, "down")
    /\ \/ stack' = [stack EXCEPT ![job[w].key] = None]
       \/ UNCHANGED stack
    /\ data' = [data EXCEPT ![job[w].key] = "none"]
    /\ Then(w, IF job[w].plan = "reset" THEN "unflag" ELSE "unroute")
    /\ UNCHANGED <<reg, active, dep, tree, override, route, sweepVars>>

\* `compose down`, if the compose file that was registered is in the tree.
Down(w) ==
    /\ Doing(w, "down")
    /\ LET k == job[w].key
       IN \/ /\ tree[k] = job[w].was.file
             /\ stack' = [stack EXCEPT ![k] = None]
             /\ \/ data' = [data EXCEPT ![k] = "none"]
                \/ job[w].plan = "rm" /\ UNCHANGED data
          \/ tree[k] # job[w].was.file /\ UNCHANGED <<stack, data>>
    /\ Then(w, IF job[w].plan = "reset" THEN "unflag" ELSE "unroute")
    /\ UNCHANGED <<reg, active, dep, tree, override, route, sweepVars>>

\* Slip for Unroute: a DNS or restart error is only logged.
UnrouteAnyhow(w) ==
    /\ Doing(w, "unroute")
    /\ \/ route' = [h \in Hosts |-> IF h = job[w].was.host THEN None ELSE route[h]]
       \/ UNCHANGED route
    /\ Then(w, "cleanup")
    /\ UNCHANGED <<reg, active, dep, tree, override, stack, data, sweepVars>>

Unroute(w) ==
    /\ Doing(w, "unroute")
    /\ route' = [h \in Hosts |-> IF h = job[w].was.host THEN None ELSE route[h]]
    /\ Then(w, "cleanup")
    /\ UNCHANGED <<reg, active, dep, tree, override, stack, data, sweepVars>>

\* The work tree and the deploy key, then the secret bundles.
Cleanup(w) ==
    /\ Doing(w, "cleanup")
    /\ tree' = [tree EXCEPT ![job[w].key] = None]
    /\ Then(w, "override")
    /\ UNCHANGED <<reg, active, dep, override, stack, data, route, sweepVars>>

DropOverride(w) ==
    /\ Doing(w, "override")
    /\ override' = [override EXCEPT ![job[w].key] = None]
    /\ Then(w, "rows")
    /\ UNCHANGED <<reg, active, dep, tree, stack, data, route, sweepVars>>

DropRows(w) ==
    /\ Doing(w, "rows")
    /\ active' = active \ {job[w].key}
    /\ Then(w, "unregister")
    /\ UNCHANGED <<reg, dep, hostVars, sweepVars>>

\* Slip for Unregister: the row of an environment stays.
KeepRow(w) ==
    /\ Doing(w, "unregister")
    /\ Leave(w)
    /\ UNCHANGED <<reg, active, dep, hostVars, sweepVars, budget>>

Unregister(w) ==
    /\ Doing(w, "unregister")
    /\ reg' = [reg EXCEPT ![job[w].key] = None]
    /\ lapsed' = lapsed \ {job[w].key}
    /\ Leave(w)
    /\ UNCHANGED <<active, dep, hostVars, due, budget>>

Unflag(w) ==
    /\ Doing(w, "unflag")
    /\ SetDone(job[w].key, FALSE)
    /\ Leave(w)
    /\ UNCHANGED <<active, dep, hostVars, sweepVars, budget>>
-----------------------------------------------------------------------------
(* The reaper, and time.                                                   *)

Age(k) ==
    /\ k \in Envs /\ Registered(k) /\ ~reg[k].stale
    /\ Spend({"age"})
    /\ reg' = [reg EXCEPT ![k].stale = TRUE]
    /\ UNCHANGED <<active, dep, hostVars, job, sweepVars>>

\* A tick: all environments, against the time of the tick.
Expired == {k \in Envs : Registered(k) /\ reg[k].stale}

Sweep ==
    /\ job[Reaper] = None /\ due = {}
    /\ Expired # {}
    /\ due' = Expired
    /\ lapsed' = Expired
    /\ UNCHANGED <<reg, active, dep, hostVars, job, budget>>

\* The next of the list; one with a deployment waits for the next tick.
Visit(k) ==
    /\ job[Reaper] = None /\ k \in due
    /\ due' = due \ {k}
    /\ IF k \in active
       THEN lapsed' = lapsed \ {k} /\ UNCHANGED job
       ELSE /\ job' = [job EXCEPT ![Reaper] =
                   [key |-> k, plan |-> "destroy", at |-> "look", was |-> None]]
            /\ UNCHANGED lapsed
    /\ UNCHANGED <<reg, active, dep, hostVars, budget>>

\* Slip for Look: what was listed as expired still is.
TrustTheList ==
    /\ Doing(Reaper, "look")
    /\ lapsed' = lapsed \ {job[Reaper].key}
    /\ job' = [job EXCEPT ![Reaper].at = "get"]
    /\ UNCHANGED <<reg, active, dep, hostVars, due, budget>>

\* The row is read again, and compared with the same time of the tick: a
\* success since then, or a new row, saves the environment.
Look ==
    /\ Doing(Reaper, "look")
    /\ lapsed' = lapsed \ {job[Reaper].key}
    /\ IF job[Reaper].key \in lapsed THEN job' = [job EXCEPT ![Reaper].at = "get"]
                                     ELSE Leave(Reaper)
    /\ UNCHANGED <<reg, active, dep, hostVars, due, budget>>

\* The agent dies and restarts, its sweep ending what the history calls active.
Crash ==
    /\ Spend({"crash"})
    /\ active' = {}
    /\ dep' = [k \in Keys |-> None]
    /\ job' = [w \in Workers |-> None]
    /\ due' = {}
    /\ lapsed' = {}
    /\ UNCHANGED <<reg, hostVars>>

DeployStep(k) ==
    \/ Register(k) \/ Fetch(k) \/ WriteOverride(k) \/ Up(k) \/ Route(k)
    \/ Seed(k) \/ Flag(k) \/ Stamp(k) \/ Record(k)

WorkStep(w) ==
    \/ Get(w) \/ Check(w) \/ Down(w) \/ Unroute(w) \/ Cleanup(w)
    \/ DropOverride(w) \/ DropRows(w) \/ Unregister(w) \/ Unflag(w)

ReaperStep == Sweep \/ (\E k \in Envs : Visit(k)) \/ Look

Next ==
    \/ \E k \in Keys : \/ \E c \in Asks[k] : Submit(k, c)
                       \/ Abort(k)
                       \/ DeployStep(k)
                       \/ Age(k)
    \/ \E w \in Operators, k \in Keys, p \in {"rm", "destroy", "reset"} : Begin(w, k, p)
    \/ \E w \in Workers : Break(w) \/ WorkStep(w)
    \/ ReaperStep
    \/ Crash

Spec == Init /\ [][Next]_vars

\* Tasks and handlers that can go on do; the reaper's timer ticks.
FairSpec ==
    /\ Spec
    /\ \A k \in Keys : WF_vars(DeployStep(k))
    /\ \A w \in Workers : WF_vars(WorkStep(w))
    /\ WF_vars(ReaperStep)
-----------------------------------------------------------------------------
(* Properties.                                                             *)

\* The registry is the trace by which everything else is found and removed: a
\* stack runs on the port its row says, and a key without a row has no work
\* tree and no override left, however a removal was cut short and retried
\* (environments.md, item 14).  Ports are given out again, so a stack that is
\* forgotten is on somebody else's.
NothingOrphaned ==
    \A k \in Keys :
        /\ stack[k] # None => Registered(k) /\ stack[k] = reg[k].port
        /\ ~Registered(k) => tree[k] = None /\ override[k] = None

\* A hostname leads to its own project or nowhere, and to it alone, over ports
\* that are given out again after a removal and routes that outlive a failed
\* deployment.
RouteLeadsHome ==
    \A k \in Keys : \A h \in HostsOf(k) : route[h] # None =>
        /\ Registered(k) /\ route[h] = reg[k].port
        /\ \A j \in Keys \ {k} : Registered(j) => reg[j].port # route[h]

\* An environment's deployment succeeds on volumes its on_create has seeded
\* (environments.md, item 10), whatever deployments before it failed and
\* whichever removals and resets came in between.
SuccessIsSeeded ==
    \A k \in Envs : At(k, "record") => data[k] = "seeded"

\* The reaper takes down what has expired by now, not what had when its sweep
\* began and has been deployed again since (environments.rs, line 209).
ReapsOnlyExpired ==
    Doing(Reaper, "down") /\ Registered(job[Reaper].key) => reg[job[Reaper].key].stale

\* An environment whose ttl is over is removed, unless it is deployed again.
ExpiredIsReaped ==
    \A k \in Envs : k \in Expired ~> k \notin Expired
=============================================================================
