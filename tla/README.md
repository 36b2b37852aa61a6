# Verification of the rpi agent

TLA+ models of the `rpi` deploy agent and its CLI (Rust, `src/crates`), checked
with TLC and proved with TLAPS. Everything here is translated from the source;
the line ranges each definition stands for are under `map` in `PROJECT.json`.

1. [The system](#1-the-system)
2. [Modules](#2-modules)
3. [Properties and hazards](#3-properties-and-hazards)
4. [Runs and bounds](#4-runs-and-bounds)
5. [Fairness](#5-fairness)
6. [Proofs](#6-proofs)
7. [Where the code disagrees](#7-where-the-code-disagrees)
8. [What is only checked, and what is not modelled](#8-what-is-only-checked-and-what-is-not-modelled)
9. [Plan](#9-plan)

## 1. The system

The agent is one tokio process on a small host. Short-lived CLI processes talk
HTTP to it. It deploys *keys*: projects, and environments of projects
(`project--env`), which have a ttl and an `on_create` command.

| Component | Keeps | Operations | Hard because |
| --- | --- | --- | --- |
| Deploy scheduler (`application/scheduler.rs`) | per key a `running` and a `pending` entry, under one mutex never held across an await | `submit`, `run_project`, `cancel` | every await is a point where a handler may be dropped, a database call fail, another handler run |
| Deployment history (`infrastructure/history.rs`, SQLite) | one row for each deployment: its status | `record_queued` (with retention), `mark_running`, `record_finished`, `sweep_interrupted`, `remove_project` | updates by id alone, no transaction spans two calls; the rows outlive the process |
| Deploy execution (`application/deploy.rs`) | nothing; works on the host | stages: register, fetch, secrets, build, up, health, route, seed, stamp | each may fail, hang, time out or be canceled in the middle; all builds share one semaphore |
| Events hub (`infrastructure/events.rs`) | the backlog and the live ring of each deployment | register, publish, finish, subscribe | viewers that come before, during and after the end, or fall behind |
| Agent HTTP API (`bin/agent/http.rs`) | nothing | one handler for each request | a handler is a future the server drops when the client disconnects |
| Agent process (`bin/agent/run.rs`) | the object graph | start, sweep, serve, reaper timer | it dies with rows active and containers up |
| Registry (`infrastructure/repo.rs`, SQLite) | the row of each key: port, configuration, last success, `on_create_done` | `upsert` with port allocation, `get`, `remove`, `list_environments`, flag and stamp | ports are given out again |
| Removal (`application/remove.rs`) | nothing; undoes what a deployment made | check, down, unroute, work tree, secrets, override, rows, registry | any step may fail; the retry finds what is left by the registry row |
| Environments (`application/environments.rs`) | nothing | destroy, reset-data, the ttl reaper | decisions from lists read earlier |
| Ingress (`infrastructure/cloudflared.rs`) | `config.yml` of the tunnel, shared by all keys | `upsert`, `remove`: read, edit, write, DNS, restart, roll back | no lock on the file; the write goes on when its future is dropped |
| Secret store and groups (`infrastructure/secrets.rs`, `application/secrets.rs`, `secretgroups.rs`) | encrypted bundles with revisions | guarded saves, merges, removals | a lock that is a guard of an awaiting future; revisions that restart |
| Secret files (`infrastructure/secretsfile.rs`) | files in the work tree, a manifest | write, clean up | run beside another injector of the same tree, or a thread left behind |
| Git source (`infrastructure/git.rs`) | work trees | clone, fetch, reset | what a killed git leaves is taken for a clone |
| Compose runtime (`infrastructure/docker.rs`, `overrides.rs`) | containers, volumes, override files | build, up, down, exec | a child process that outlives its caller |
| Setup, update, migrations (`bin/agent/setup.rs`, `update.rs`, `migrate.rs`, `uninstall.rs`) | users, directories, units, tunnel, binary, a ledger | some forty steps of the host, in sequences | most failures are noted and passed over; only the host says how far the last command came |
| CLI (`bin/cli/*`) | nothing | one command: handshake, gates, requests, streams | the agent may be another release at the next request |
| Project file and overlays (`bin/cli/overlay.rs`) | nothing | overlay, variables, slug, key | two passes, and the agent's own checks at the other end |

The rest (reports, configuration, rendering, helpers) is listed in `PROJECT.json`
with the reason it is left out.

How they interact. The CLI resolves the project's files to a key and a request.
A handler calls the scheduler, which writes the history and spawns a task; the
task runs the stages, which call registry, git, secrets, compose, ingress, in
that order, then writes the history, then closes the stream, then gives the key
to whoever waits. A removal is called by a handler or by the reaper's task, looks
once at the history for an active deployment, and then works beside the scheduler
with no lock in common. Deployments of different keys run at once and meet in the
ingress file, the port allocator, the secret groups and the build semaphore.

## 2. Modules

| Module | Models | State | Actions |
| --- | --- | --- | --- |
| `History` | the deployments table | `row`: the status of each deployment | operators, one for each method; used by `Scheduler` |
| `Scheduler` | `DeployScheduler`, `DeployProject::execute` around its stages, streams, the deploy, cancel and log handlers, crash and start | slots (`running`, `pending`, `token`), handlers (`req`, `old`, `absent`, `cxl`), runs (`run`, `verdict`), hub (`stream`, `told`) | one for each await of a handler or run: `Submit`, `InsertRow`, `StartNow`, `Replace`, ..., `NextInLine`; `DropSubmit`, `DropCancel`, `Panic`, `Crash`, `Startup` |
| `DeployQueue` | what the queue promises (abstract) | `active`, `waiting`, `outgoing`, `over`, `serving` | `Start`, `Line`, `Dismiss`, `TurnAway`, `Withdraw`, `Finish`, `Stop`, `Return` |
| `EventsHub` | `BroadcastHub` and its readers | `told`, `open`, `view` of each viewer | `Subscribe`, `Replay`, `Receive`, `Lag`, `Resubscribe` |
| `GitSource` | a work tree and its origin, one branch to which is only added | `tip`, `clone` | `Push`, `CloneOf`, `Pull`, `Reset`, and what a killed one leaves |
| `Pipeline` | the stages of several runs as they meet (extends the two above) | `run`, permits (`free`, `queue`, `granted`), `built`, `running` | `Begin`, `DoClone`, `Prepare`, `Acquired`, `Build`, ..., `Collect`, `End`; `Hang`, `Late`, `Pass`, `GiveUp`, `Error`, `Cancel`, `Panic`, `Crash` |
| `Environments` | stages of a deployment by what they leave; removal, destroy, reset-data, reaper | `reg`, `active`, `dep`; host: `tree`, `override`, `stack`, `data`, `route`; `job`, `due`, `lapsed` | one for each stage and step: `Register` ... `Record`, `Get`, `Check`, `Down` ... `Unregister`, `Unflag`, `Sweep`, `Visit`, `Look`, `Crash` |
| `SecretStore` | `EncryptedFileStore` and the requests that change it | `file`, `legacy`, `lock`; of a request `at`, `ref`, `guard`, `merge`, `load`, `target`, `seen`, `answer` | `Ask`, `Merge`, `Lock`, `Check`, `Write`, `Sweep`, `Unlegacy`, `Unlink`, `Drop`, `Crash` |
| `GuardedStore` | what the store promises (abstract) | `bundle`, `answer` | `Put`, `Confirm`, `Deny`, `Delete`, `Removed`, `GiveUp`, `Stop` |
| `SecretFiles` | injection of the layers of a key by deployments and applies | `stored`, `declared`; `disk`, `manifest`, `override`, `running`; `job` | one for each file system call: `Load`, `Env`, `Read`, `Put`, `Turn`, `Sweep`, `Note`; `Override`, `Up`, `Fail`, `Drop`, `Crash` |
| `Ingress` | `CloudflaredIngress` | `config`, `loaded`, `dns`; operations `at`, `goal`, `text`, `gone`, `answer`; observed: `met` | `Begin`, `Read`, `Truncate`, `Fill`, `Name`, `Restart`, `Refill`, `Unname`, `Drop`, `Crash` |
| `RouteTable` | what the ingress promises (abstract) | `routes`, `answer` | `Ask`, `Withdraw`, `Answer`, `Settle` |
| `IngressRules` | the edits of the rule list, pure | `rules` | `UpsertRule`, `RemoveRule` |
| `Overlay` | resolution of the project's files, pure | | `Resolve`, `Substitute`, `Slug`, `Key`, `VarSet` |
| `Addressing` | what a request is addressed to: checks of `create_deployment`, registry and its ports, the rule it leaves (extends `Overlay`, instances `IngressRules`) | `reg`, `range`, `rules`, `pending`, `running` | `Submit`, `Register`, `Publish`, `Break`, `Cancel`, `RemoveProject`, `Reconfigure` |
| `Install` | setup, update, migrate, uninstall | `host`, `cmd`, `undone` | one for each step of the host: `Obtain` ... `Purge`; `Fail`, `GiveUp`, `Cut` |
| `Client` | one CLI command against an agent that changes | `cmd`, `agent`, `bundle`, `dep`, `gh`, `done` | one for each request: `Connect`, `Check`, ..., `Put`, `Apply`, `Call`; `Stop`, `Boot`, `OtherPush`, `Developer` |
| `MC*` | instances for TLC | | budgets, key maps, symmetry |
| `*Proofs` | theorems | | |

How they fit. `Scheduler` takes the stages of a run as one step. Three modules
open them, and take from `Scheduler` that deployments of a key follow each other:
`Pipeline` (in what order they run, what they share, what they tell),
`Environments` (what they leave on the host), `SecretFiles` (what they inject).
`Environments` takes routing a hostname as one instant, which `Ingress` shows it
to be while operations neither meet nor are dropped (`RouteTable`), and `Ingress` takes an edit
of the document as changing one line, which `IngressRules` shows. `SecretFiles`
takes a bundle as replaced at once, which `SecretStore` shows it to be until a
client disconnects (`GuardedStore`). `Addressing` takes a removal as one step,
which `Environments` opens. `Client` takes the agent's handlers as single steps.

Correspondence with the code, where it is not one to one:

- An `.await` on the database is `spawn_blocking`: the write lands although the
  future that asked for it is dropped. In `Scheduler` it is two steps, the write
  and the resumption. `absent` holds the handlers dropped in between.
- The slots' mutex is never held across an await: what is done under it is one
  step. `NextInLine` (end of a run) promotes or releases in one step because the
  code does so in one critical section (`scheduler.rs`, `run_project`).
- `tokio::fs::write` truncates and then fills the file in a blocking thread:
  `Truncate` and `Fill`, and `Drop` in between leaves the thread going.
- A write through `atomicfile` is one step (a rename), with the temporary file
  left out. In `SecretStore` the lock is free again when the future is dropped,
  while the write may land later; in `SecretFiles` the whole file work is one
  blocking call that goes on without its injector (`gone`), and so is the override,
  once its directory is there.
- A deployment asks for a branch or, with 40 hexadecimal digits, for a commit
  (`DeployRef::parse`). `AskOf` says which in `Pipeline`, `Wanted` what is then
  checked out; a reset to a commit the clone has not fetched fails.
- In `Ingress`, `met` holds the hostnames whose last operation held the text of the
  file while another one read it, or the other way round.
- The semaphore of the builds is fair: `queue` is its line, `granted` are permits
  given to a waiter that has not been polled yet. A waiter dropped then passes
  its permit on (`Leave`).
- A call that hangs is a flag on the run. What a timeout, a cancel or an error
  leaves of a killed command is a choice over what it may have done
  (`TreesLeft`, `StacksLeft`).
- A stage of `Environments` that fails may have had its effect or not: `GoOn`
  and `Then` allow the end after the effect, `Abort` and `Break` before it.
- A clock is kept as what is compared: `reg[k].stale` is "the ttl has passed
  since the last success", `lapsed` the same against the time of the tick; the
  deadline of the health gate is `due`, that of the wait for a deploy key is
  `left`, a number of polls.
- `Install` has the steps of a command as sequences (`Migrating`, `Tunneling`,
  ...). `Needs` and `Skips` say on which host a step fails or does nothing;
  `cmd.left` what the command itself has left undone so far; `undone` what cut
  or failed ones left that a later one does not look for.
- Text is a sequence of model characters in `Overlay` and `Addressing`, because
  there the text is the question (slugs, references, dashes); a document is its
  branch, its hostname, and one field for all the others. The maximum lengths
  are `MaxSlug` and `MaxEnv`.
- Each kind of event that nothing in the system makes happen (a crash, a
  disconnect, an I/O error, a hang) is bounded by `Budget`, a choice out of
  `Budgets`, which the theorems leave free.

## 3. Properties and hazards

`PROJECT.json` lists each hazard at its line, with the properties that would
catch it. The properties, by component:

- Scheduler: `OneRunPerKey` (promotion and release against a submit; a slot
  outlives its task only after a panic),
  `OneCustodian` (the final status is decided by one of queue, run, cancel,
  superseding submit, and after a panic by none), `FinalStatusStable`,
  `NeverStartsAgain`, `ActiveRowIsOwed`
  (no orphan row but those a panic strands), `ViewersAgree`, `EveryDeployEnds`; `ImplementsFairQueue` says it
  all once more, abstractly.
- Stages: `SlotsKept` (no build permit is lost or made), `StoryTrue` (what a run
  tells is what happened, one stage at a time), `RunsWhatWasAsked` (no work tree
  or image of an earlier run passes for its own, whether a branch or a commit was
  asked for), `TimedRunsEnd`.
- Viewers: `ViewersSeeTheStory` (nothing missing or printed twice between what was
  replayed and what was live, a failure always seen, and no pane left open, not even
  of the stage a canceled run leaves open), `FollowersAreTold`.
- Environments: `NothingOrphaned`, `RouteLeadsHome` (the registry is the trace by
  which things are found, and ports are given out again), `SuccessIsSeeded`,
  `ReapsOnlyExpired`, `ExpiredIsReaped`.
- Secrets: `NoLostUpdate`, `NeverFallsBack`, `ImplementsStore` of the store;
  `LeavesWhatIsServed`, `NeverMissing`, `Told` of the injection.
- Ingress: `OthersUntouched` (what operations that meet lose is their own),
  `AnswersHold`, `ImplementsTable`.
- Addresses: `SentAsWritten` (two substitution passes against a definition in
  one), `IdentityKept`, `PortFound`, `RoutesKept`.
- Host: `Settles` (a command in which nothing fails repairs what earlier ones
  left), `RecordedIsDone`, `ServiceHasTunnel`, `OperatorsStays`.
- CLI: `ServedAsAsked`, `ExitIsTrue`, `CommandEnds`.

Some hold under a condition the property states, because the code breaks it
otherwise (section 7): `Without(kinds)`, `Undisturbed` and `Undropped` until an event
of the kind has happened, `calm` for injectors that nothing disturbs, `met` for
hostnames whose operations met, `Stranded` for rows behind a panic, `older` until an
older release comes up.

Type invariants are proved, not run (section 6). Every property is paired in
`PROJECT.json` with a slip (an operator of the module with one thing wrong) that
breaks it under the same configuration.

## 4. Runs and bounds

| Run | Instance | Shows |
| --- | --- | --- |
| `scheduler_troubles` | 3 deployments of 1 key; four budgets of three troubles, each once: storage, disconnect, crash; disconnect, panic, removal; storage, panic, removal; crash, removal, a late viewer | the safety of the queue, no orphan row but those of a panic, viewers agree |
| `scheduler_live` | 3 deployments, 1 crash, fair | every deployment ends, the waiting one gets the key; refinement of `DeployQueue` |
| `env_troubles` | 3 keys (one an environment), 2 ports, 3 deployments, 2 removals; a failed stage, a broken-off removal and a crash once each | nothing orphaned, routes lead home |
| `env_lifetimes` | 1 environment: 4 deployments, of which one may fail, a removal, a reset, 2 expiries; fair | seeding, reaping, and that the expired goes |
| `pipeline` | 1 permit, 2 keys, 1 repository; one deployment asks for the branch, one for a commit that is not there before a push, one for the first commit; 14 budgets: three deployments with a hang, a cancel or a panic; two with a pair of hangs, cancels, an error, a crash and a push; one that prints a line; one followed by a viewer that may fall behind, with each trouble | permits, the story and its viewers, the commit that runs, ends |
| `secrets_store` | 3 requests on 1 group and 1 key, each with a guard or none; a disconnect or a crash, each with a failing disk | no update lost, no way back to the old format; refinement of `GuardedStore` |
| `secret_files` | 2 deployments and 1 apply, 1 group, 1 variable, 2 files, 3 bundles; five budgets of edits, a failing disk, a drop, a crash, an overlap | what is left is what is served |
| `ingress_troubles` | 3 hostnames, 2 ports; six budgets: one operation at a time with a failing read, DNS call, restart and disk, a drop and a crash once each; one that begins beside another, with a DNS call and a restart that fail, a file and a disk, a drop or a crash; two that do | rules of others untouched, also by operations that meet; answers are true; refinement of `RouteTable` |
| `addressing` | 4 base documents, 5 overlays, their variables and branches; 2 requests open, up to 2 rows beside those of earlier agents, 2 port ranges, 1 hand-written rule | resolution, identity, ports, rules |
| `install` | 5 hosts (bare, old name, running, two with tunnels by hand), 3 commands, 1 cut, 1 failing step | what commands make of what earlier ones left |
| `install_migrate` | 1 command, no trouble | violated: see 7 |
| `client` | 22 commands and flags, 5 releases; an agent that stops, a broken request, a push of somebody else, in three combinations | exit codes, gates, ends |

Why the bounds are enough. In the scheduler the slots of different keys share
nothing but the table, and three deployments are what a key needs for one to
run, one to wait and one to supersede it. None of the properties needs the same
trouble twice, as one deployment can be hit by each at most once before it is
final; the triples let each pair of different troubles meet, but for a crash with
a panic (a run that is gone either way) and a late viewer with a storage error, a
disconnect or a panic, of which `ViewersAgree` says nothing. Three keys on two ports make the
allocator run out, and make a port pass from one key to another while the third
still holds its own. In `pipeline` one permit and three builds give a holder, one
that is granted and one behind it; two keys keep builds apart, one key passes its
work tree on. In `secrets_store` three requests are a look, a change that makes
it stale and a removal between them. In `secret_files` two pushes between three
injections make every file new, old or stale. Three hostnames are two whose
operations meet and one that must not be changed. Three commands are one that is cut, one that
stumbles over what is left and one that must settle it. The five releases are on
either side of each feature boundary. Where a theorem states the property, the
bound only served to find mistakes early.

`CHECK_DEADLOCK FALSE` stands where the instance really stops: every deployment or
command is over, or every event is spent. The ingress accepts operations for ever.

Symmetry is over deployments, requests, and over hostnames and ports of the
ingress, and is not used where a run checks liveness.

What the passing runs leave out on purpose, and what was found there, is in
section 7.

## 5. Fairness

Weak fairness of each deployment's own steps, each handler's, each removal's and
the reaper's (`Scheduler`, `Environments`), of each run's stages and of each
viewer (`Pipeline`), of the CLI and the restart of its agent (`Client`), and none of
anything else. A tokio task or handler that can go on is polled; `spawn_blocking`
returns. The slots' mutex is never held across an await, so weak fairness is
enough: a step that is possible stays possible until it is taken. The same goes
for a permit: the semaphore serves its line in order, so whoever is granted one
keeps it until it is polled.

`Scheduler` and `Environments` assume that every stage returns. `Pipeline` does
not: a call may hang (`Hang`), and no fairness wakes it. Fetch, build, up,
`on_create` and the image collection have timeouts (`deploy.rs`, `staged`), which
fire (`Late`); the health gate has a deadline it looks at between two probes
(`Pass`, `GiveUp`). A run that hangs in anything else is `Stuck`, and the
properties say so. The reaper's interval ticks. Nothing makes a client submit,
cancel or disconnect, a task panic or a process die. After a crash the process is
started again by systemd (`Startup`, `Boot`). The CLI's requests have no time limit;
that they are answered or broken is assumed, and that the agent ends the
deployment the command follows, and its container ends.

## 6. Proofs

All theorems are for any sets of deployments, keys, hostnames, ports, workers,
requests, names, commands, releases and any budget. They assume only the named
assumptions of the modules: the model values differ from the data, ports are
finite and natural numbers, and so on. Most of the properties are not inductive;
each module of proofs has the strengthening that is.

`SchedulerProofs`. `TypeCorrect` needs that a run whose stages are over has a
verdict. That two runs never overlap needs to know where every deployment is that
is not running; `Custody` says so: the one waiting stands behind a run of its own
key (`QueueCustody`); a replaced one belongs to one handler (`ReplacedCustody`); one
taken by a cancel never ran (`TakenCustody`); a run holds its key's slot and finds
its row without a final status until it writes it (`RunCustody`); before a
deployment enters the queue its row is not final (`NotYetIn`); a process that is
down has nothing in memory (`DownIsEmpty`); until it starts, its stream is open and
nobody has been told an end (`Unseen`). From it `OneRunHolds`, `NoneWaitsHolds`,
`OneCustodianHolds`, `FinalHolds`, `StartsOnceHolds`. A run that panicked keeps its
slot, alone of all that are not alive, and nobody has its row to write: `OneRunHolds`
and `OneCustodianHolds` say so. `OwedHolds` adds `Settled`: who is done writing has
written; and `SomeoneOwes`: an active row nobody has is that of a run that panicked. `ViewersHolds` adds `Telling`: an open stream has told
nobody the end and belongs to somebody who will close it, and one that was told
stays as the row says. `QueueImplemented`: the mapping takes the slots as they are,
`Outgoing` for the replaced ones that were not told, `Over` for what was turned
away or is in the queue no longer. Most steps stutter; the rest map to one action
of `DeployQueue`, and `Custody` says that the deployment is where it wants it.

`EnvironmentsProofs`. `TypeCorrect` has no condition; it rests on the lowest free
port being a port (`MinIsLeast`). `NothingIsOrphaned` and `RoutesLeadHome` hold
when `Apart`: no overlap, one hostname and one path for each key. The removal
deletes the row last, so the invariant says of each step what is already gone
(`Emptied`), that no deployment is there to bring it back (`Exclusion`: a worker
past its first look and a deployment are never of one key), that what it removes
is where the configuration says (`Asked`). A deployment starts containers and
routes on a port that upsert returned long before: `Backed` says it still is the
row's. `compose down` is skipped when there is no compose file: `Traced` says
that containers always have their tree. `Distinct`: no port is given out twice.
`SuccessSeeded` and `OnlyExpiredReaped` hold when also nothing is broken off
(`Unbroken`): `Honest` says what a row and a deployment believe of the volumes is
so, `Reaping` that what the reaper listed and looked at is still past its ttl.

`PipelineProofs`. `SlotsHold`. The count of permits is not inductive alone: that a
permit passed on reaches somebody needs that whoever is in line is there once
(`InOrder`) and waits exactly there or with a grant (`Waits`).
`DeploymentsRunWhatWasAsked` knows at each stage where the commit is (`Fetched`): in
the clone's refs at `reset` if the branch was asked for, in the work tree until the build is over, in the image
at `start`, in the containers from then on; and that runs of a key never meet
(`OneBegun`), so nobody else takes it away. Of a branch it is for keys whose repository stays
the same (`SameRepo`), because the origin of a clone is never changed; a commit
that was asked for runs or the deployment fails.
`StoriesAreTrue` says what a story holds while its run stands somewhere (`Told`):
the stage it is in was begun last (`Now`), those behind it are whole (`Passed`),
nothing has failed before the end, at most two events follow a failure, and none a
result. `ViewersAreShownTheStory` says where a viewer stands in it (`Fits`): what it
shows is what it read, its live events begin where its backlog ends, and what a lag
makes it skip is not the failure, since that is among the last events. For this the
backlog must hold two events and the ring three (`HubAssumption`); the code has
1000 and 1024.

`SecretStoreProofs`. `TypeCorrect` and `NoFallback` have no condition; the latter
rests on the old format going first (`OldFormatFirst`). `NoUpdateLost` and
`StoreImplemented` go up to the first disconnect: who holds the lock (`Request`),
what it relies on while it does (`Relies`), and that a bundle at the age and
revision its sender saw still holds what it saw (`Remembers`). Every step maps to
one action of `GuardedStore` or to none.

`SecretFilesProofs`. `ServedIsLeft`, `NothingMissing`, `ToldHolds`. An injector that
nothing disturbs is the only one (`Alone`); so what it has loaded so far is what
the first layers give (`Loading`), what it goes by is what is served (`Loaded`), and
what it wrote stays (`VarsIn`, `FilesIn`, `Runs`). That no other secret stays needs
what the manifest does not tell to be known (`Known`), and the sweep to take the
rest (`Sweeps`).

`RoutingProofs`, of `Ingress`. `Unmet` carries `OthersUntouched` (`OthersHold`) through
every overlap, drop, crash and full disk: an operation that has met no other has
the file for itself from its read to its decision, and what is answered of a
hostname that was not in a meeting is in the file and in every text that may still
be written. With operations one at a time, `Alone` (one under way, and it
has answered nothing) and `Snapshot` (between write and decision the file is the
text that was read, but for one line) hold as well. Without drops, crashes and
full disks (`Undisturbed`), `Consistent` and `Named` say that
cloudflared and DNS know the table callers rely on, `Routes`, in the middle of an
operation as well: hence `AnswersTrue`, and `TableImplemented`, where a change
takes effect when the operation decides, not when it writes.

`RoutingProofs`, of `Addressing`. `IdentityIsKept` rests on keys telling what they
are made of (`KeysDiffer`: the first two dashes end the project's name, the next
two the environment's; `KeyHasDashes`: no name of a project is a key of an
environment). So whoever submits under a key that is registered submits the same
thing (`Identity`), whatever was accepted before. `RoutesAreKept`: a list stays one
in which a host has one rule and the catch-all is last (`Listed`), an edit replaces a
rule or puts one in before the catch-all (`Spliced`), and neither moves what the
others find first. The operators that loop are recursive functions or folds of the
library; what they compute is proved over the numbers up to the length
(`Recursively` says such a function exists, `Inductively` what holds all along it):
the candidate of `allocate_port` is past every taken port below it
(`PortsAreFound`), a slug has no dash at its start and no two in a row
(`SlugOfGrows`), a text put together from texts is a text (`FlattenIs`).
`SentIsAsWritten` follows the two passes: a text whose references are all known
reads the same with more of them known (`ReadsAlike`), so the first pass reads the
branch (`BranchIs`) and the second the other fields (`FieldIs`) as one pass would;
slug and key have the form the agent asks for (`SentIsTaken`).
The assumptions are about the form of the data: documents and values are texts over
the model's characters, and `Absent` is none of them; the project's name has no two
dashes (`parse` refuses it); ports are 1 to `Top`; registries of earlier agents have no
environments; the lists that operators wrote are those cloudflared takes. That the
agent takes what the CLI sends is for names whose form the agent alone minds
(`Agreeable`: the characters of the project's name, the dashes and the length of the
environment's).

`ClientProofs`. `ServedHolds` rests on what the handshake is worth later: the
features a command was gated on are those of the release that answered (`Known`),
and one that came up since has them too unless it is older (`Newer`). `ExitHolds`
rests on the way a command of each kind goes (`Path`) and on what it has behind
it there (`Behind`).

`InstallProofs`. The hosts are any on which no command of ours was before
(`HostAssumption`): a host has the old name or the new one, what there is of the old
one has its user, nothing is ours yet, what runs is what is installed. From there
on, any commands, cuts and failures in any order. `InstallTyped` has no condition.
`ServicesHaveTunnels` says what is there before each step of the tunnel
(`Tunnels`). `RecordedMigrationsAreDone` says that the user is the last thing to be
renamed before the trees are moved (`Phases`), that the two names are never there
together (`Apart`), nor two trees (`TreesApart`), unless something is left undone
that a later command does not look for (`Pend`); `SetupsSettle` adds what a setup in
which nothing failed has behind it at each step (`Set`, by `Rank`), and that the
binary that runs is the one installed, but between a swap and its restart (`Runs`).
`OperatorsThingsStay` is about each step: none but a purge takes data, a setting or
a tunnel that was set up by hand.

## 7. Where the code disagrees

One run ends in a counterexample, quoted in `PROJECT.json`: in `install_migrate`,
`rpi agent migrate` opens its ledger in the new `/var/lib/rpi` before the migration
moves the old directory there; the move is skipped, and recorded as done.

The others were met while modelling. Where a property has a condition for one
(section 3), the model has the step, and the property fails without the condition.

Deployments:

- A client that disconnects while `record_queued` is in flight leaves a queued row
  that no slot has (`http.rs:275`). It blocks `rpi rm` of the key until a restart.
- A submit that superseded a deployment closes that one's stream after an await
  (`scheduler.rs:171`). When its client disconnects there, the stream stays open,
  though `deploy.md` (lines 89 to 91) says it ends immediately.
- A run that panics: `run_project` awaits it and dies with it (`scheduler.rs:190`),
  and the finish guard closes the stream only (`deploy.rs`, lines 39 to 45). The row
  stays running and the slot taken, so every later deployment of the key waits
  behind a task that is gone, until it is canceled or replaced, and `rpi rm` is refused
  until a restart. `OneRunPerKey`, `OneCustodian` and `ActiveRowIsOwed` say exactly
  this of a panic (`Wedged`, `Stranded`).
- A stage that is canceled is never told to have ended (`deploy.rs`, `tracked`, whose
  future is dropped): `StoryTrue` allows it the last place in a story, and the viewer
  closes its pane when the stream ends.
- The health gate looks at its budget between two probes; a probe has no timeout
  (`health.rs:108`), so one that is never answered holds the key for ever, although
  `deploy.md:160` gives the gate a time limit. The same goes for the route stage
  and the compose queries.
- A `git clone` killed by its timeout or a cancel leaves `.git`; every later fetch
  takes it for a clone and fails until the key is removed (`git.rs:105`). The
  origin of a clone is never changed.

Removal and environments:

- Removal beside a deployment. With one deployment submitted after a removal's or
  the reaper's look at the history (`Budget["overlap"] = 1`) `NothingOrphaned`,
  `RouteLeadsHome` and `ReapsOnlyExpired` fail. `ReapsOnlyExpired` fails as well
  when a deployment starts between the reaper's active check and its fresh look
  at the row and ends before RemoveProject's own check: the comment in
  `environments.rs` (lines 209 to 216) has only the one that ends before the fresh
  look.
- A hostname that changes: the rule of the old one is never removed, a removal
  takes away only the registered one, and the port is given to another key.
- A compose path that changes: upsert registers the new path, the fetch fails,
  and a removal looks for the new path in the old tree, finds no file and skips
  `compose down`.
- Reset-data removes the volumes, then clears `on_create_done`
  (`environments.rs:134`, `http.rs:1160`). If it ends in between, the next deployment
  skips `on_create` and succeeds on empty volumes.
- `on_create` runs twice when a deployment ends between the command and the flag.

Ingress and addresses:

- Two route stages read the same `config.yml`; the later write drops the earlier
  rule, after its deployment was told "route ok" (`cloudflared.rs:155`, against
  `ingress.md`, lines 106 to 113), and a rollback puts back a text without it.
  `Ingress` has both (`overlap`), and `OthersUntouched` confines the loss to the
  hostnames whose operations met; `AnswersHold` and `ImplementsTable` are stated
  until two are under way at once.
- The hostname of an environment is compared with its base's row as it is when
  the request comes (`http.rs:259`); a base that is queued may take it afterwards.
- The preflight of `--full-key` (`envcmds.rs`, lines 8 to 16) takes no key of a base
  project whose name has `_` or ends in `-`, which the agent allows.

Secrets:

- The save lock is released with a dropped future (`secrets.rs:46`, `:243`) while the
  write is in flight: a later save can be overwritten. Revisions restart after a
  removal (`README.md:451`), so an old editor's can match a new bundle.
- A deployment whose layers are all empty skips the write (`deploy.rs:281`): the
  files of an earlier one stay in the work tree.
- An apply beside a deployment rewrites the override it starts from
  (`secrets.rs:150`, whose comment says that no deployment is in flight): the
  containers are told the commit before. Each may also delete a file the other has
  just written, or note a manifest without it. `Told`, `NeverMissing` and
  `LeavesWhatIsServed` are about injectors no other is beside (`calm`).

CLI and host:

- Features are gated once, at the handshake (`commands.rs:27`); an agent that is
  replaced by an older release in between reads over the fields it does not know.
- A group's head that cannot be fetched is taken as revision 0
  (`commands.rs:371`): the push is then refused, not shown.
- If `groupmod` fails, a host is never seen as one to migrate again; a binary that
  was swapped is not restarted when setup then has errors (`update.rs`, lines 141 to
  152); an unfinished bootstrap of the tunnel is taken for one to adopt. `Settles`
  names these (`undone`).

## 8. What is only checked, and what is not modelled

Checked on the instances above and not proved: everything under fairness
(`EveryDeployEnds`, `ImplementsFairQueue`, `ExpiredIsReaped`, `TimedRunsEnd`,
`FollowersAreTold`, `CommandEnds`), which TLAPS does not reach. Every invariant and
every action property of a passing run is stated by a theorem.

Proved and not run: the type invariants, `NoneWaitsForNobody` and
`QueueImplemented` of the scheduler (`ImplementsFairQueue` contains it).

Left out of the modelled parts: log text, timestamps, commit ids; encryption and
file modes; the Cloudflare client behind a DNS call; the disabled ingress, which
keeps no state; columns of the registry no property reads; the refusal to remove
a group that a project declares, a guard nothing else depends on; prompts,
downloads and the release list of setup and update, which are choices; what git
garbage collection and `docker image prune` free; stop and restart of a stack,
which leave what they found.

Not modelled at all: what reads and reports only (logs, statistics, `doctor`,
listings); the listeners; configuration and wiring; rendering and serialisation;
file and process helpers, used as the atomic steps they provide. They make most
of the lines no definition maps: of the sources about half are tests kept in the
same files, and much of the rest is rendering, formatting, command lines for
`docker`, `git` and `systemctl`, and the declarations of types and messages. The
map covers about a tenth of all lines.

## 9. Plan

Done: the modules of section 2 and the proofs of section 6.

Left:

1. `Scheduler` composed with the removal's steps of `Environments`, for the
   windows of section 7 in one state space.
