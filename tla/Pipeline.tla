----------------------------- MODULE Pipeline -----------------------------
(***************************************************************************)
(* The stages of running deployments (run_stages, application/deploy.rs)   *)
(* as they meet each other: all builds share one semaphore, calls may hang *)
(* and some have a timeout, a cancel or a panic ends a run anywhere, the   *)
(* work tree of a key passes from one deployment to the next (GitSource),  *)
(* and each run tells its stages to those who follow it (EventsHub).       *)
(*                                                                         *)
(* What the stages leave on the host is in Environments, the secrets are   *)
(* in SecretFiles, the queue before them is in Scheduler: deployments of a *)
(* key follow each other.                                                  *)
(***************************************************************************)
EXTENDS EventsHub, GitSource

CONSTANTS KeyOf,    \* the key of each deployment
          RepoOf,   \* the repository its rpi.toml names
          AskOf,    \* the commit it asks for, Unset if it asks for the branch
          Slots,    \* build_concurrency
          Routed,   \* deployments with a hostname
          Seeding,  \* deployments with on_create to run
          Budgets   \* bounds on what comes from outside, any of them

Kinds == {"deploy", "follow", "push", "hang", "error", "cancel", "panic", "crash", "line"}

StageNames == {"fetch", "build", "start", "health", "route", "on_create", "gc"}

ASSUME PipelineAssumption ==
    /\ KeyOf \in [Deploys -> Keys] /\ RepoOf \in [Deploys -> Repos]
    /\ AskOf \in [Deploys -> Commit]
    /\ Slots \in Nat \ {0}
    /\ Stages = StageNames /\ Results = {"success", "failed", "canceled"}
    /\ Routed \subseteq Deploys /\ Seeding \subseteq Deploys
    /\ Budgets \subseteq [Kinds -> Nat] /\ Unset = None

VARIABLES
    run,      \* each deployment: where it stands
    free,     \* permits of the build semaphore nobody has
    queue,    \* deployments waiting for one, in order
    granted,  \* deployments that were given one and have not run since
    built,    \* of each key: the commit its images are of
    running,  \* the commit its containers are of
    spent     \* of each kind, what came from outside so far

slots == <<free, queue, granted>>
host  == <<built, running>>
vars  == <<hub, source, run, slots, host, spent>>

\* The steps of stage "fetch" are "clone", "pull" and "reset"; "prepare" is
\* everything between it and the build, "wait" is for a permit, "summary" and
\* "flag" are calls between stages.
Fetching == {"clone", "pull", "reset"}
Calls    == Fetching \cup {"prepare", "build", "start", "health", "summary", "route",
                           "on_create", "flag", "gc"}
Points   == Calls \cup {"new", "wait", "end", "over"}

\* What comes of the run, the commit fetched, the newest when it began, whether
\* the health budget is used up, whether the call never returns.
Run == [at : Points, result : Results \cup {None}, sha : Commit, asof : Nat,
        due : BOOLEAN, hung : BOOLEAN]

NewRun == [at |-> "new", result |-> None, sha |-> Unset, asof |-> 0, due |-> FALSE, hung |-> FALSE]

At(d)    == run[d].at
Begun(d) == At(d) \notin {"new", "over"}
Building == {d \in Deploys : At(d) = "build"}

TypeOK == /\ HubTypeOK /\ SourceTypeOK
          /\ run \in [Deploys -> Run]
          /\ free \in Nat /\ queue \in Seq(Deploys) /\ granted \in SUBSET Deploys
          /\ built \in [Keys -> Commit] /\ running \in [Keys -> Commit]
          /\ spent \in [Kinds -> Nat]
          /\ \A d \in Deploys : run[d].hung => At(d) \in Calls

Init == /\ HubInit /\ SourceInit
        /\ run = [d \in Deploys |-> NewRun]
        /\ free = Slots /\ queue = <<>> /\ granted = {}
        /\ built = [k \in Keys |-> Unset] /\ running = [k \in Keys |-> Unset]
        /\ spent = [kind \in Kinds |-> 0]

Spend(kind) ==
    /\ spent' = [spent EXCEPT ![kind] = @ + 1]
    /\ {b \in Budgets : \A k \in Kinds : spent'[k] <= b[k]} # {}

\* The stage a call belongs to, if any: tracked tells its start and its end.
StageOf(p) == IF p \in Fetching THEN "fetch" ELSE IF p \in Stages THEN p ELSE None

Said == <<"line", None>>

Publish(d, events) == told' = [told EXCEPT ![d] = @ \o events] /\ UNCHANGED <<open, view>>

Started(p) == IF StageOf(p) = None \/ p \in {"pull", "reset"} THEN <<>>
              ELSE <<<<"started", StageOf(p)>>>>

\* The call of d returned: its stage ends with mark, the next call is p.
Move(d, mark, p) ==
    /\ ~run[d].hung
    /\ run' = [run EXCEPT ![d].at = p]
    /\ Publish(d, (IF mark = None THEN <<>> ELSE <<<<mark, StageOf(At(d))>>>>) \o Started(p))

----------------------------------------------------------------------------
(* The build semaphore (tokio::sync::Semaphore, first come first served).   *)

\* Slip: a permit is given back and whoever waits is not told.
GiveBackOnly == free' = free + 1 /\ UNCHANGED <<queue, granted>>

\* A permit goes to the first in line.
Release == IF queue = <<>> THEN free' = free + 1 /\ UNCHANGED <<queue, granted>>
           ELSE /\ granted' = granted \cup {Head(queue)}
                /\ queue' = Tail(queue)
                /\ UNCHANGED free

\* A run that ends gives back its permit, used or not, or leaves the line.
Leave(d) ==
    IF At(d) = "build" THEN Release
    ELSE IF d \in granted
    THEN IF queue = <<>> THEN free' = free + 1 /\ granted' = granted \ {d} /\ UNCHANGED queue
         ELSE /\ granted' = (granted \ {d}) \cup {Head(queue)}
              /\ queue' = Tail(queue)
              /\ UNCHANGED free
    ELSE queue' = RemoveFirst(queue, d) /\ UNCHANGED <<free, granted>>

----------------------------------------------------------------------------
(* The stages. *)

\* Slip: a clone that is there is taken for current.
NotAgain(k) == IF clone[k].git THEN "reset" ELSE "clone"

\* The first call of a fetch: a clone, unless there is one.
FirstCall(k) == IF clone[k].git THEN "pull" ELSE "clone"

\* A deployment starts when no other one of its key runs: it registers the key
\* and goes on to fetch.
Begin(d) ==
    /\ At(d) = "new"
    /\ \A o \in Deploys : KeyOf[o] = KeyOf[d] => ~Begun(o)
    /\ run' = [run EXCEPT ![d].at = FirstCall(KeyOf[d]), ![d].asof = tip[RepoOf[d]]]
    /\ told' = [told EXCEPT ![d] = <<<<"started", "fetch">>>>]
    /\ open' = open \cup {d}
    /\ Spend("deploy")
    /\ UNCHANGED <<view, source, slots, host>>

DoClone(d) ==
    /\ At(d) = "clone"
    /\ CloneOf(KeyOf[d], RepoOf[d])
    /\ Move(d, None, "pull")
    /\ UNCHANGED <<tip, slots, host, spent>>

DoPull(d) ==
    /\ At(d) = "pull"
    /\ Pull(KeyOf[d])
    /\ Move(d, None, "reset")
    /\ UNCHANGED <<tip, slots, host, spent>>

\* What is to be checked out: the commit of the ref (DeployRef::Sha), or what
\* origin/branch is looked up to be.
Wanted(d) == IF AskOf[d] = Unset THEN clone[KeyOf[d]].refs ELSE AskOf[d]

DoReset(d) ==
    LET c == Wanted(d) IN
    /\ At(d) = "reset" /\ ~run[d].hung
    /\ Reset(KeyOf[d], c)
    /\ run' = [run EXCEPT ![d].at = "prepare", ![d].sha = c]
    /\ Publish(d, <<<<"ok", "fetch">>>>)
    /\ UNCHANGED <<tip, slots, host, spent>>

\* Secrets, compose services and override are there; then a permit.
Prepare(d) ==
    /\ At(d) = "prepare"
    /\ IF free > 0 THEN Move(d, None, "build") /\ free' = free - 1 /\ UNCHANGED queue
       ELSE Move(d, None, "wait") /\ queue' = Append(queue, d) /\ UNCHANGED free
    /\ UNCHANGED <<source, granted, host, spent>>

Acquired(d) ==
    /\ At(d) = "wait" /\ d \in granted
    /\ Move(d, None, "build")
    /\ granted' = granted \ {d}
    /\ UNCHANGED <<source, free, queue, host, spent>>

\* The images are of what is checked out; the permit goes back before the start.
Build(d) ==
    /\ At(d) = "build"
    /\ Move(d, "ok", "start")
    /\ built' = [built EXCEPT ![KeyOf[d]] = clone[KeyOf[d]].tree]
    /\ Release
    /\ UNCHANGED <<source, running, spent>>

StartStack(d) ==
    /\ At(d) = "start"
    /\ Move(d, "ok", "health")
    /\ running' = [running EXCEPT ![KeyOf[d]] = built[KeyOf[d]]]
    /\ UNCHANGED <<source, slots, built, spent>>

\* A probe passes.  One that has to wait changes nothing.
Healthy(d) == At(d) = "health" /\ Move(d, "ok", "summary")
              /\ UNCHANGED <<source, slots, host, spent>>

AfterRoute(d) == IF d \in Seeding THEN "on_create" ELSE "gc"

\* The services are counted, a failure is ignored.
Summary(d) == At(d) = "summary" /\ Move(d, None, IF d \in Routed THEN "route" ELSE AfterRoute(d))
              /\ UNCHANGED <<source, slots, host, spent>>

\* The hostname is routed, or skipped where the ingress is disabled.
Route(d) == At(d) = "route" /\ (\E mark \in {"ok", "skipped"} : Move(d, mark, AfterRoute(d)))
            /\ UNCHANGED <<source, slots, host, spent>>

Seed(d) == At(d) = "on_create" /\ Move(d, "ok", "flag")
           /\ UNCHANGED <<source, slots, host, spent>>

Flag(d) == At(d) = "flag" /\ Move(d, None, "gc")
           /\ UNCHANGED <<source, slots, host, spent>>

\* The garbage collection never fails a deployment.
Collect(d) ==
    /\ At(d) = "gc" /\ ~run[d].hung
    /\ run' = [run EXCEPT ![d].at = "end", ![d].result = "success"]
    /\ Publish(d, <<<<"ok", "gc">>>>)
    /\ UNCHANGED <<source, slots, host, spent>>

\* Slip: the stream is closed and nothing said.
EndQuietly(d) ==
    /\ At(d) = "end"
    /\ run' = [run EXCEPT ![d].at = "over"]
    /\ open' = open \ {d}
    /\ UNCHANGED <<told, view, source, slots, host, spent>>

\* The row is written, then the stream closed.
End(d) ==
    /\ At(d) = "end"
    /\ run' = [run EXCEPT ![d].at = "over"]
    /\ told' = [told EXCEPT ![d] = Append(@, <<"finished", run[d].result>>)]
    /\ open' = open \ {d}
    /\ UNCHANGED <<view, source, slots, host, spent>>

\* A line of a stage, or a warning at the end of a success.
Line(d) ==
    /\ Begun(d)
    /\ At(d) = "end" => run[d].result = "success"
    /\ Spend("line")
    /\ Publish(d, <<Said>>)
    /\ UNCHANGED <<source, run, slots, host>>

----------------------------------------------------------------------------
(* How a run ends before its time. *)

\* Slip: the build has no timeout.
TimedButBuild == Fetching \cup {"start", "on_create", "gc"}

\* Calls with a timeout of their own (staged).
Timed == Fetching \cup {"build", "start", "on_create", "gc"}

\* What a call that ends in the middle can leave of the work tree, and which
\* containers.
TreesLeft(d) == CASE At(d) = "clone" -> CloneLeft(KeyOf[d], RepoOf[d])
                  [] At(d) = "reset" -> ResetLeft(KeyOf[d], Wanted(d))
                  [] OTHER           -> {clone[KeyOf[d]]}

StacksLeft(d) == {running[KeyOf[d]]} \cup IF At(d) = "start" THEN {built[KeyOf[d]]} ELSE {}

Killed(d) ==
    /\ \E c \in TreesLeft(d) : clone' = [clone EXCEPT ![KeyOf[d]] = c]
    /\ \E c \in StacksLeft(d) : running' = [running EXCEPT ![KeyOf[d]] = c]
    /\ UNCHANGED <<tip, built>>

\* Slip: a call that fails leaves its stage open.
FailedSilently(d) == <<>>

\* A failure of the garbage collection is a skip, of any other stage the end.
FailedMark(d) ==
    IF StageOf(At(d)) = None THEN <<>>
    ELSE <<<<IF At(d) = "gc" THEN "skipped" ELSE "failed", StageOf(At(d))>>>>

\* It is said why: that the deployment failed, or what was skipped.
Break(d) ==
    /\ run' = [run EXCEPT ![d].at = "end", ![d].hung = FALSE,
                          ![d].result = IF At(d) = "gc" THEN "success" ELSE "failed"]
    /\ Publish(d, Append(FailedMark(d), Said))
    /\ Leave(d)
    /\ Killed(d)

\* The call fails; a pull without origin, a reset of a locked index or to a commit
\* that is not there have to.
Error(d) ==
    /\ At(d) \in Calls \ {"summary"} /\ ~run[d].hung
    /\ IF \/ At(d) = "pull" /\ ~CanPull(KeyOf[d])
          \/ At(d) = "reset" /\ ~CanReset(KeyOf[d], Wanted(d))
       THEN UNCHANGED spent ELSE Spend("error")
    /\ Break(d)

\* The stage runs into its timeout.
Late(d) == At(d) \in Timed /\ run[d].hung /\ Break(d) /\ UNCHANGED spent

\* The health budget passes; only between two probes it is looked at.
Pass(d) == /\ At(d) = "health" /\ ~run[d].due
           /\ run' = [run EXCEPT ![d].due = TRUE]
           /\ UNCHANGED <<hub, source, slots, host, spent>>

GiveUp(d) == At(d) = "health" /\ run[d].due /\ ~run[d].hung /\ Break(d) /\ UNCHANGED spent

\* A call does not return.
Hang(d) == /\ At(d) \in Calls /\ ~run[d].hung
           /\ Spend("hang")
           /\ run' = [run EXCEPT ![d].hung = TRUE]
           /\ UNCHANGED <<hub, source, slots, host>>

\* The stages are dropped where they stand: no stage is told to have ended, only
\* that the deployment was canceled.
Cancel(d) ==
    /\ At(d) \in Calls \cup {"wait"}
    /\ Spend("cancel")
    /\ run' = [run EXCEPT ![d].at = "end", ![d].hung = FALSE, ![d].result = "canceled"]
    /\ Leave(d)
    /\ Publish(d, <<Said>>)
    /\ Killed(d)

\* The task unwinds: the guard closes the stream as failed.
Panic(d) ==
    /\ At(d) \in Calls
    /\ Spend("panic")
    /\ run' = [run EXCEPT ![d].at = "over", ![d].hung = FALSE, ![d].result = "failed"]
    /\ told' = [told EXCEPT ![d] = Append(@, <<"finished", "failed">>)]
    /\ open' = open \ {d}
    /\ Leave(d)
    /\ Killed(d)
    /\ UNCHANGED view

\* What is left of work trees and containers, whatever each run was at.
TreesOf(k)  == {clone[k]} \cup UNION {TreesLeft(d) : d \in {o \in Deploys : KeyOf[o] = k /\ Begun(o)}}
StacksOf(k) == {running[k]} \cup UNION {StacksLeft(d) : d \in {o \in Deploys : KeyOf[o] = k /\ Begun(o)}}

\* The agent ends, and git and compose with it.
Crash ==
    /\ \E d \in Deploys : Begun(d)
    /\ Spend("crash")
    /\ run' = [d \in Deploys |-> IF Begun(d) THEN [run[d] EXCEPT !.at = "over", !.hung = FALSE]
                                 ELSE run[d]]
    /\ open' = {} /\ view' = Cuts
    /\ free' = Slots /\ queue' = <<>> /\ granted' = {}
    /\ clone' \in {c \in [Keys -> UNION {TreesOf(k) : k \in Keys}] : \A k \in Keys : c[k] \in TreesOf(k)}
    /\ running' \in {r \in [Keys -> UNION {StacksOf(k) : k \in Keys}] :
                        \A k \in Keys : r[k] \in StacksOf(k)}
    /\ UNCHANGED <<told, tip, built>>

Origin(r) == Spend("push") /\ Push(r) /\ UNCHANGED <<hub, run, slots, host>>

Step(d) ==
    \/ DoClone(d) \/ DoPull(d) \/ DoReset(d) \/ Prepare(d) \/ Acquired(d) \/ Build(d)
    \/ StartStack(d) \/ Healthy(d) \/ Summary(d) \/ Route(d) \/ Seed(d) \/ Flag(d)
    \/ Collect(d) \/ End(d) \/ Error(d) \/ Late(d) \/ GiveUp(d)

ReadOn(v) == Read(v) /\ UNCHANGED <<source, run, slots, host, spent>>

Come(v) == /\ \E d \in Deploys : Subscribe(v, d)
           /\ Spend("follow")
           /\ UNCHANGED <<source, run, slots, host>>

Next ==
    \/ \E d \in Deploys : Begin(d) \/ Step(d) \/ Line(d) \/ Pass(d) \/ Hang(d) \/ Cancel(d) \/ Panic(d)
    \/ \E v \in Viewers : ReadOn(v) \/ Come(v)
    \/ \E r \in Repos : Origin(r)
    \/ Crash

Spec == Init /\ [][Next]_vars

\* A call that does not hang returns, a timeout fires, a permit given is used,
\* time passes, a viewer reads.
FairSpec ==
    /\ Spec
    /\ \A d \in Deploys : WF_vars(Step(d)) /\ WF_vars(Pass(d))
    /\ \A v \in Viewers : WF_vars(ReadOn(v))

----------------------------------------------------------------------------
(* Properties. *)

\* No permit is lost or made, however runs end: cancels, panics and timeouts
\* while waiting, while a permit is on its way, while building.  Nobody waits
\* for a permit that is there.
SlotsKept == /\ free + Cardinality(granted) + Cardinality(Building) = Slots
             /\ queue # <<>> => free = 0
             /\ \A d \in Deploys : At(d) = "wait" <=> d \in granted \/ \E i \in DOMAIN queue : queue[i] = d

\* Every deployment of its key has the same repository.
SameRepo(d) == \A o \in Deploys : KeyOf[o] = KeyOf[d] => RepoOf[o] = RepoOf[d]

StageEvent(e) == e[1] = "started" \/ e \in Marks

\* In a story each stage that ends is the last begun, and
EndsWhatBegan(story) ==
    \A j \in DOMAIN story : story[j] \in Marks =>
        \E i \in 1..(j - 1) : /\ story[i] = <<"started", story[j][2]>>
                              /\ \A m \in (i + 1)..(j - 1) : ~StageEvent(story[m])

\* none begins before it, or after one that failed.
OneByOne(story) ==
    \A i, j \in DOMAIN story : i < j /\ StageEvent(story[j]) =>
        /\ story[i][1] # "failed"
        /\ story[i][1] = "started" /\ story[j][1] = "started" =>
              \E m \in (i + 1)..(j - 1) : story[m] \in Marks

AllEnded(story) ==
    \A i \in DOMAIN story : story[i][1] = "started" =>
        \E j \in DOMAIN story : i < j /\ story[j] \in Marks

\* What a run tells is true: one stage at a time, none after one that failed,
\* each to its end, but for a run that was cut; and a success has told all.
StoryTrue ==
    \A d \in Deploys :
        /\ EndsWhatBegan(told[d]) /\ OneByOne(told[d])
        /\ At(d) = "end" /\ run[d].result # "canceled" => AllEnded(told[d])
        /\ run[d].result = "success" =>
              {"started", "ok"} \X {"fetch", "build", "start", "health"}
                 \subseteq {told[d][i] : i \in DOMAIN told[d]}

\* A deployment that succeeds runs the commit it fetched.  That is the one it
\* asked for; or, of one that asked for the branch, as long as the repository of
\* its key stays the same (the origin of a clone is never changed), one that was
\* on the branch when it began or since: no work tree, image or clone of an
\* earlier deployment is passed off as its own, whatever cut that one off.
RunsWhatWasAsked ==
    \A d \in Deploys : At(d) = "end" /\ run[d].result = "success" =>
        /\ running[KeyOf[d]] = run[d].sha
        /\ AskOf[d] # Unset => run[d].sha = AskOf[d]
        /\ AskOf[d] = Unset /\ SameRepo(d) =>
              \E n \in run[d].asof..tip[RepoOf[d]] : run[d].sha = <<RepoOf[d], n>>

\* Hangs in a call that no timeout bounds.
Stuck(d) == run[d].hung /\ At(d) \notin Timed

\* A deployment ends, although calls of it and of others hang for ever, if
\* timeouts bound them: no build holds its permit for good.
TimedRunsEnd == \A d \in Deploys : (At(d) # "new") ~> (At(d) = "over" \/ Stuck(d))

\* Who follows it learns how it ends, or that the agent did.
FollowersAreTold ==
    \A v \in Viewers : Following(v) ~> (~Following(v) \/ Stuck(view[v].of))
=============================================================================
