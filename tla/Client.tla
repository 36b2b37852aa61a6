------------------------------- MODULE Client -------------------------------
(***************************************************************************)
(* One command of the CLI (cli/commands.rs, cli/envcmds.rs) against an     *)
(* agent that may stop, restart and come back as another release between   *)
(* any two of its requests, over a tunnel that may break (cli/api.rs).     *)
(*                                                                         *)
(* A command asks for the agent's version first and gates what it needs on *)
(* what that release can do (compat.rs).  Each request is one step, with   *)
(* what the agent does for it; the answer may be lost.  Before a           *)
(* deployment the CLI sees to it that the agent can read the repository    *)
(* (cli/sourcekey.rs).  Others push secrets, log in to gh, add the key and *)
(* deploy meanwhile.                                                       *)
(***************************************************************************)
EXTENDS Naturals, FiniteSets, FiniteSetsExt

CONSTANTS Commands,    \* [kind, route, with]: the command and its flags
          Releases,    \* [v, plain]: a release, and whether its version parses
          Handshake,   \* the first that tells its features
          Mine, Deps,  \* the command's own deployment, and those before it
          None,
          Polls,       \* POLL_TIMEOUT_SECS / POLL_INTERVAL_SECS
          Ways,        \* bounds, each of one behaviour:
          Kinds        \* ... of stops, broken requests and others' pushes

Verbs == {"deploy", "push", "group", "cancel", "run", "call"}

ASSUME ClientAssumption ==
    /\ \A c \in Commands : c.kind \in Verbs
    /\ \A r \in Releases : r.v \in Nat
    /\ Handshake \in 19..24     \* after the last entry of LEGACY_MATRIX
    /\ Polls \in Nat /\ Mine \notin Deps /\ Ways \subseteq [Kinds -> Nat]
    /\ None \notin Nat \cup Releases

VARIABLES agent,    \* the release that serves, None when it is down
          cmd,      \* the command under way
          bundle,   \* revision of the secrets it pushes
          dep,      \* status of each deployment
          gh,       \* [login, key]: the local gh, the key at the git host
          done,     \* what the agent did for the command
          spent     \* of the bounds

vars == <<agent, cmd, bundle, dep, gh, done, spent>>
-----------------------------------------------------------------------------
(* compat.rs.                                                              *)

\* The releases that brought the features (0.9.0, ...).
Since == [secrets |-> 9, commands |-> 9, source_check |-> 18, environments |-> 24,
          secret_modes |-> 26, runtime_vars |-> 27, secret_groups |-> 27]

LegacyMatrix == [secrets |-> 9, commands |-> 9, source_check |-> 18]

Serves(r) == {f \in DOMAIN Since : Since[f] <= r.v}

\* What the CLI takes a release to be capable of.
Capabilities(r) ==
    IF r.v >= Handshake THEN Serves(r)
    ELSE IF r.plain THEN {f \in DOMAIN LegacyMatrix : LegacyMatrix[f] <= r.v}
    ELSE {}

With(c, flag, feature) == IF flag \in c.with THEN {feature} ELSE {}

\* Slip: only the environment is looked at.
GatedEnvOnly(c) ==
    CASE c.kind = "deploy" -> With(c, "env", "environments")
      [] OTHER             -> {}

\* The features a command does not go on without.
Gated(c) ==
    CASE c.kind = "deploy" -> With(c, "env", "environments") \cup With(c, "groups", "secret_groups")
      [] c.kind = "push"   -> {"secrets"} \cup With(c, "env", "environments")
                                          \cup With(c, "modes", "secret_modes")
      [] c.kind = "group"  -> {"secrets", "secret_groups"} \cup With(c, "modes", "secret_modes")
      [] c.kind = "run"    -> {"commands"} \cup With(c, "env", "environments")
      [] c.kind = "call"   -> {c.route} \ {None}
      [] c.kind = "cancel" -> {}

\* Fields of its request that an older agent reads over.
Carries(c) ==
    CASE c.kind = "deploy"            -> Gated(c)
      [] c.kind \in {"push", "group"} -> With(c, "modes", "secret_modes")
      [] OTHER                        -> {}
-----------------------------------------------------------------------------
Active == {"queued", "running", "canceling"}
Good   == {"success", "superseded"}
Bad    == {"failed", "canceled", "interrupted"}

On(flag) == flag \in cmd.c.with
At(pc)   == cmd.at = pc
Able(f)  == f \in cmd.caps

\* The request reaches an agent that has the route.
Reach(f) == agent # None /\ (f = None \/ f \in Serves(agent))

Spend(k) ==
    /\ spent' = [spent EXCEPT ![k] = @ + 1]
    /\ {w \in Ways : \A j \in Kinds : spent'[j] <= w[j]} # {}

Go(pc)  == cmd' = [cmd EXCEPT !.at = pc]
End(ex) == cmd' = [cmd EXCEPT !.at = "done", !.exit = ex]

World == <<agent, bundle, dep, gh, done>>

\* The command ends with an error: the agent is down or has no such route (a
\* bare 404), refuses, or the tunnel breaks before the request or its answer.
Failing(f) == \/ ~Reach(f) /\ UNCHANGED spent
              \/ Spend("broken")

\* A request whose answer the CLI waits for in state pc, with its effect.
Ask(pc, f, Effect) == /\ At(pc)
                      /\ \/ Reach(f) /\ Effect /\ UNCHANGED spent
                         \/ Failing(f) /\ End("error") /\ UNCHANGED World

Did(what) == [what |-> what, asked |-> Carries(cmd.c), served |-> Serves(agent),
              seen |-> cmd.seen, old |-> bundle, older |-> cmd.older]

\* The world of a command is what the command may meet: the deployments before
\* it when it cancels them, gh when the repository is read over ssh.
Init == /\ agent \in Releases
        /\ cmd \in [c : Commands, at : {"connect"}, caps : {{}}, rel : {None}, older : {FALSE},
                    seen : {0}, left : {Polls}, prev : {"in"}, todo : {{}}, failures : {0},
                    code : {None}, stream : {FALSE}, exit : {None}]
        /\ bundle \in {0, 1}
        /\ dep \in [IF cmd.c.kind = "cancel" THEN Deps ELSE {} -> {"queued", "running"}]
        /\ gh \in IF "ssh" \in cmd.c.with THEN [login : {"missing", "out", "in"}, key : BOOLEAN]
                  ELSE [login : {"out"}, key : {FALSE}]
        /\ done = {}
        /\ spent = [k \in Kinds |-> 0]

First(c, caps) ==
    CASE c.kind = "deploy" -> IF "ssh" \in c.with /\ "source_check" \in caps THEN "check" ELSE "post"
      [] c.kind = "push"   -> IF "secret_groups" \in caps /\ "force" \notin c.with THEN "head" ELSE "put"
      [] c.kind = "group"  -> "head"
      [] c.kind = "cancel" -> "list"
      [] OTHER             -> "call"

\* The handshake, and the gates.
Connect == Ask("connect", None,
    LET caps == Capabilities(agent)
        told == [cmd EXCEPT !.caps = caps, !.rel = agent]
    IN  /\ cmd' = IF Gated(cmd.c) \subseteq caps
                  THEN [told EXCEPT !.at = First(cmd.c, caps)]
                  ELSE [told EXCEPT !.at = "done", !.exit = "error"]
        /\ UNCHANGED World)
-----------------------------------------------------------------------------
(* sourcekey.rs.                                                           *)

ViaGh == On("github") /\ ~On("no_gh")

\* The key is shown; without a terminal nobody is waited for.
Wait == IF On("tty")
        THEN cmd' = [cmd EXCEPT !.at = "wait", !.prev = IF ViaGh THEN gh.login ELSE "in"]
        ELSE End("error")

\* An agent that has no such route is not asked: the deployment goes ahead.
Check ==
    /\ At("check")
    /\ \/ /\ Reach("source_check")
          /\ \/ gh.key /\ Go("post")
             \/ IF ViaGh /\ gh.login = "in" THEN Go("register") ELSE Wait
             \/ End("error")        \* no access, and no key to show
          /\ UNCHANGED spent
       \/ agent # None /\ ~Reach("source_check") /\ Go("post") /\ UNCHANGED spent
       \/ (IF agent = None THEN UNCHANGED spent ELSE Spend("broken")) /\ End("error")
    /\ UNCHANGED World

Register ==
    /\ At("register")
    /\ \/ gh' = [gh EXCEPT !.key = TRUE] /\ Go("confirm")
       \/ UNCHANGED gh /\ Wait
    /\ UNCHANGED <<agent, bundle, dep, done, spent>>

Confirm ==
    /\ At("confirm")
    /\ \/ /\ agent # None
          /\ (gh.key /\ Reach("source_check") /\ Go("post")) \/ Wait
          /\ UNCHANGED spent
       \/ (IF agent = None THEN UNCHANGED spent ELSE Spend("broken")) /\ End("error")
    /\ UNCHANGED World

\* Slip: the deadline is only looked at once the agent says no.
TickOn ==
    /\ At("wait")
    /\ \/ End("error") /\ UNCHANGED gh
       \/ /\ cmd' = [cmd EXCEPT !.at = "probe", !.prev = IF ViaGh THEN gh.login ELSE @]
          /\ \/ ViaGh /\ gh.login = "in" /\ cmd.prev # "in" /\ gh' = [gh EXCEPT !.key = TRUE]
             \/ UNCHANGED gh
    /\ UNCHANGED <<agent, bundle, dep, done, spent>>

\* One turn of the loop: Ctrl+C, the deadline, or a look at gh, which registers
\* the key when somebody has just logged in.
Tick ==
    /\ At("wait")
    /\ \/ End("error") /\ UNCHANGED gh
       \/ /\ cmd.left > 0
          /\ cmd' = [cmd EXCEPT !.at = "probe", !.left = @ - 1,
                                !.prev = IF ViaGh THEN gh.login ELSE @]
          /\ \/ ViaGh /\ gh.login = "in" /\ cmd.prev # "in" /\ gh' = [gh EXCEPT !.key = TRUE]
             \/ UNCHANGED gh
    /\ UNCHANGED <<agent, bundle, dep, done, spent>>

\* ... and a look at the agent, whose failures are waited out.
Probe ==
    /\ At("probe")
    /\ (gh.key /\ Reach("source_check") /\ Go("post")) \/ Go("wait")
    /\ UNCHANGED <<World, spent>>
-----------------------------------------------------------------------------
(* deploy.                                                                 *)

\* The agent accepts the deployment, or the answer that it did is lost; or it
\* refuses.
Post == Ask("post", None,
    /\ \/ /\ dep' = [d \in DOMAIN dep \cup {Mine} |-> IF d = Mine THEN "queued" ELSE dep[d]]
          /\ done' = done \cup {Did("deploy")}
          /\ Go("follow") \/ End("error")
       \/ End("error") /\ UNCHANGED <<dep, done>>
    /\ UNCHANGED <<agent, bundle, gh>>)

Open(pc) == cmd' = [cmd EXCEPT !.at = pc, !.stream = TRUE]

Follow == Ask("follow", None, Open("stream") /\ UNCHANGED World)

\* The event "finished", with the status of the row.
Finished ==
    /\ At("stream") /\ cmd.stream /\ dep[Mine] \notin Active
    /\ End(IF dep[Mine] \in Good THEN "ok" ELSE "failed")
    /\ UNCHANGED <<World, spent>>

\* Slip: a stream that ends has told all.
EndsWell ==
    /\ At("stream") \/ At("exec")
    /\ \/ ~cmd.stream /\ End("ok") /\ UNCHANGED spent
       \/ cmd.stream /\ Spend("broken") /\ End("error")
    /\ UNCHANGED World

\* A stream ends, or breaks, without it.
StreamEnds ==
    /\ At("stream") \/ At("exec")
    /\ \/ ~cmd.stream /\ UNCHANGED spent
       \/ cmd.stream /\ Spend("broken")
    /\ End("error")
    /\ UNCHANGED World
-----------------------------------------------------------------------------
(* secrets push, of a key and of a group.                                  *)

Shown(rev) == cmd' = [cmd EXCEPT !.at = "put", !.seen = rev]

\* Of a group any failure reads as a group that is not there.
Head ==
    \/ /\ cmd.c.kind = "push"
       /\ Ask("head", "secret_groups", Shown(bundle) /\ UNCHANGED World)
    \/ /\ At("head") /\ cmd.c.kind = "group"
       /\ \/ Reach("secret_groups") /\ Shown(bundle) /\ UNCHANGED spent
          \/ Failing("secret_groups") /\ Shown(0)
       /\ UNCHANGED World

Expected == IF On("force") \/ ~Able("secret_groups") THEN None ELSE cmd.seen

\* An agent without revisions writes whatever was expected.  With --apply a key
\* is applied by the same request, and may be saved and not applied.
Put == Ask("put", IF cmd.c.kind = "group" THEN "secret_groups" ELSE "secrets",
    /\ IF "secret_groups" \in Serves(agent) /\ Expected \notin {None, bundle}
       THEN End("error") /\ UNCHANGED <<bundle, done>>
       ELSE /\ bundle' = bundle + 1
            /\ LET whole == cmd.c.kind = "push" /\ On("apply")
               IN  \/ /\ done' = done \cup {Did("put")} \cup (IF whole THEN {Did("apply")} ELSE {})
                      /\ \/ cmd.c.kind = "group" /\ On("apply") /\ Go("groups")
                         \/ ~(cmd.c.kind = "group" /\ On("apply")) /\ End("ok")
                   \/ done' = done \cup {Did("put")} /\ End("error")
    /\ UNCHANGED <<agent, dep, gh>>)

\* Who else declares the group, then the application to this project.
ListGroups == Ask("groups", "secret_groups", Go("apply") /\ UNCHANGED World)

Apply == Ask("apply", "secret_groups",
    /\ \/ done' = done \cup {Did("apply")} /\ (End("ok") \/ End("error"))
       \/ End("error") /\ UNCHANGED done
    /\ UNCHANGED <<agent, bundle, dep, gh>>)
-----------------------------------------------------------------------------
(* deploy --cancel; command; rm, env destroy, env reset-data, group rm.    *)

List == Ask("list", None,
    LET active == {d \in DOMAIN dep : dep[d] \in Active}
    IN  /\ cmd' = IF active = {} THEN [cmd EXCEPT !.at = "done", !.exit = "ok"]
                  ELSE [cmd EXCEPT !.at = "cancel", !.todo = active]
        /\ UNCHANGED World)

\* One at a time; the failures are counted.
Cancel(d) ==
    /\ At("cancel") /\ d \in cmd.todo
    /\ LET Tried(n) == cmd' = [cmd EXCEPT !.todo = @ \ {d}, !.failures = @ + n]
       IN  \/ /\ agent # None /\ dep[d] \in Active
              /\ dep' = [dep EXCEPT ![d] = IF @ = "queued" THEN "canceled" ELSE "canceling"]
              /\ \/ Tried(0) /\ UNCHANGED spent
                 \/ Tried(1) /\ Spend("broken")
           \/ agent # None /\ dep[d] \notin Active /\ Tried(1) /\ UNCHANGED <<dep, spent>>
           \/ Failing(None) /\ Tried(1) /\ UNCHANGED dep
    /\ UNCHANGED <<agent, bundle, gh, done>>

Canceled == /\ At("cancel") /\ cmd.todo = {}
            /\ End(IF cmd.failures = 0 THEN "ok" ELSE "error")
            /\ UNCHANGED <<World, spent>>

\* A request and its answer; of `rpi command`, a stream and the exit code.
Call == Ask("call", IF cmd.c.kind = "run" THEN "commands" ELSE cmd.c.route,
    IF cmd.c.kind = "run"
    THEN (Open("exec") \/ End("error")) /\ UNCHANGED World
    ELSE /\ \/ done' = done \cup {Did("call")} /\ (End("ok") \/ End("error"))
            \/ End("error") /\ UNCHANGED done
         /\ UNCHANGED <<agent, bundle, dep, gh>>)

Exits == /\ At("exec") /\ cmd.stream /\ cmd.code # None
         /\ End(IF cmd.code = 0 THEN "ok" ELSE "failed")
         /\ UNCHANGED <<World, spent>>
-----------------------------------------------------------------------------
(* The others.                                                             *)

\* The agent's process ends, and with it streams and runs.
Stop == /\ agent # None /\ ~At("done")
        /\ agent' = None
        /\ cmd' = [cmd EXCEPT !.stream = FALSE]
        /\ Spend("stop")
        /\ UNCHANGED <<bundle, dep, gh, done>>

\* The same release or another comes up; what was active is swept.
Boot(r) == /\ agent = None /\ ~At("done")
           /\ agent' = r
           /\ dep' = [d \in DOMAIN dep |-> IF dep[d] \in Active THEN "interrupted" ELSE dep[d]]
           /\ cmd' = [cmd EXCEPT !.older = @ \/ (cmd.rel # None /\ r.v < cmd.rel.v)]
           /\ UNCHANGED <<bundle, gh, done, spent>>

Advance(d) ==
    /\ agent # None /\ ~At("done") /\ dep[d] \in Active
    /\ \E s \in IF dep[d] = "queued" THEN {"running", "superseded"} ELSE {"success", "failed", "canceled"} :
          dep' = [dep EXCEPT ![d] = s]
    /\ UNCHANGED <<agent, cmd, bundle, gh, done, spent>>

ContainerEnds(n) ==
    /\ At("exec") /\ cmd.stream /\ cmd.code = None
    /\ cmd' = [cmd EXCEPT !.code = n]
    /\ UNCHANGED <<World, spent>>

OtherPush == /\ agent # None /\ ~At("done") /\ cmd.c.kind \in {"push", "group"}
             /\ bundle' = bundle + 1
             /\ Spend("push")
             /\ UNCHANGED <<agent, cmd, dep, gh, done>>

Developer == /\ \/ gh.login # "missing" /\ gh' = [gh EXCEPT !.login = IF @ = "in" THEN "out" ELSE "in"]
                \/ ~gh.key /\ gh' = [gh EXCEPT !.key = TRUE]
             /\ On("ssh") /\ ~At("done")
             /\ UNCHANGED <<agent, cmd, bundle, dep, done, spent>>

Step == \/ Connect \/ Check \/ Register \/ Confirm \/ Tick \/ Probe
        \/ Post \/ Follow \/ Finished \/ StreamEnds
        \/ Head \/ Put \/ ListGroups \/ Apply
        \/ List \/ Canceled \/ Call \/ Exits
        \/ \E d \in cmd.todo : Cancel(d)

Next == \/ Step
        \/ Stop \/ OtherPush \/ Developer
        \/ \E r \in Releases : Boot(r)
        \/ \E d \in DOMAIN dep : Advance(d)
        \/ \E n \in {0, 1} : ContainerEnds(n)

\* The CLI goes on; the agent answers every request (the CLI sets no time limit),
\* ends deployments, tells the stream (Pipeline and Scheduler say when) and ends
\* containers; systemd starts it again.
Spec == /\ Init /\ [][Next]_vars
        /\ WF_vars(Step)
        /\ WF_vars(\E r \in Releases : Boot(r))
        /\ WF_vars(Mine \in DOMAIN dep /\ Advance(Mine))
        /\ WF_vars(\E n \in {0, 1} : ContainerEnds(n))
-----------------------------------------------------------------------------
(* Properties.                                                             *)

\* The agent does for a command what it was asked or refuses: no field goes to
\* a release that reads it over (gate_deploy_features), and a push without
\* --force replaces the revision its sender was shown.  Unless an older release
\* has come up since the handshake: the fields of a request are not gated again.
ServedAsAsked ==
    \A e \in done : ~e.older =>
        /\ e.asked \subseteq e.served
        /\ e.what = "put" /\ ~On("force") /\ Able("secret_groups") => e.old = e.seen

\* The exit code is true, whatever restarts, swaps and breaks come in between:
\* 0 is for a deployment that succeeded or made way to a newer one, secrets that
\* are stored and applied, a listing whose deployments are all canceled or about
\* to be, a command that exited with 0 in its container.
ExitIsTrue ==
    At("done") =>
        LET What == {e.what : e \in done} IN
        CASE cmd.c.kind = "deploy" ->
                 /\ cmd.exit = "ok" => dep[Mine] \in Good
                 /\ cmd.exit = "failed" => dep[Mine] \in Bad
          [] cmd.c.kind \in {"push", "group"} ->
                 cmd.exit = "ok" => {"put"} \cup With(cmd.c, "apply", "apply") \subseteq What
          [] cmd.c.kind = "cancel" ->
                 cmd.exit = "ok" => \A d \in Deps : dep[d] \notin {"queued", "running"}
          [] cmd.c.kind = "run" -> (cmd.exit = "ok") = (cmd.code = 0 /\ cmd.exit # "error")
          [] cmd.c.kind = "call" -> cmd.exit = "ok" => "call" \in What

\* Every command ends: also one that waits for a key nobody adds, or follows a
\* deployment whose agent is replaced.
CommandEnds == <>At("done")
=============================================================================
