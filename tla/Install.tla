------------------------------ MODULE Install ------------------------------
(***************************************************************************)
(* The host side of the agent: `rpi agent setup`, `update`, `migrate` and  *)
(* `uninstall` (bin/agent/setup.rs, self_install.rs, update.rs, migrate.rs,*)
(* uninstall.rs) as the sequences of steps they are.  A step may fail; most*)
(* failures are noted and the command goes on.  A command may be cut off   *)
(* between two steps (the SSH session drops, the power goes), and another  *)
(* one, of whatever kind, finds the host as it was left: nothing but the   *)
(* host says how far the last one came.                                    *)
(*                                                                         *)
(* One command runs at a time.  A dry run of setup changes nothing and is  *)
(* left out, as are the checks that only warn.  Once a host was called pi- *)
(* agent: "pi" and "rpi" stand for the old and the new names.              *)
(***************************************************************************)
EXTENDS Integers, Sequences, FiniteSets

CONSTANTS Versions,  \* versions of the rpi binary
          Hosts,     \* what the host may be like at first, see Host
          Budgets,   \* bounds on commands, failures and cuts, any of them
          None       \* no binary, no agent running

Kinds == {"command", "failure", "cut"}

Names == {"pi", "rpi"}
Trees == {"lib", "etc", "log"}  \* /var/lib, /etc, /var/log

VARIABLES
    host,   \* the host
    cmd,    \* the command under way
    undone, \* what earlier commands began and did not finish
    spent   \* of each kind, what came so far

vars == <<host, cmd, undone, spent>>

\* The trees of the old name and of the new; "legacy" is what the pi-agent
\* install holds.  toml is /etc/rpi/agent.toml: the operator's, with the old paths
\* in it ("legacy") or without ("own"), or the one setup writes ("default").
\* owned: /var/lib/rpi is the agent's.  unit and loaded: the systemd unit, as the
\* file and as systemd knows it.  active: the version that runs.  ledger: state.db
\* says pi-to-rpi was applied.  The rest is cloudflared: config.yml and its user
\* unit may be "theirs", a cloudflared may be running of which no config is here
\* (foreign).
Host == [users : SUBSET Names, groups : SUBSET Names, member : SUBSET {"docker", "login"},
         tree : [Trees -> [Names -> {"none", "fresh", "legacy"}]],
         toml : {"none", "legacy", "own", "default"}, owned : BOOLEAN,
         unit : {"none", "other", "canonical"}, loaded : {"none", "other", "canonical"},
         enabled : BOOLEAN, bin : Versions \cup {None}, active : Versions \cup {None},
         ledger : BOOLEAN, tunnel : BOOLEAN, creds : BOOLEAN,
         config : {"none", "theirs", "ours"}, userunit : {"none", "theirs", "ours"},
         section : BOOLEAN, service : BOOLEAN, foreign : BOOLEAN]

ASSUME InstallAssumption == /\ Hosts \subseteq Host
                            /\ Budgets \subseteq [Kinds -> Nat]
                            /\ None \notin Versions

\* No command was here yet: a host has the old name or the new one, and what of
\* the old one is there has its user; nothing is ours yet, and what runs is what
\* is installed.
ASSUME HostAssumption ==
    \A h \in Hosts :
        /\ ~(Names \subseteq h.users)
        /\ \A t \in Trees : h.tree[t]["pi"] = "legacy" => "pi" \in h.users /\ h.tree[t]["rpi"] = "none"
        /\ h.toml # "legacy" /\ h.config # "ours" /\ ~h.service /\ ~h.ledger
        /\ h.active \in {None, h.bin}

\* The steps that follow each other.
Sourcing  == <<"obtain", "binary">>
Migrating == <<"stop", "group", "user", "mvlib", "mvetc", "mvlog", "rewrite", "oldunit">>
Basics    == <<"useradd", "docker", "login", "lib", "log", "etc", "toml", "unit", "reload", "enable">>
Tunneling == <<"guard", "tunnel", "creds", "config", "validate", "section">>
Adopting  == <<"adopt", "section">>
Removing  == <<"disable", "rmunit", "unload", "userdel">>
Purging   == <<"rmlib", "rmetc", "rmlog">>
Sequences == {Sourcing, Migrating, Basics, Tunneling, Adopting, Removing, Purging}

StepsOf(seq) == {seq[i] : i \in DOMAIN seq}
Steps == (UNION {StepsOf(seq) : seq \in Sequences})
         \cup {"open", "mark", "token", "scaffold", "service", "report", "restart"}

\* What may be left: a migration in the middle, a new /var/lib/rpi that is in its
\* way, a binary the agent was not restarted with, a tunnel without its service.
Undone == {"migration", "opened", "swap", "tunnel"}

\* flavor: how much of cloudflared setup does, or that it adopts one; the mode
\* of migrate; whether uninstall purges.  errs: an error to report; cferrs: one
\* of cloudflared's; failed: any step failed, reported or not; swapped: the
\* binary was replaced; secret: this run created the tunnel; left: what it has
\* left undone.
Cmd == [kind : {"idle", "setup", "update", "migrate", "uninstall"},
        flavor : {"none", "scaffold", "full", "adopted", "list", "plan", "auto", "run", "keep", "purge"},
        version : Versions \cup {None}, at : Steps \cup {"done"},
        errs : BOOLEAN, cferrs : BOOLEAN, failed : BOOLEAN, swapped : BOOLEAN, secret : BOOLEAN,
        left : SUBSET Undone]

Idle == [kind |-> "idle", flavor |-> "none", version |-> None, at |-> "done", errs |-> FALSE,
         cferrs |-> FALSE, failed |-> FALSE, swapped |-> FALSE, secret |-> FALSE, left |-> {}]

TypeOK == /\ host \in Host /\ cmd \in Cmd
          /\ undone \in SUBSET Undone
          /\ spent \in [Kinds -> Nat]

Init == /\ host \in Hosts /\ cmd = Idle /\ undone = {}
        /\ spent = [k \in Kinds |-> 0]

Spend(kind) ==
    /\ spent' = [spent EXCEPT ![kind] = @ + 1]
    /\ {b \in Budgets : \A k \in Kinds : spent'[k] <= b[k]} # {}

\* PiToRpi::detect.
Legacy == "rpi" \notin host.users /\ "pi" \in host.users

Begin(kind, flavor, version, at) ==
    /\ cmd.at = "done"
    /\ Spend("command")
    /\ cmd' = [Idle EXCEPT !.kind = kind, !.flavor = flavor, !.version = version, !.at = at]
    /\ undone' = undone \cup cmd.left
    /\ UNCHANGED host

Begins == \/ \E f \in {"none", "scaffold", "full"}, v \in Versions : Begin("setup", f, v, "binary")
          \/ \E v \in Versions : Begin("update", "none", v, "obtain")
          \/ \E f \in {"list", "plan", "auto", "run"} : Begin("migrate", f, None, "open")
          \/ \E f \in {"keep", "purge"} : Begin("uninstall", f, None, "disable")

----------------------------------------------------------------------------
(* The order of the steps. *)

\* Slip: recorded, whatever came of it.
MarkAnyway == IF cmd.kind = "migrate" THEN "mark" ELSE "useradd"

\* Only a migration that returned no error is recorded.
AfterMigrating == IF cmd.kind # "migrate" THEN "useradd"
                  ELSE IF cmd.errs THEN "report" ELSE "mark"

\* Listed and planned only, or applied; run_auto asks the ledger.
AfterOpen == IF /\ Legacy /\ cmd.flavor \in {"auto", "run"}
                /\ cmd.flavor = "auto" => ~host.ledger
             THEN "stop" ELSE "report"

AfterBasics == CASE cmd.flavor = "full"     -> "token"
                 [] cmd.flavor = "scaffold" -> "scaffold"
                 [] OTHER                   -> "report"

\* No user service for a tunnel that could not be set up, or is adopted.
AfterSection == IF cmd.cferrs \/ cmd.flavor = "adopted" THEN "report" ELSE "service"

AfterReport == IF cmd.swapped THEN "restart" ELSE "done"

Follows(p, q) == \E seq \in Sequences : \E i \in 2..Len(seq) : seq[i - 1] = p /\ seq[i] = q

Then(p) ==
    CASE p = "binary"  -> IF Legacy THEN "stop" ELSE "useradd"
      [] p = "open"    -> AfterOpen
      [] p = "oldunit" -> AfterMigrating
      [] p = "enable"  -> AfterBasics
      [] p = "token"   -> IF host.config = "none" THEN "guard" ELSE "adopt"
      [] p = "section" -> AfterSection
      [] p = "userdel" -> IF cmd.flavor = "purge" THEN "rmlib" ELSE "report"
      [] p = "report"  -> AfterReport
      [] p \in {"mark", "scaffold", "service", "rmlog"} -> "report"
      [] p = "restart" -> "done"
      [] OTHER -> CHOOSE q \in Steps : Follows(p, q)

----------------------------------------------------------------------------
(* What the steps do to the host. *)

Has(t, n) == host.tree[t][n] # "none"

\* Slip: the foreign tunnel is not looked for, nor is it asked what the step needs.
NeedsNothing(p) == p # "creds" \/ cmd.secret \/ host.creds

\* What a step needs of the host to succeed: the commands it runs fail otherwise.
\* useradd wants to make the group as well; systemctl enable wants the unit, and
\* userdel a user that runs nothing.
Needs(p) ==
    CASE p = "group"   -> "pi" \in host.groups /\ "rpi" \notin host.groups
      [] p = "user"    -> "pi" \in host.users /\ "rpi" \notin host.users
      [] p = "useradd" -> "rpi" \in host.users \/ "rpi" \notin host.groups
      [] p \in {"docker", "service"} -> "rpi" \in host.users
      [] p = "login"   -> "rpi" \in host.groups
      [] p \in {"lib", "log"} -> "rpi" \in host.users /\ "rpi" \in host.groups
      [] p \in {"toml", "section"} -> Has("etc", "rpi")
      [] p = "enable"  -> host.loaded # "none"
      [] p = "guard"   -> ~host.foreign
      [] p = "adopt"   -> host.creds
      [] p = "creds"   -> cmd.secret \/ host.creds
      [] p = "userdel" -> ~host.service
      [] OTHER         -> TRUE

\* The step finds it done, and runs nothing that could fail.
Skips(p) ==
    CASE p = "mvlib"   -> ~(Has("lib", "pi") /\ ~Has("lib", "rpi"))
      [] p = "mvetc"   -> ~(Has("etc", "pi") /\ ~Has("etc", "rpi"))
      [] p = "mvlog"   -> ~(Has("log", "pi") /\ ~Has("log", "rpi"))
      [] p = "rewrite" -> host.toml # "legacy"
      [] p = "useradd" -> "rpi" \in host.users
      [] p \in {"docker", "login"} -> p \in host.member
      [] p = "etc"     -> Has("etc", "rpi")
      [] p = "toml"    -> host.toml # "none"
      [] p = "unit"    -> host.unit = "canonical"
      [] p = "creds"   -> ~cmd.secret /\ host.creds
      [] p = "section" -> host.section
      [] p = "userdel" -> "rpi" \notin host.users
      [] p = "rmunit"  -> host.unit = "none"
      [] p = "rmlib"   -> ~Has("lib", "rpi")
      [] p = "rmetc"   -> ~Has("etc", "rpi")
      [] p = "rmlog"   -> ~Has("log", "rpi")
      [] OTHER         -> FALSE

\* A step that succeeds, and does this to the host.
Do(p, h) ==
    /\ cmd.at = p /\ Needs(p)
    /\ host' = h
    /\ cmd' = [cmd EXCEPT !.at = Then(p)]
    /\ UNCHANGED <<undone, spent>>

\* obtain_source_binary: npm or a verified archive.  Nothing on the host changes.
Obtain == Do("obtain", host)

\* ensure_installed: the file is replaced at once, if it differs.
Binary ==
    /\ cmd.at = "binary"
    /\ host' = [host EXCEPT !.bin = cmd.version]
    /\ cmd' = [cmd EXCEPT !.at = Then("binary"), !.swapped = host.bin # cmd.version]
    /\ UNCHANGED <<undone, spent>>

\* The data_dir of the config is created and the database opened, whatever is to
\* be done.
Open ==
    /\ cmd.at = "open"
    /\ LET n == IF host.toml = "legacy" THEN "pi" ELSE "rpi"
       IN  IF Has("lib", n)
           THEN host' = host /\ cmd' = [cmd EXCEPT !.at = Then("open")]
           ELSE /\ host' = [host EXCEPT !.tree["lib"][n] = "fresh", !.owned = FALSE]
                /\ cmd' = [cmd EXCEPT !.at = Then("open"),
                                      !.left = @ \cup IF Legacy THEN {"opened"} ELSE {}]
    /\ UNCHANGED <<undone, spent>>

StopOld == Do("stop", host)

\* groupmod, usermod -l: the id stays, and with it what it owns and the groups.
RenameGroup ==
    Do("group", [host EXCEPT !.groups = (@ \ {"pi"}) \cup {"rpi"}, !.member = @ \cup {"login"}])

RenameUser ==
    Do("user", [host EXCEPT !.users = (@ \ {"pi"}) \cup {"rpi"}, !.member = @ \cup {"docker"}])

\* mv of a tree, unless there is none or the new name is taken.
Moved(t) == IF Has(t, "pi") /\ ~Has(t, "rpi")
            THEN [host EXCEPT !.tree[t]["rpi"] = host.tree[t]["pi"], !.tree[t]["pi"] = "none",
                              !.toml = IF t = "etc" THEN "legacy" ELSE @,
                              !.owned = IF t = "lib" THEN TRUE ELSE @]
            ELSE host

Move == Do("mvlib", Moved("lib")) \/ Do("mvetc", Moved("etc")) \/ Do("mvlog", Moved("log"))

\* rewrite_owned_paths.
Rewrite == Do("rewrite", [host EXCEPT !.toml = IF @ = "legacy" THEN "own" ELSE @])

BackUpOldUnit == Do("oldunit", host)

Mark == Do("mark", [host EXCEPT !.ledger = TRUE])

\* useradd; the new id owns nothing.
UserAdd ==
    Do("useradd", IF "rpi" \in host.users THEN host
                  ELSE [host EXCEPT !.users = @ \cup {"rpi"}, !.groups = @ \cup {"rpi"},
                                    !.owned = FALSE])

Docker == Do("docker", [host EXCEPT !.member = @ \cup {"docker"}])
Login  == Do("login", [host EXCEPT !.member = @ \cup {"login"}])

\* Slip: made, but not given to the agent if it was there.
MadeOnly(t) == [host EXCEPT !.tree[t]["rpi"] = IF @ = "none" THEN "fresh" ELSE @,
                            !.owned = IF t = "lib" /\ ~Has("lib", "rpi") THEN TRUE ELSE @]

\* ensure_dir: made, or given to the agent.
Dir(t) == [host EXCEPT !.tree[t]["rpi"] = IF @ = "none" THEN "fresh" ELSE @,
                       !.owned = IF t = "lib" THEN TRUE ELSE @]

EnsureDir == Do("lib", Dir("lib")) \/ Do("log", Dir("log")) \/ Do("etc", Dir("etc"))

Toml == Do("toml", [host EXCEPT !.toml = IF @ = "none" THEN "default" ELSE @])

\* write_unit_with_backup, daemon-reload.
Unit   == Do("unit", [host EXCEPT !.unit = "canonical"])
Reload == \E p \in {"reload", "unload"} : Do(p, [host EXCEPT !.loaded = host.unit])

\* What the unit needs to come up: with the old paths in its config the agent
\* ends right away.
CanRun == host.bin # None /\ "rpi" \in host.users /\ Has("lib", "rpi") /\ host.toml # "legacy"

\* enable --now leaves an agent alone that runs.
Enable == Do("enable", [host EXCEPT !.enabled = TRUE,
                                    !.active = IF @ = None /\ CanRun THEN host.bin ELSE @])

\* With errors to report the command ends there: see GiveUp.
Report  == ~cmd.errs /\ Do("report", host)
Restart == Do("restart", [host EXCEPT !.active = IF @ # None /\ CanRun THEN host.bin ELSE None])

----------------------------------------------------------------------------
(* cloudflared. *)

\* Without a token: the unit, unless there is one; the rest is the operator's.
Scaffold == Do("scaffold", [host EXCEPT !.userunit = IF @ = "none" /\ Has("lib", "rpi") THEN "ours" ELSE @])

\* The token's file and the cloudflared binary.
Token == Do("token", [Dir("lib") EXCEPT !.owned = Has("lib", "rpi") /\ host.owned])

\* Nothing of ours goes over a tunnel that runs.
Guard == Do("guard", host)

Adopt ==
    /\ cmd.at = "adopt" /\ Needs("adopt")
    /\ cmd' = [cmd EXCEPT !.at = Then("adopt"), !.flavor = "adopted"]
    /\ UNCHANGED <<host, undone, spent>>

\* The tunnel is created with a secret, or it is there and its secret not told.
Tunnel ==
    /\ cmd.at = "tunnel"
    /\ host' = [host EXCEPT !.tunnel = TRUE]
    /\ cmd' = [cmd EXCEPT !.at = Then("tunnel"), !.secret = ~host.tunnel]
    /\ UNCHANGED <<undone, spent>>

\* The credentials and config.yml are written; if they cannot be given to the
\* agent that is an error, and it goes on.  A config.yml is a tunnel to serve.
Put(p, h, opened) ==
    /\ cmd.at = p /\ Needs(p)
    /\ host' = h
    /\ \E given \in IF p = "creds" /\ ~cmd.secret THEN {TRUE} ELSE BOOLEAN :
         /\ IF given THEN UNCHANGED spent ELSE Spend("failure")
         /\ cmd' = [cmd EXCEPT !.at = Then(p), !.failed = @ \/ ~given, !.errs = @ \/ ~given,
                               !.cferrs = @ \/ ~given, !.left = @ \cup opened]
    /\ UNCHANGED undone

Creds  == Put("creds", [host EXCEPT !.creds = TRUE], {})
Config == Put("config", [host EXCEPT !.config = "ours"], {"tunnel"})

Validate == Do("validate", host)

Section == Do("section", [host EXCEPT !.section = TRUE, !.toml = IF @ = "none" THEN "default" ELSE @])

\* The drop-in is written; nobody asks whether systemctl enabled the service.
Service ==
    /\ cmd.at = "service" /\ Needs("service")
    /\ \E on \in BOOLEAN :
         /\ IF on THEN UNCHANGED spent ELSE Spend("failure")
         /\ host' = [host EXCEPT !.userunit = "ours", !.service = @ \/ on]
         /\ cmd' = [cmd EXCEPT !.at = Then("service"), !.failed = @ \/ ~on,
                               !.left = IF on THEN @ \ {"tunnel"} ELSE @]
    /\ UNCHANGED undone

----------------------------------------------------------------------------
(* uninstall. *)

Disable == Do("disable", [host EXCEPT !.enabled = FALSE, !.active = None])

RmUnit == Do("rmunit", [host EXCEPT !.unit = "none"])

\* userdel: the group goes with its user, or stays (if it has other members).
UserDel == \E gone \in {{}, {"rpi"}} :
    Do("userdel", [host EXCEPT !.users = @ \ {"rpi"}, !.groups = @ \ gone,
                               !.member = IF gone = {} THEN @ \ {"docker"} ELSE {}])

\* rm -rf of a tree, with what of cloudflared and the config is in it: nobody stops
\* the cloudflared that runs.
Purge ==
    \/ Do("rmlib", [host EXCEPT !.tree["lib"]["rpi"] = "none", !.ledger = FALSE,
                      !.creds = FALSE, !.config = "none", !.userunit = "none", !.service = FALSE,
                      !.foreign = @ \/ host.service])
    \/ Do("rmetc", [host EXCEPT !.tree["etc"]["rpi"] = "none", !.toml = "none", !.section = FALSE])
    \/ Do("rmlog", [host EXCEPT !.tree["log"]["rpi"] = "none"])

----------------------------------------------------------------------------
(* Failures and cuts. *)

\* Slip: the user service is enabled whatever became of the tunnel.
GoOn(p) ==
    CASE p \in {"obtain", "binary", "open"} -> "done"
      [] p \in {"group", "user"} -> IF cmd.kind = "migrate" THEN "report" ELSE "useradd"
      [] p \in {"guard", "adopt", "section"} -> "report"
      [] p \in {"tunnel", "creds", "config"} -> "service"
      [] OTHER -> Then(p)

\* After these the command, or its part, ends.
OnFail(p) ==
    CASE p \in {"obtain", "binary", "open"} -> "done"
      [] p \in {"group", "user"} -> IF cmd.kind = "migrate" THEN "report" ELSE "useradd"
      [] p \in {"guard", "adopt", "tunnel", "creds", "config", "section"} -> "report"
      [] OTHER -> Then(p)

\* Failures that are ignored or only warned of; a repair of an owner that fails
\* is reported as nothing to do.
Silent(p) == \/ p \in {"stop", "oldunit", "mark", "unit", "reload", "enable", "restart", "scaffold",
                       "disable", "rmunit", "unload", "userdel"}
             \/ p \in {"lib", "log"} /\ Has(p, "rpi")

InTunnel(p) == p \in StepsOf(Tunneling) \cup {"token", "adopt"}

Swapped == IF cmd.swapped THEN {"swap"} ELSE {}

\* A step fails; what it leaves undone no later run makes good.
Fail ==
    LET p == cmd.at IN
    /\ p \in Steps \ {"report"} /\ ~Skips(p)
    /\ IF Needs(p) THEN Spend("failure") ELSE UNCHANGED spent
    /\ cmd' = [cmd EXCEPT
         !.at = OnFail(p), !.failed = TRUE,
         !.errs = @ \/ ~Silent(p), !.cferrs = @ \/ InTunnel(p),
         !.left = @ \cup (IF p \in StepsOf(Migrating) \ {"stop", "oldunit"} THEN {"migration"} ELSE {})
                    \cup (IF p = "restart" THEN {"swap"} ELSE {})]
    /\ UNCHANGED <<host, undone>>

\* With errors to report the binary that was put in place is not started.
GiveUp ==
    /\ cmd.at = "report" /\ cmd.errs
    /\ cmd' = [cmd EXCEPT !.at = "done", !.left = @ \cup Swapped]
    /\ UNCHANGED <<host, undone, spent>>

\* The command is cut off before the step it is at.
Cut ==
    /\ cmd.at # "done"
    /\ Spend("cut")
    /\ cmd' = Idle
    /\ undone' = undone \cup cmd.left \cup Swapped
                 \cup (IF cmd.at \in StepsOf(Migrating) \ {"stop", "group"} THEN {"migration"} ELSE {})
    /\ UNCHANGED host

Works ==
    \/ Obtain \/ Binary \/ Open \/ StopOld \/ RenameGroup \/ RenameUser \/ Move \/ Rewrite
    \/ BackUpOldUnit \/ Mark \/ UserAdd \/ Docker \/ Login \/ EnsureDir \/ Toml \/ Unit \/ Reload
    \/ Enable \/ Report \/ Restart \/ Scaffold \/ Token \/ Guard \/ Adopt \/ Tunnel \/ Creds
    \/ Config \/ Validate \/ Section \/ Service \/ Disable \/ RmUnit \/ UserDel \/ Purge

Next == Begins \/ Works \/ Fail \/ GiveUp \/ Cut

Spec == Init /\ [][Next]_vars

----------------------------------------------------------------------------
(* Properties. *)

\* All a deploy agent needs of its host, and nothing left under the old name.
Ready ==
    /\ "rpi" \in host.users /\ host.member = {"docker", "login"}
    /\ \A t \in Trees : Has(t, "rpi") /\ host.tree[t]["pi"] # "legacy"
    /\ host.owned /\ host.toml \in {"default", "own"}
    /\ host.unit = "canonical" /\ host.loaded = "canonical"
    /\ host.enabled /\ host.active # None

EndsWell(kinds) == cmd.at = "done" /\ cmd.kind \in kinds /\ ~cmd.errs /\ ~cmd.failed

\* Whatever commands failed or were cut before, a setup or an update in which
\* nothing fails leaves the host ready, the agent on the binary in place, and its
\* tunnel served ("idempotent": setup.rs): except for what it was shown no trace
\* of, a migration, a restart or a tunnel that an earlier one did not finish.
Settles ==
    EndsWell({"setup", "update"}) =>
        /\ undone \cap {"migration", "opened"} = {} =>
               Ready /\ ("swap" \notin undone => host.active = host.bin)
        /\ cmd.flavor \in {"full", "adopted"} /\ host.config = "ours" /\ "tunnel" \notin undone
              => host.service /\ host.section /\ host.creds

\* No tree that exists is lost, and agent.toml is not written over.
KeepsState ==
    /\ \A t \in Trees : {host.tree[t][n] : n \in Names} \ {"none"}
                            \subseteq {host'.tree[t][n] : n \in Names}
    /\ host.toml \in {"legacy", "own"} => host'.toml \in {"legacy", "own"}

\* A tunnel set up by hand keeps its config and its unit, and next to one that
\* runs none is started.
KeepsTunnel ==
    /\ host.config = "theirs" => host'.config = "theirs"
    /\ host.foreign => host'.service = host.service /\ host'.config = host.config
    /\ host.userunit = "theirs" /\ (host.config = "theirs" \/ host.foreign)
          => host'.userunit = "theirs"

\* What the operator had, data and settings or a tunnel set up by hand, is there
\* until it is purged, whatever is run over it and wherever that is cut off.
OperatorsStays == [][(KeepsState /\ KeepsTunnel) \/ cmd.flavor = "purge"]_host

\* No user service is on that would start over and over without its tunnel
\* (cloudflared_bootstrap), whatever failed or was cut off.
ServiceHasTunnel == host.service => host.config = "ours" /\ host.creds

\* A migration that is recorded is done, unless an earlier one was left in the
\* middle: the ledger keeps run_auto from trying again, and nothing else would.
\* (Of /var/lib see RecordedIsMoved.)
RecordedIsDone ==
    host.ledger /\ "migration" \notin undone =>
        ~Legacy /\ \A t \in {"etc", "log"} : host.tree[t]["pi"] # "legacy"

\* The same of all the trees (migrate_pi_agent: "migrated: pi-agent -> rpi-agent
\* (user, group, /var/lib, /etc, /var/log)").
RecordedIsMoved == host.ledger => \A t \in Trees : host.tree[t]["pi"] # "legacy"
=============================================================================
