------------------------------ MODULE Ingress ------------------------------
(***************************************************************************)
(* Routing hostnames through the tunnel: CloudflaredIngress                *)
(* (infrastructure/cloudflared.rs), called by the route stage of a         *)
(* deployment (upsert) and by the removal of a key (remove).               *)
(*                                                                         *)
(* All keys share one config.yml, which every operation reads, changes in  *)
(* memory and writes back whole; a DNS call and a restart of cloudflared   *)
(* follow, and when one of them fails the text that was read is written    *)
(* back.  Nothing locks the file.  tokio::fs::write runs in a blocking     *)
(* thread: it truncates the file and then fills it, and goes on when the   *)
(* operation that requested it is dropped.                                 *)
(*                                                                         *)
(* A document is here what it says of each hostname; that the edits of the *)
(* rule list do this is checked in IngressRules.  A config.yml is there    *)
(* from the setup, and each hostname belongs to one key, so one operation  *)
(* of a hostname runs at a time.                                           *)
(***************************************************************************)
EXTENDS Integers

CONSTANTS Hosts,    \* hostnames of the projects
          Ports,    \* host ports of the projects
          Off,      \* no rule, hence no route
          Torn,     \* a config.yml that is truncated and not yet written
          Down,     \* cloudflared is not running
          Unknown,  \* no operation of the hostname has answered
          Budgets   \* bounds on each kind of trouble, any of them

Kinds == {"overlap", "file", "disk", "dns", "restart", "drop", "crash"}

Table == [Hosts -> Ports \cup {Off}]

Blank == [h \in Hosts |-> Off]

ASSUME IngressAssumption ==
    /\ Off \notin Ports
    /\ Torn \notin Table
    /\ Down \notin Table
    /\ Unknown \notin Ports \cup {Off}
    /\ Budgets \subseteq [Kinds -> Nat]

VARIABLES
    config,  \* config.yml on disk
    loaded,  \* what the running cloudflared routes by
    dns,     \* hostnames with a CNAME that points at the tunnel
    at,      \* where the operation of each hostname stands
    goal,    \* the port it routes the hostname to, Off for a removal
    text,    \* the document it has read
    gone,    \* hostnames whose operation was dropped during a write
    answer,  \* the success the last operation answered, Unknown if none
    met,     \* hostnames whose last operation met another one (observed)
    spent    \* troubles of each kind so far

opVars == <<at, goal, text, gone, answer>>
vars   == <<config, loaded, dns, opVars, met, spent>>

\* "write"/"fill": before/inside the write of the change; "name": before the
\* DNS call of upsert; "restart"; "undo"/"refill": before/inside the write of
\* the old text; "unname": before the DNS call of remove.
Stages == {"idle", "read", "write", "fill", "name", "restart", "undo",
           "refill", "unname"}

TypeOK ==
    /\ config \in Table \cup {Torn}
    /\ loaded \in Table \cup {Down}
    /\ dns \in SUBSET Hosts
    /\ at \in [Hosts -> Stages]
    /\ goal \in [Hosts -> Ports \cup {Off}]
    /\ text \in [Hosts -> Table]
    /\ gone \in SUBSET Hosts
    /\ answer \in [Hosts -> Ports \cup {Off, Unknown}]
    /\ met \in SUBSET Hosts
    /\ spent \in [Kinds -> Nat]

\* A tunnel at work, with the rules of earlier deployments.
Init ==
    /\ config \in Table
    /\ loaded = config
    /\ dns = {h \in Hosts : config[h] # Off}
    /\ at = [h \in Hosts |-> "idle"]
    /\ goal = [h \in Hosts |-> Off]
    /\ text = [h \in Hosts |-> Blank]
    /\ gone = {}
    /\ answer = [h \in Hosts |-> Unknown]
    /\ met = {}
    /\ spent = [kind \in Kinds |-> 0]

Spend(kind) ==
    /\ spent' = [spent EXCEPT ![kind] = @ + 1]
    /\ {b \in Budgets : \A k \in Kinds : spent'[k] <= b[k]} # {}

MoveTo(h, stage) ==
    /\ at' = [at EXCEPT ![h] = stage]
    /\ UNCHANGED <<goal, text, gone, answer>>

\* The operation returns an error, or success; its locals are gone.
Return(h, result) ==
    /\ at' = [at EXCEPT ![h] = "idle"]
    /\ goal' = [goal EXCEPT ![h] = Off]
    /\ text' = [text EXCEPT ![h] = Blank]
    /\ gone' = gone \ {h}
    /\ answer' = [answer EXCEPT ![h] = result]

Fail(h)    == Return(h, Unknown)
Succeed(h) == Return(h, goal[h])

-----------------------------------------------------------------------------
(* Slips the properties are tested against: each stands in for the          *)
(* definition named in its comment.                                         *)

\* Edited that starts from an empty rule list.
Rewritten(h) == [[g \in Hosts |-> Off] EXCEPT ![h] = goal[h]]

\* Name that leaves the changed file in place when the DNS call fails.
NameNoUndo(h) ==
    /\ at[h] = "name"
    /\ \/ dns' = dns \cup {h} /\ MoveTo(h, "restart") /\ UNCHANGED spent
       \/ Spend("dns") /\ dns' = dns /\ Fail(h)
    /\ UNCHANGED <<config, loaded, met>>

\* Unname that puts the rule back when the DNS call fails, as an upsert does.
UnnameUndo(h) ==
    /\ at[h] = "unname"
    /\ \/ dns' = dns \ {h} /\ Succeed(h) /\ UNCHANGED spent
       \/ Spend("dns") /\ dns' = dns /\ MoveTo(h, "undo")
    /\ UNCHANGED <<config, loaded, met>>

-----------------------------------------------------------------------------
(* The operations.                                                         *)

\* What the operation writes: its own line changed in the text it read.
Edited(h) == [text[h] EXCEPT ![h] = goal[h]]

Begin(h, g) ==
    /\ at[h] = "idle"
    /\ IF \A i \in Hosts : at[i] = "idle" THEN UNCHANGED spent ELSE Spend("overlap")
    /\ at' = [at EXCEPT ![h] = "read"]
    /\ goal' = [goal EXCEPT ![h] = g]
    /\ answer' = [answer EXCEPT ![h] = Unknown]
    /\ UNCHANGED <<config, loaded, dns, text, gone, met>>

\* Operations with a text they may still write, changed or as it was.
Holding == {h \in Hosts : at[h] \in {"write", "fill", "name", "restart", "undo", "refill"}}

\* An operation that reads while others hold what they have read meets them.
Meet(h) == met' = IF Holding = {} THEN met \ {h} ELSE met \cup Holding \cup {h}

\* A truncated file does not parse; a line that is already right ends an
\* upsert and takes a removal straight to its DNS call.
Read(h) ==
    /\ at[h] = "read"
    /\ \/ config = Torn /\ Fail(h) /\ UNCHANGED spent
       \/ Spend("file") /\ Fail(h)
       \/ /\ config # Torn /\ config[h] = goal[h]
          /\ IF goal[h] = Off THEN MoveTo(h, "unname") ELSE Succeed(h)
          /\ UNCHANGED spent
       \/ /\ config # Torn /\ config[h] # goal[h]
          /\ text' = [text EXCEPT ![h] = config]
          /\ at' = [at EXCEPT ![h] = "write"]
          /\ UNCHANGED <<goal, gone, answer, spent>>
    /\ Meet(h)
    /\ UNCHANGED <<config, loaded, dns>>

\* tokio::fs::write opens the file, which truncates it, or fails to.
Truncate(h) ==
    /\ at[h] \in {"write", "undo"}
    /\ \/ /\ config' = Torn
          /\ MoveTo(h, IF at[h] = "write" THEN "fill" ELSE "refill")
          /\ UNCHANGED spent
       \/ Spend(IF at[h] = "write" THEN "file" ELSE "disk") /\ Fail(h) /\ UNCHANGED config
    /\ UNCHANGED <<loaded, dns, met>>

\* The operation is resumed after its write, if it still exists.
Resume(h, stage) == IF h \in gone THEN Fail(h) ELSE MoveTo(h, stage)

\* upsert goes on with DNS, remove with the restart.
Fill(h) ==
    /\ at[h] = "fill"
    /\ \/ /\ config' = Edited(h)
          /\ Resume(h, IF goal[h] = Off THEN "restart" ELSE "name")
          /\ UNCHANGED spent
       \/ Spend("disk") /\ Fail(h) /\ UNCHANGED config
    /\ UNCHANGED <<loaded, dns, met>>

\* The call may fail after its effect.
Name(h) ==
    /\ at[h] = "name"
    /\ \/ dns' = dns \cup {h} /\ MoveTo(h, "restart") /\ UNCHANGED spent
       \/ Spend("dns") /\ dns' \in {dns, dns \cup {h}} /\ MoveTo(h, "undo")
    /\ UNCHANGED <<config, loaded, met>>

\* cloudflared does not start on a truncated file; a restart that fails
\* leaves it as it was or stopped.
Restart(h) ==
    /\ at[h] = "restart"
    /\ \/ /\ config # Torn
          /\ loaded' = config
          /\ IF goal[h] = Off THEN MoveTo(h, "unname") ELSE Succeed(h)
          /\ UNCHANGED spent
       \/ /\ config = Torn
          /\ loaded' = Down
          /\ MoveTo(h, "undo")
          /\ UNCHANGED spent
       \/ /\ Spend("restart")
          /\ loaded' \in {loaded, Down}
          /\ MoveTo(h, "undo")
    /\ UNCHANGED <<config, dns, met>>

\* The old text, whatever the file says by now; the operation then fails.
Refill(h) ==
    /\ at[h] = "refill"
    /\ \/ config' = text[h] /\ UNCHANGED spent
       \/ Spend("disk") /\ UNCHANGED config
    /\ Fail(h)
    /\ UNCHANGED <<loaded, dns, met>>

Unname(h) ==
    /\ at[h] = "unname"
    /\ \/ dns' = dns \ {h} /\ Succeed(h) /\ UNCHANGED spent
       \/ Spend("dns") /\ dns' \in {dns, dns \ {h}} /\ Fail(h)
    /\ UNCHANGED <<config, loaded, met>>

\* The deployment is canceled, or the client of the removal disconnects: a
\* call that was sent may still take effect, a write always does.
Drop(h) ==
    /\ Spend("drop")
    /\ \/ /\ at[h] \in {"fill", "refill"} /\ h \notin gone
          /\ gone' = gone \cup {h}
          /\ UNCHANGED <<at, goal, text, answer, loaded, dns>>
       \/ /\ at[h] \in {"read", "write", "undo", "name", "restart", "unname"}
          /\ Fail(h)
          /\ dns' \in {dns} \cup (IF at[h] = "name" THEN {dns \cup {h}} ELSE {})
                            \cup (IF at[h] = "unname" THEN {dns \ {h}} ELSE {})
          /\ loaded' \in {loaded} \cup
                 (IF at[h] = "restart" /\ config # Torn THEN {config} ELSE {})
    /\ UNCHANGED <<config, met>>

\* The agent dies; cloudflared, DNS and the file stay as they are.
Crash ==
    /\ Spend("crash")
    /\ at' = [h \in Hosts |-> "idle"]
    /\ goal' = [h \in Hosts |-> Off]
    /\ text' = [h \in Hosts |-> Blank]
    /\ gone' = {}
    /\ UNCHANGED <<config, loaded, dns, answer, met>>

Step(h) == \/ Read(h) \/ Truncate(h) \/ Fill(h) \/ Name(h) \/ Restart(h)
           \/ Refill(h) \/ Unname(h)

Next == \/ \E h \in Hosts : \/ \E g \in Ports \cup {Off} : Begin(h, g)
                            \/ Step(h)
                            \/ Drop(h)
        \/ Crash

Spec == Init /\ [][Next]_vars
-----------------------------------------------------------------------------
(* Properties.                                                             *)

\* No two operations were under way at once so far, and none was dropped, cut
\* short by a crash or met a full disk.
Undisturbed == \A kind \in {"overlap", "disk", "drop", "crash"} : spent[kind] = 0

\* A deployment told "route ok" is reachable, and a removed hostname is not:
\* over failing DNS calls and restarts and their rollbacks, of any hostname,
\* what an operation answered is what DNS and the running cloudflared do,
\* until one is disturbed.  The diff that skips an unchanged document rests on
\* it (cloudflared.rs, lines 161-170).
AnswersHold ==
    Undisturbed =>
        \A h \in Hosts : answer[h] # Unknown =>
            /\ h \in dns <=> answer[h] # Off
            /\ loaded # Down => loaded[h] = answer[h]

\* Every other rule is left untouched (ingress.md, step 3) through the writes
\* and the rollbacks of other hostnames' operations, also when these run into
\* each other, are dropped, cut short or fail: what an operation has answered
\* stays in the file.  Nothing locks the file, so this is not so for operations
\* that met: the text one of them holds lacks the change of the other, and only
\* these lose their rules.
OthersUntouched ==
    \A h \in Hosts \ met : answer[h] # Unknown => config = Torn \/ config[h] = answer[h]

\* The operation that has touched the file and not yet decided.
Undecided == {h \in Hosts : at[h] \in {"fill", "name", "restart", "undo", "refill"}}

\* The table as callers may rely on it: an undecided change is not in it.
Routes == IF Undecided = {} THEN config
          ELSE text[CHOOSE h \in Undecided : TRUE]

Promise == INSTANCE RouteTable WITH routes <- Routes

\* Until one is disturbed, an operation changes its line of the table at one
\* instant or not at all, whichever of DNS and restart fails.
ImplementsTable ==
    Promise!Init /\ [][Undisturbed' => Promise!Next]_(Promise!vars)
=============================================================================
