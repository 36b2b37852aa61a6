---------------------------- MODULE Addressing ----------------------------
(***************************************************************************)
(* What a deployment is addressed to: the key of a request, the checks of  *)
(* create_deployment (agent/http.rs) against the registry, the host port   *)
(* the registry gives out (infrastructure/repo.rs), and the rule the       *)
(* deployment leaves in cloudflared's list (IngressRules).                 *)
(*                                                                         *)
(* Requests come from the CLI, which resolves its files (Overlay), and     *)
(* from other versions of it and other clients, which send what they like. *)
(* The checks look at the registry when the request comes, the registry is *)
(* written when the deployment starts, the rule when it ends.  A removal   *)
(* is one step here (its own are those of Environments).                   *)
(***************************************************************************)
EXTENDS Overlay, FiniteSetsExt

CONSTANTS BaseDocs, OverDocs,  \* what the two files may say
          EnvArgs,             \* the names given to --env
          Users,               \* what --vars may say
          Branches,            \* the branches checked out
          Deployed,            \* those of their commands that deploy
          Strangers,           \* requests of other clients
          Legacy,              \* registries earlier agents may have left
          Docs,                \* ingress lists operators may have written
          Ranges,              \* port ranges the agent is configured with
          Top,                 \* the largest port, 65535
          MaxRows, MaxOpen,    \* bounds: keys in the registry, open deployments
          Guests, NoHost, Other, NotFound  \* as in IngressRules

NoFile == [f \in Fields |-> Absent]

\* A request: the key, what it says of the environment, the hostname.
MetaOf(r) == IF r.env = Absent THEN Absent
             ELSE [base |-> Project, env |-> r.env, slug |-> r.slug]

\* A command of a developer: the files, the arguments, the branch checked out.
Commands == [base : BaseDocs, over : OverDocs, env : EnvArgs, user : Users, git : Branches]

Resolution(c) ==
    Resolve(c.base, IF c.env = Absent THEN NoFile ELSE c.over, c.env, c.user, c.git)

\* What `rpi deploy` sends.
Request(r) == [key |-> r.key, meta |-> MetaOf(r), host |-> r.host]

Sent == {Request(r) : r \in {Resolution(c) : c \in Deployed} \ {Refused}}

Requests == Sent \cup Strangers

Hostnames == {q.host : q \in Requests} \ {Absent}

VARIABLES reg,      \* the registry: a function of the keys that are registered
          pending,  \* accepted requests whose deployment has not started
          running,  \* those under way, with the port of their key
          rules,    \* the ingress list of config.yml
          range     \* the configured ports

addrVars == <<reg, pending, running, rules, range>>

List == INSTANCE IngressRules WITH Hosts <- Hostnames, Ports <- 1..Top

Metas     == [base : Text, env : Text, slug : Text \cup {Absent}]
Rows(metas) == [meta : metas, host : Hostnames \cup {Absent}, port : 1..Top]
Rules(to) == [host : Hostnames \cup Guests \cup {NoHost}, to : to]

ASSUME AddressingAssumption ==
    /\ Absent \notin Metas /\ BaseDocs \cup OverDocs \subseteq Documents
    /\ EnvArgs \subseteq Value \cup {Absent} /\ Branches \subseteq Value
    /\ Users \subseteq [{} -> Value] \cup [{Variable} -> Value]
    /\ Strangers \subseteq [key : Text, meta : Metas \cup {Absent}, host : Text \cup {Absent}]
    /\ Top \in Nat /\ Ranges \subseteq (1..Top) \X (1..Top)
    /\ NoHost \notin Hostnames \cup Guests

\* Earlier agents had no environments; cloudflared took what is written.
ASSUME LegacyAssumption ==
    /\ \A r \in Legacy : r \in [DOMAIN r -> Rows({Absent})]
    /\ \A doc \in Docs : doc \in Seq(Rules({Other})) /\ List!WellFormed(doc)

AddrInit ==
    /\ reg \in Legacy
    /\ pending = {} /\ running = {}
    /\ rules \in Docs
    /\ range \in Ranges

\* What the state is made of.
AddrTypeOK ==
    /\ reg \in [DOMAIN reg -> Rows({q.meta : q \in Requests} \cup {Absent})]
    /\ pending \subseteq Requests
    /\ running \subseteq [ask : Requests, port : 1..Top]
    /\ rules \in Seq(Rules(1..Top \cup {Other, NotFound}))
    /\ range \in Ranges
-----------------------------------------------------------------------------
(* create_deployment.                                                      *)

Alnum     == Small \cup Digits
PartChars == Alnum \cup {"-"}
NameChars == PartChars \cup {"_"}

ValidName(name) ==
    /\ name \in Seq(NameChars)
    /\ name # <<>> /\ name[1] \in Alnum

ValidPart(part, max) ==
    /\ part \in Seq(PartChars)
    /\ part # <<>> /\ Len(part) <= max
    /\ ~TwoDashes(part)
    /\ part[1] # "-" /\ Last(part) # "-"

MaxEnv == 64

ValidMeta(m) ==
    /\ ValidName(m.base) /\ ~TwoDashes(m.base)
    /\ ValidPart(m.env, MaxEnv) /\ m.env[1] \in Small
    /\ m.slug # Absent => ValidPart(m.slug, MaxSlug)

ValidShape(q) ==
    /\ ValidName(q.key)
    /\ IF q.meta = Absent THEN ~TwoDashes(q.key)
       ELSE ValidMeta(q.meta) /\ q.key = Key(q.meta.base, q.meta.env, q.meta.slug)

Registered(k) == k \in DOMAIN reg

\* Slip: a key that is registered as something else is taken all the same.
AnyKind(q) == Registered(q.key) => reg[q.key].meta \in {Absent, q.meta}

\* A key does not change between project and environment.
SameKind(q) == Registered(q.key) => (reg[q.key].meta = Absent <=> q.meta = Absent)

\* An environment is not given the hostname its base is registered with.
OwnHost(q) ==
    q.meta # Absent /\ q.host # Absent /\ Registered(q.meta.base)
        => reg[q.meta.base].host # q.host

\* The scheduler keeps the latest request of a key.
Submit(q) ==
    /\ Cardinality(pending) + Cardinality(running) < MaxOpen
    /\ ValidShape(q) /\ SameKind(q) /\ OwnHost(q)
    /\ pending' = {p \in pending : p.key # q.key} \cup {q}
    /\ UNCHANGED <<reg, running, rules, range>>
-----------------------------------------------------------------------------
(* The deployment.                                                         *)

Used == {reg[k].port : k \in DOMAIN reg}

\* Slip: the loop ends at the first port that is not the candidate.
FirstGap ==
    LET ports == SetToSortSeq(Used, <)
        n     == Max({0} \cup {i \in DOMAIN ports :
                                  \A j \in 1..i : ports[j] = range[1] + j - 1})
    IN  range[1] + n

\* The loop over the ports in use, in order; saturating_add.
AllocatePort ==
    LET candidate[p \in 0..Top] ==
            IF p = 0 THEN range[1]
            ELSE IF p \in Used /\ p = candidate[p - 1] THEN (IF p < Top THEN p + 1 ELSE Top)
            ELSE candidate[p - 1]
    IN  candidate[Top]

\* No port is left; or the candidate, past the end of all ports, is in use.
NoPort == AllocatePort > range[2] \/ AllocatePort \in Used

Idle(k) == \A p \in pending : p.key # k
Still(k) == \A d \in running : d.ask.key # k

\* Upsert: a key that is registered keeps its port.
Row(q, port) == [meta |-> q.meta, host |-> q.host, port |-> port]

Register(q) ==
    /\ q \in pending /\ Still(q.key)
    /\ pending' = pending \ {q}
    /\ \/ /\ Registered(q.key) \/ (~NoPort /\ Cardinality(DOMAIN reg) < MaxRows)
          /\ LET port == IF Registered(q.key) THEN reg[q.key].port ELSE AllocatePort
             IN  /\ reg' = [k \in DOMAIN reg \cup {q.key} |->
                               IF k = q.key THEN Row(q, port) ELSE reg[k]]
                 /\ running' = running \cup {[ask |-> q, port |-> port]}
       \/ ~Registered(q.key) /\ NoPort /\ UNCHANGED <<reg, running>>
    /\ UNCHANGED <<rules, range>>

Publish(d) ==
    /\ d \in running
    /\ running' = running \ {d}
    /\ rules' = IF d.ask.host = Absent THEN rules
                ELSE List!UpsertRule(rules, d.ask.host, d.port)
    /\ UNCHANGED <<reg, pending, range>>

\* A stage before that fails, or the deployment is canceled.
Break(d) ==
    /\ d \in running
    /\ running' = running \ {d}
    /\ UNCHANGED <<reg, pending, rules, range>>

Cancel(q) ==
    /\ q \in pending
    /\ pending' = pending \ {q}
    /\ UNCHANGED <<reg, running, rules, range>>

RemoveProject(k) ==
    /\ Registered(k) /\ Idle(k) /\ Still(k)
    /\ reg' = [j \in DOMAIN reg \ {k} |-> reg[j]]
    /\ rules' = IF reg[k].host = Absent THEN rules ELSE List!RemoveRule(rules, reg[k].host)
    /\ UNCHANGED <<pending, running, range>>

\* With another configuration, maybe.
Reconfigure(r) ==
    /\ range' = r
    /\ pending' = {} /\ running' = {}
    /\ UNCHANGED <<reg, rules>>

AddrNext ==
    \/ \E q \in Requests : Submit(q)
    \/ \E q \in pending : Register(q) \/ Cancel(q)
    \/ \E d \in running : Publish(d) \/ Break(d)
    \/ \E k \in DOMAIN reg : RemoveProject(k)
    \/ \E r \in Ranges : Reconfigure(r)

AddrSpec == AddrInit /\ [][AddrNext]_addrVars
-----------------------------------------------------------------------------
(* Properties.                                                             *)

\* Resolution in one step, as the documents say it (README.md, line 365, and
\* environments.md, items 2 to 4): the overlay is laid over the base as they
\* are written, every reference is read off once, the slug is that of the
\* branch that will be deployed.
AsWritten(c) ==
    LET over   == IF c.env = Absent THEN NoFile ELSE c.over
        branch == EffectiveBranch(c.base, over)
        set    == VarSet(c.user, c.git, c.env, References)
        named  == Substitute(branch, set)
        all    == [v \in DOMAIN set \cup {"${env.slug}"} |->
                      IF v = "${env.slug}" THEN Slug(named) ELSE set[v]]
        Read(f) == LET text == IF over[f] # Absent THEN over[f] ELSE c.base[f]
                   IN  IF text = Absent THEN Absent ELSE Substitute(text, all)
    IN  [branch |-> named,
         slug   |-> IF c.env # Absent /\ "${env.slug}" \in Refs(c.base) \cup Refs(over)
                    THEN Slug(named) ELSE Absent,
         host   |-> IF over.host # Absent /\ Read("host") = <<>> THEN Absent ELSE Read("host"),
         other  |-> Read("other")]

Resolved == [c \in Commands |-> Resolution(c)]
Written  == [c \in Commands |-> AsWritten(c)]

\* The form of a key that only the agent minds: the characters of the project's
\* name, the dashes and the length of the environment's.
Agreeable(c) ==
    /\ ValidName(Project)
    /\ c.env # Absent => /\ ~TwoDashes(c.env) /\ Last(c.env) # "-"
                         /\ Len(c.env) <= MaxEnv

\* Whatever the two passes over the two files come to is what the documents
\* say, and the two sides agree on the form of keys: an agent that has nothing
\* registered takes what the CLI sends, with the slug of any branch.
SentAsWritten ==
    DOMAIN reg = {} =>
        \A c \in Commands : LET r == Resolved[c] IN
            r # Refused =>
                /\ [f \in {"branch", "slug", "host", "other"} |-> r[f]] = Written[c]
                /\ Agreeable(c) => LET q == Request(r) IN ValidShape(q) /\ SameKind(q) /\ OwnHost(q)

\* A key is one project or one environment for as long as it is registered,
\* whoever sends requests, whatever earlier agents have registered, and
\* whatever was accepted before and is deployed now: two environments, or an
\* environment and a project, never share containers and volumes.
IdentityKept ==
    [][\A k \in DOMAIN reg \cap DOMAIN reg' : reg'[k].meta = reg[k].meta]_addrVars

\* A new key gets the lowest free port and is refused only if there is none,
\* also after the range was moved with projects registered, and up to the
\* last port there is.
PortFound ==
    LET free == (range[1]..range[2]) \ Used
    IN  IF free = {} THEN NoPort ELSE ~NoPort /\ AllocatePort = Min(free)

\* No edit touches but the way of its hostname.
RoutesKept == List!RoutesKept
=============================================================================
