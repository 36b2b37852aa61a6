---------------------------- MODULE SecretFiles ----------------------------
(***************************************************************************)
(* How the secrets of a deploy key come to its containers: a deployment or *)
(* `rpi secrets apply` loads the layers one by one (effective_secrets,     *)
(* application/lib.rs), merges them, writes .env and the secret files into *)
(* the work tree with a manifest of the files it wrote                     *)
(* (infrastructure/secretsfile.rs), writes the compose override and brings *)
(* the stack up (run_stages, application/deploy.rs; ApplySecrets,          *)
(* application/secrets.rs).  Meanwhile the layers change.                  *)
(*                                                                         *)
(* Deployments of a key follow each other (Scheduler); nothing keeps an    *)
(* apply from running beside them.  The file work is one call in a         *)
(* blocking thread, the override another: an injector that is canceled or  *)
(* whose client disconnects leaves the one it is in running to its end.  A *)
(* fetch keeps untracked files (git reset --hard), so the tree keeps what  *)
(* was injected.                                                           *)
(*                                                                         *)
(* A value is the layer it came from and the number of the push.  Modes,   *)
(* directories and symbolic links are left out.                            *)
(***************************************************************************)
EXTENDS Integers, Sequences, FiniteSets

CONSTANTS Deploys,   \* deployments of the key, each with its commit
          Applies,   \* requests to apply its secrets
          Groups,    \* secret groups of its base project
          Key,       \* the layer of the key itself
          Vars,      \* variables of .env
          Files,     \* secret files
          Stacks,    \* the lists of groups rpi.toml may declare
          Bundles,   \* sets of names a push may bring
          None,      \* nothing there
          Budgets    \* bounds on edits and on each kind of trouble, any of them

Injectors == Deploys \cup Applies
Layers    == Groups \cup {Key}
Names     == Vars \cup Files
Values    == Layers \X Nat
Commits   == Deploys \cup {None}
Kinds     == {"edit", "overlap", "drop", "disk", "crash"}

ASSUME FilesAssumption ==
    /\ Deploys \cap Applies = {} /\ Vars \cap Files = {} /\ Key \notin Groups
    /\ Stacks \subseteq Seq(Groups)
    /\ Bundles \subseteq (SUBSET Names) \ {{}}
    /\ None \notin Deploys /\ None \notin Values
    /\ Budgets \subseteq [Kinds -> Nat]

VARIABLES
    stored,    \* of each layer: the number of the last push, the names in it
    declared,  \* registry: groups of the last deployment submitted
    commit,    \* registry: commit of the last success
    disk,      \* .env and the secret files of the work tree
    manifest,  \* the files it records
    override,  \* RPI_COMMIT_SHA of the compose override
    running,   \* variables and commit the containers were started with
    job,       \* each injector: where it stands and what it has read
    gone,      \* injectors cut off while their file work goes on
    calm,      \* injectors without another and without an edit so far (observed)
    stray,     \* files written since the manifest recorded them (observed)
    spent      \* edits and troubles of each kind so far

registry == <<declared, commit>>
tree     == <<disk, manifest>>
stack    == <<override, running>>
observed == <<calm, stray>>
vars     == <<stored, registry, tree, stack, job, gone, observed, spent>>

\* "files": the thread reads the manifest; "put", "sweep": it writes the files,
\* deletes those of the last time and writes the manifest.
Threaded == {"env", "files", "put", "sweep", "override"}
Stages   == {"idle", "load", "up", "record", "ok", "failed"} \cup Threaded

\* What is yet to load, what was loaded, the files yet to write or delete, the
\* manifest read, the commit to tell.
Job == [at : Stages, layers : Seq(Layers), merged : [Names -> Values \cup {None}],
        todo : SUBSET Files, prior : SUBSET Files, sha : Commits]

Nothing == [n \in Names |-> None]

Empty(stage) == [at |-> stage, layers |-> <<>>, merged |-> Nothing, todo |-> {}, prior |-> {},
                 sha |-> None]

Active == {i \in Injectors : job[i].at \notin {"idle", "ok", "failed"}}

TypeOK ==
    /\ stored \in [Layers -> [push : Nat, names : SUBSET Names]]
    /\ declared \in Stacks /\ commit \in Commits
    /\ disk \in [Names -> Values \cup {None}]
    /\ manifest \in SUBSET Files
    /\ override \in Commits
    /\ running \in [env : [Vars -> Values \cup {None}], sha : Commits]
    /\ job \in [Injectors -> Job]
    /\ gone \subseteq Active
    /\ calm \in SUBSET Injectors
    /\ stray \in SUBSET Files
    /\ spent \in [Kinds -> Nat]

\* A project deployed once, without secrets.
Init ==
    /\ stored = [l \in Layers |-> [push |-> 0, names |-> {}]]
    /\ declared \in Stacks
    /\ commit = None
    /\ disk = Nothing
    /\ manifest = {}
    /\ override = None
    /\ running = [env |-> [v \in Vars |-> None], sha |-> None]
    /\ job = [i \in Injectors |-> Empty("idle")]
    /\ gone = {}
    /\ calm = {}
    /\ stray = {}
    /\ spent = [kind \in Kinds |-> 0]

Spend(kind) ==
    /\ spent' = [spent EXCEPT ![kind] = @ + 1]
    /\ {b \in Budgets : \A k \in Kinds : spent'[k] <= b[k]} # {}

\* A group is pushed or removed, the key's bundle pushed (SecretStore).
Edit(l) ==
    /\ Spend("edit")
    /\ \/ \E names \in Bundles :
             stored' = [stored EXCEPT ![l] = [push |-> spent'["edit"], names |-> names]]
       \/ /\ l # Key /\ stored[l].names # {}
          /\ stored' = [stored EXCEPT ![l] = [push |-> 0, names |-> {}]]
    /\ calm' = calm \ Active
    /\ UNCHANGED <<registry, tree, stack, job, gone, stray>>

----------------------------------------------------------------------------
(* Injectors. *)

\* An injector starts with the groups declared and the commit to tell.
Start(i, groups, c) ==
    /\ job[i].at = "idle"
    /\ job' = [job EXCEPT ![i] = [Empty("load") EXCEPT !.layers = Append(groups, Key), !.sha = c]]
    /\ calm' = IF Active = {} THEN calm \cup {i} ELSE calm \ Active
    /\ IF Active = {} THEN UNCHANGED spent ELSE Spend("overlap")
    /\ UNCHANGED <<stored, commit, tree, stack, gone, stray>>

\* A deployment registers its rpi.toml and fetches its commit.
Deploy(d) == /\ Active \cap Deploys \subseteq gone
             /\ \E groups \in Stacks : Start(d, groups, d) /\ declared' = groups

\* rpi secrets apply, or push --apply: the groups and the commit registered.
Apply(a) == Start(a, declared, commit) /\ UNCHANGED declared

\* merge_layers: a later layer wins, name by name.
Over(i, l) == [n \in Names |-> IF n \in stored[l].names THEN <<l, stored[l].push>>
                               ELSE job[i].merged[n]]

\* load_layer_stack: the next layer; a declared group must not be empty.  A
\* deployment without secrets leaves the tree as it is.
Load(i) ==
    /\ job[i].at = "load"
    /\ LET l    == Head(job[i].layers)
           then == IF l # Key THEN "load"
                   ELSE IF i \in Deploys /\ Over(i, l) = Nothing THEN "override"
                   ELSE "env"
       IN  job' = [job EXCEPT ![i] =
                     IF l # Key /\ stored[l].names = {} THEN Empty("failed")
                     ELSE [@ EXCEPT !.at = then, !.merged = Over(i, l),
                                    !.layers = Tail(job[i].layers)]]
    /\ UNCHANGED <<stored, registry, tree, stack, gone, observed, spent>>

\* After a call in the thread: an injector that was cut off goes no further.
Go(i, stage) == /\ job' = [job EXCEPT ![i] = IF i \in gone THEN Empty("failed")
                                             ELSE [@ EXCEPT !.at = stage]]
                /\ gone' = gone \ {i}

\* .env is replaced, or removed if there are no variables.
Env(i) ==
    /\ job[i].at = "env"
    /\ disk' = [n \in Names |-> IF n \in Vars THEN job[i].merged[n] ELSE disk[n]]
    /\ Go(i, "files")
    /\ UNCHANGED <<stored, registry, manifest, stack, observed, spent>>

Current(i) == {f \in Files : job[i].merged[f] # None}

\* Slip: everything that was there goes.
Everything(i) == job[i].prior

\* Slip: what was written the last time stays.
Leave(i) == {}

\* What was written the last time and is not any more.
Stale(i) == job[i].prior \ Current(i)

\* read_manifest, in the thread that does the rest.
Read(i) ==
    /\ job[i].at = "files"
    /\ job' = [job EXCEPT ![i].at = "put", ![i].prior = manifest, ![i].todo = Current(i)]
    /\ UNCHANGED <<stored, registry, tree, stack, gone, observed, spent>>

\* write_files_blocking: one file, renamed into its place.
Put(i) ==
    /\ job[i].at = "put"
    /\ \E f \in job[i].todo :
          /\ disk' = [disk EXCEPT ![f] = job[i].merged[f]]
          /\ job' = [job EXCEPT ![i].todo = @ \ {f}]
          /\ stray' = stray \cup {f}
    /\ UNCHANGED <<stored, registry, manifest, stack, gone, calm, spent>>

\* sync_manifest_blocking: after the new files, the stale ones, one by one.
Turn(i) ==
    /\ job[i].at = "put" /\ job[i].todo = {}
    /\ job' = [job EXCEPT ![i].at = "sweep", ![i].todo = Stale(i)]
    /\ UNCHANGED <<stored, registry, tree, stack, gone, observed, spent>>

Sweep(i) ==
    /\ job[i].at = "sweep"
    /\ \E f \in job[i].todo :
          /\ disk' = [disk EXCEPT ![f] = None]
          /\ job' = [job EXCEPT ![i].todo = @ \ {f}]
          /\ stray' = stray \ {f}
    /\ UNCHANGED <<stored, registry, manifest, stack, gone, calm, spent>>

\* The manifest is replaced, or removed if there are no files.
Note(i) ==
    /\ job[i].at = "sweep" /\ job[i].todo = {}
    /\ manifest' = Current(i)
    /\ stray' = stray \ Current(i)
    /\ Go(i, "override")
    /\ UNCHANGED <<stored, registry, disk, stack, calm, spent>>

\* Slip: every injector tells the commit registered.
OverrideLast(i) ==
    /\ job[i].at = "override"
    /\ override' = commit
    /\ Go(i, "up")
    /\ UNCHANGED <<stored, registry, tree, running, observed, spent>>

\* The RPI_* variables: a deployment tells its own commit, an apply the one
\* of the last success.
Override(i) ==
    /\ job[i].at = "override"
    /\ override' = job[i].sha
    /\ Go(i, "up")
    /\ UNCHANGED <<stored, registry, tree, running, observed, spent>>

\* compose up: the containers take .env and the override.
Up(i) ==
    /\ job[i].at = "up"
    /\ running' = [env |-> [v \in Vars |-> disk[v]], sha |-> override]
    /\ job' = [job EXCEPT ![i].at = "record"]
    /\ UNCHANGED <<stored, registry, tree, override, gone, observed, spent>>

\* A deployment that succeeds records its commit; an apply records nothing.
Record(i) ==
    /\ job[i].at = "record"
    /\ commit' = IF i \in Deploys THEN i ELSE commit
    /\ job' = [job EXCEPT ![i] = Empty("ok")]
    /\ UNCHANGED <<stored, declared, tree, stack, gone, observed, spent>>

----------------------------------------------------------------------------
(* Troubles. *)

\* A load, a file, compose or a health check fails.
Fail(i) ==
    /\ i \in Active
    /\ Spend("disk")
    /\ job' = [job EXCEPT ![i] = Empty("failed")]
    /\ gone' = gone \ {i}
    /\ UNCHANGED <<stored, registry, tree, stack, observed>>

\* The deployment is canceled, the client of the apply disconnects.  What a
\* thread has begun goes on; of the override not before its directory is there.
Drop(i) ==
    /\ i \in Active \ gone
    /\ Spend("drop")
    /\ \/ job[i].at \in Threaded /\ gone' = gone \cup {i} /\ UNCHANGED job
       \/ /\ job[i].at \notin Threaded \ {"override"}
          /\ job' = [job EXCEPT ![i] = Empty("failed")] /\ UNCHANGED gone
    /\ UNCHANGED <<stored, registry, tree, stack, observed>>

Crash ==
    /\ Active # {}
    /\ Spend("crash")
    /\ job' = [i \in Injectors |-> IF i \in Active THEN Empty("failed") ELSE job[i]]
    /\ gone' = {}
    /\ UNCHANGED <<stored, registry, tree, stack, observed>>

Next ==
    \/ \E l \in Layers : Edit(l)
    \/ \E d \in Deploys : Deploy(d)
    \/ \E a \in Applies : Apply(a)
    \/ \E i \in Injectors :
          \/ Load(i) \/ Env(i) \/ Read(i) \/ Put(i) \/ Turn(i) \/ Sweep(i) \/ Note(i)
          \/ Override(i) \/ Up(i) \/ Record(i) \/ Fail(i) \/ Drop(i)
    \/ Crash

Spec == Init /\ [][Next]_vars

----------------------------------------------------------------------------
(* Properties. *)

\* The layers a key is to be served, later ones over earlier ones, as
\* secretgroup.rs has it: the last layer that has a name supplies it.
Effective(n) ==
    LET order == Append(declared, Key)
        has   == {k \in DOMAIN order : n \in stored[order[k]].names}
        last  == CHOOSE k \in has : \A j \in has : j <= k
    IN  IF has = {} THEN None ELSE <<order[last], stored[order[last]].push>>

\* An injector past its file work, of a key that has secrets.
Written(i) == /\ job[i].at \in {"override", "up", "record"}
              /\ i \in Applies \/ job[i].merged # Nothing

\* An injector that nothing disturbs leaves the work tree with every secret the
\* key is served, from the layer that wins, and its containers with the
\* variables, whatever was injected, cut off or lost before it.  It leaves no
\* other secret: what an earlier injection wrote is gone.  Except the files of
\* one that was cut short between a file and the manifest, for those no later
\* one knows of; and as long as no two injectors overlap, for one writes its
\* manifest over the other's.
LeavesWhatIsServed ==
    \A i \in calm : Written(i) =>
       /\ \A n \in Names :
             IF Effective(n) # None THEN disk[n] = Effective(n)
             ELSE disk[n] # None /\ spent["overlap"] = 0 => n \in stray
       /\ job[i].at = "record" => \A v \in Vars : running.env[v] = Effective(v)

\* While it works no secret that was there and still is to be is missing: the
\* running containers see an old value or the new one.
NeverMissing ==
    [][\A i \in calm \cap calm' : job[i].at \in Threaded =>
         \A n \in Names : job[i].merged[n] # None /\ disk[n] # None => disk'[n] # None]_vars

\* A deployment's containers are told its commit (RPI_COMMIT_SHA), unless another
\* injector was under way beside it: cut off ones too, as long as they write.
Told == \A d \in Deploys \cap calm : job[d].at = "record" => running.sha = d
=============================================================================
