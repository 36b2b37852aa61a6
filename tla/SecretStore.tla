---------------------------- MODULE SecretStore ----------------------------
(***************************************************************************)
(* The encrypted bundles of the agent: EncryptedFileStore                  *)
(* (infrastructure/secrets.rs) with the requests that change them: pushes  *)
(* to a key or a group, merges, group and key removals                     *)
(* (application/secretgroups.rs, secrets.rs, remove.rs).                   *)
(*                                                                         *)
(* A save reads the revision, compares it and writes the file under one    *)
(* lock.  The lock is a guard of the handler's future, the file system     *)
(* call runs in a blocking thread: when the client disconnects, the lock   *)
(* is released and the call goes on.  The sender learns the revision it    *)
(* expects, and a merge the objects it adds to, before the lock is taken.  *)
(* A key may have a bundle of the oldest format (legacy) beside or instead *)
(* of its file; it counts as revision 0, like no bundle.                   *)
(*                                                                         *)
(* Encryption is left out: a file holds a revision and a set of objects.   *)
(* Every request adds one object, named by the request.                    *)
(***************************************************************************)
EXTENDS Integers, FiniteSets

CONSTANTS Groups,     \* secret groups of one base project
          Keys,       \* deploy keys with a bundle of their own
          Clients,    \* requests, each made once
          Old,        \* the object of the bundles there from the start
          Missing,    \* no file
          Unguarded,  \* the sender expects no particular revision
          Free,       \* nobody holds the lock
          Budgets     \* bounds on the kinds of trouble, any one of them

Refs    == Groups \cup Keys
Objects == Clients \cup {Old}
Kinds   == {"drop", "disk", "crash"}

ASSUME StoreAssumption ==
    /\ Groups # {} /\ Groups \cap Keys = {}
    /\ Old \notin Clients
    /\ Free \notin Clients
    /\ Unguarded \notin Nat
    /\ Missing \notin [rev : Nat, objects : SUBSET Objects]
    /\ Budgets \subseteq [Kinds -> Nat]

VARIABLES
    file,    \* the file of each bundle: revision and objects, or Missing
    legacy,  \* keys with a bundle in the old format
    lock,    \* save_lock: the request that holds it
    at,      \* where each request stands
    ref,     \* the bundle it saves to
    guard,   \* expected_revision
    target,  \* the bundles it removes
    merge,   \* requests that merge
    load,    \* the objects it is going to write
    next,    \* the revision it is going to write
    gone,    \* requests dropped while a file system call was in flight
    answer,  \* what it was answered
    age,     \* removals from each bundle so far (only observed)
    seen,    \* the bundle when the sender looked (only observed)
    spent    \* troubles of each kind so far

askVars == <<ref, guard, target, merge, seen>>
vars    == <<file, legacy, lock, at, askVars, load, next, gone, answer, age, spent>>

\* "merging": loads the objects to merge with; "ready": waits for the lock;
\* "check": reads the revision; "write"/"sweep": the file, the old format;
\* "unlegacy"/"unlink": removes the old format, the file.
Holding == {"check", "write", "sweep", "unlegacy", "unlink"}
Stages  == {"idle", "merging", "ready", "done"} \cup Holding
Answers == {"none", "saved", "removed", "conflict", "refused", "failed", "lost"}

TypeOK ==
    /\ file \in [Refs -> [rev : Nat, objects : SUBSET Objects] \cup {Missing}]
    /\ legacy \in SUBSET Keys
    /\ lock \in Clients \cup {Free}
    /\ at \in [Clients -> Stages]
    /\ ref \in [Clients -> Refs]
    /\ guard \in [Clients -> Nat \cup {Unguarded}]
    /\ target \in [Clients -> SUBSET Refs]
    /\ merge \in SUBSET Clients
    /\ load \in [Clients -> SUBSET Objects]
    /\ next \in [Clients -> Nat]
    /\ gone \in SUBSET Clients
    /\ answer \in [Clients -> Answers]
    /\ age \in [Refs -> Nat]
    /\ seen \in [Clients -> [age : Nat, rev : Nat, objects : SUBSET Objects]]
    /\ spent \in [Kinds -> Nat]

\* Bundles of this version of the agent, of one without revisions, of one
\* without bundles.
Init ==
    /\ \E stored \in SUBSET Refs : \E unnumbered \in SUBSET Keys :
          file = [r \in Refs |->
                    IF r \in stored
                    THEN [rev |-> IF r \in unnumbered THEN 0 ELSE 1, objects |-> {Old}]
                    ELSE Missing]
    /\ legacy \in SUBSET Keys
    /\ lock = Free
    /\ at = [c \in Clients |-> "idle"]
    /\ ref = [c \in Clients |-> CHOOSE r \in Refs : TRUE]
    /\ guard = [c \in Clients |-> Unguarded]
    /\ target = [c \in Clients |-> {}]
    /\ merge = {}
    /\ load = [c \in Clients |-> {}]
    /\ next = [c \in Clients |-> 0]
    /\ gone = {}
    /\ answer = [c \in Clients |-> "none"]
    /\ age = [r \in Refs |-> 0]
    /\ seen = [c \in Clients |-> [age |-> 0, rev |-> 0, objects |-> {}]]
    /\ spent = [kind \in Kinds |-> 0]

Spend(kind) ==
    /\ spent' = [spent EXCEPT ![kind] = @ + 1]
    /\ {b \in Budgets : \A k \in Kinds : spent'[k] <= b[k]} # {}

\* What a load returns (load, head).
Rev(r) == IF file[r] = Missing THEN 0 ELSE file[r].rev

Content(r) == IF file[r] # Missing THEN file[r].objects
              ELSE IF r \in legacy THEN {Old} ELSE {}

Release(c) == lock' = IF lock = c THEN Free ELSE lock

\* The request is over; a dropped one has been given no answer.
Return(c, what) ==
    /\ at' = [at EXCEPT ![c] = "done"]
    /\ answer' = [answer EXCEPT ![c] = IF c \in gone THEN "lost" ELSE what]
    /\ load' = [load EXCEPT ![c] = {}]
    /\ next' = [next EXCEPT ![c] = 0]
    /\ gone' = gone \ {c}
    /\ Release(c)

MoveTo(c, stage) ==
    /\ at' = [at EXCEPT ![c] = stage]
    /\ UNCHANGED <<lock, load, next, gone, answer>>

----------------------------------------------------------------------------
(* The requests. *)

\* Where a request for bundle r may expect it to be: where it is (head), no
\* matter where (--force), or nowhere, the CLI's reading of a failed head of a
\* group.
Expectations(r) == {Unguarded, Rev(r)} \cup (IF r \in Groups THEN {0} ELSE {})

\* rpi secrets push: looks the revision up, then sends the objects.
Ask(c) ==
    /\ at[c] = "idle"
    /\ \E r \in Refs : \E e \in Expectations(r) :
          /\ ref' = [ref EXCEPT ![c] = r]
          /\ guard' = [guard EXCEPT ![c] = e]
          /\ seen' = [seen EXCEPT ![c] =
                        [age |-> age[r], rev |-> Rev(r), objects |-> Content(r)]]
          /\ \/ at' = [at EXCEPT ![c] = "ready"] /\ UNCHANGED merge
             \/ /\ r \in Groups
                /\ at' = [at EXCEPT ![c] = "merging"]
                /\ merge' = merge \cup {c}
    /\ load' = [load EXCEPT ![c] = {c}]
    /\ UNCHANGED <<file, legacy, lock, target, next, gone, answer, age, spent>>

\* PushSecretGroup with merge: the objects there, loaded without the lock.
\* The result may be too large, or the load fail.
Merge(c) ==
    /\ at[c] = "merging"
    /\ \/ /\ load' = [load EXCEPT ![c] = Content(ref[c]) \cup {c}]
          /\ at' = [at EXCEPT ![c] = "ready"]
          /\ UNCHANGED <<lock, next, gone, answer>>
       \/ Return(c, "failed")
    /\ UNCHANGED <<file, legacy, askVars, age, spent>>

\* A group is removed if it is there, a key's bundle and all groups of a base
\* (RemoveProject) in any case.
Removals == {{k} : k \in Keys} \cup {Groups} \cup {{g} : g \in {h \in Groups : Rev(h) # 0}}

AskRemove(c) ==
    /\ at[c] = "idle"
    /\ \E S \in Removals : target' = [target EXCEPT ![c] = S]
    /\ MoveTo(c, "ready")
    /\ UNCHANGED <<file, legacy, ref, guard, merge, seen, age, spent>>

\* RemoveSecretGroup: no such group, or a project declares it.
Refuse(c) ==
    /\ at[c] = "idle"
    /\ \/ (\E g \in Groups : Rev(g) = 0) /\ Return(c, "failed")
       \/ (\E g \in Groups : Rev(g) # 0) /\ Return(c, "refused")
    /\ UNCHANGED <<file, legacy, askVars, age, spent>>

----------------------------------------------------------------------------
(* The store. *)

FirstStageAlike(c) == IF target[c] = {} THEN "check" ELSE "unlink"

FirstStage(c) == CASE target[c] = {}             -> "check"
                   [] target[c] \cap Keys # {}   -> "unlegacy"
                   [] OTHER                      -> "unlink"

LockShared(c) ==
    /\ at[c] = "ready"
    /\ lock' = c
    /\ at' = [at EXCEPT ![c] = FirstStage(c)]
    /\ UNCHANGED <<file, legacy, askVars, load, next, gone, answer, age, spent>>

Lock(c) ==
    /\ at[c] = "ready" /\ lock = Free
    /\ lock' = c
    /\ at' = [at EXCEPT ![c] = FirstStage(c)]
    /\ UNCHANGED <<file, legacy, askVars, load, next, gone, answer, age, spent>>

\* A merge keeps what is there, so it needs no guard.
ExpectedUnlessMerge(c) == c \in merge \/ guard[c] \in {Unguarded, Rev(ref[c])}

Expected(c) == guard[c] \in {Unguarded, Rev(ref[c])}

Check(c) ==
    /\ at[c] = "check"
    /\ \/ /\ Expected(c)
          /\ next' = [next EXCEPT ![c] = Rev(ref[c]) + 1]
          /\ at' = [at EXCEPT ![c] = "write"]
          /\ UNCHANGED <<lock, load, gone, answer, spent>>
       \/ ~Expected(c) /\ Return(c, "conflict") /\ UNCHANGED spent
       \/ Spend("disk") /\ Return(c, "failed")
    /\ UNCHANGED <<file, legacy, askVars, age>>

\* write_private_atomic: a temporary file renamed over the old one.  A
\* blocking call: it happens even if its request was dropped.
Write(c) ==
    /\ at[c] = "write"
    /\ \/ /\ file' = [file EXCEPT ![ref[c]] = [rev |-> next[c], objects |-> load[c]]]
          /\ IF ref[c] \in Keys THEN MoveTo(c, "sweep") ELSE Return(c, "saved")
          /\ UNCHANGED spent
       \/ Spend("disk") /\ Return(c, "failed") /\ UNCHANGED file
    /\ UNCHANGED <<legacy, askVars, age>>

\* The old format goes; if it does not, the save fails although it is there.
Sweep(c) ==
    /\ at[c] = "sweep"
    /\ \/ legacy' = legacy \ {ref[c]} /\ Return(c, "saved") /\ UNCHANGED spent
       \/ Spend("disk") /\ Return(c, "failed") /\ UNCHANGED legacy
    /\ UNCHANGED <<file, askVars, age>>

\* remove: the old format first.  A dropped request gets no further.
Unlegacy(c) ==
    /\ at[c] = "unlegacy"
    /\ \/ /\ legacy' = legacy \ target[c]
          /\ age' = [r \in Refs |-> IF r \in target[c] \cap legacy THEN age[r] + 1
                                   ELSE age[r]]
          /\ IF c \in gone THEN Return(c, "lost") ELSE MoveTo(c, "unlink")
          /\ UNCHANGED spent
       \/ Spend("disk") /\ Return(c, "failed") /\ UNCHANGED <<legacy, age>>
    /\ UNCHANGED <<file, askVars>>

\* One file of those to remove (remove, remove_base).
Unlink(c) ==
    /\ at[c] = "unlink"
    /\ \/ \E r \in target[c] :
             /\ file[r] # Missing
             /\ file' = [file EXCEPT ![r] = Missing]
             /\ age' = [age EXCEPT ![r] = @ + 1]
             /\ UNCHANGED <<at, lock, load, next, gone, answer, spent>>
       \/ Spend("disk") /\ Return(c, "failed") /\ UNCHANGED <<file, age>>
    /\ UNCHANGED <<legacy, askVars>>

Finish(c) ==
    /\ at[c] = "unlink"
    /\ \A r \in target[c] : file[r] = Missing
    /\ Return(c, "removed")
    /\ UNCHANGED <<file, legacy, askVars, age, spent>>

----------------------------------------------------------------------------
(* Troubles. *)

\* The client disconnects: its handler's future is dropped, with the lock.
\* A file system call in flight goes on.
Drop(c) ==
    /\ at[c] \notin {"idle", "done"} /\ c \notin gone
    /\ Spend("drop")
    /\ \/ at[c] \in {"merging", "ready", "check", "unlink"} /\ Return(c, "lost")
       \/ /\ at[c] \in {"write", "sweep", "unlegacy", "unlink"}
          /\ gone' = gone \cup {c}
          /\ Release(c)
          /\ UNCHANGED <<at, load, next, answer>>
    /\ UNCHANGED <<file, legacy, askVars, age>>

UnderWay == {c \in Clients : at[c] \notin {"idle", "done"}}

\* The agent dies and starts again.
Crash ==
    /\ Spend("crash")
    /\ at' = [c \in Clients |-> IF c \in UnderWay THEN "done" ELSE at[c]]
    /\ answer' = [c \in Clients |-> IF c \in UnderWay THEN "lost" ELSE answer[c]]
    /\ load' = [c \in Clients |-> {}]
    /\ next' = [c \in Clients |-> 0]
    /\ gone' = {}
    /\ lock' = Free
    /\ UNCHANGED <<file, legacy, askVars, age>>

Next ==
    \/ \E c \in Clients :
          \/ Ask(c) \/ Merge(c) \/ AskRemove(c) \/ Refuse(c)
          \/ Lock(c) \/ Check(c) \/ Write(c) \/ Sweep(c)
          \/ Unlegacy(c) \/ Unlink(c) \/ Finish(c) \/ Drop(c)
    \/ Crash

Spec == Init /\ [][Next]_vars

----------------------------------------------------------------------------
(* Properties. *)

Undropped == spent["drop"] = 0

\* No update is lost: a guarded push takes the place of exactly the bundle its
\* sender looked at, and a merge keeps all of it, whatever other requests did
\* between the look, the load, the comparison and the write.  Two exceptions
\* are the code's: revisions start again after a removal, so that a bundle
\* removed and made anew passes for the one seen; and a request dropped while
\* it writes no longer holds the lock.
NoLostUpdate ==
    [][\A c \in Clients :
         /\ Undropped'
         /\ at[c] = "write" /\ file' # file
         /\ guard[c] # Unguarded
         /\ age[ref[c]] = seen[c].age
         => /\ Content(ref[c]) = seen[c].objects
            /\ c \in merge => file'[ref[c]].objects = seen[c].objects \cup {c}]_vars

\* Taking a key's bundle away never brings its old format back to life:
\* secrets someone removed, after a leak say, are not what the next
\* deployment loads, wherever the removal is dropped, fails or crashes.
NeverFallsBack ==
    [][\A k \in Keys : file[k] # Missing /\ file'[k] = Missing => k \notin legacy']_vars

\* The store answers as GuardedStore says, over failing disks, failing loads
\* and crashes, until a client disconnects.
Store == INSTANCE GuardedStore WITH bundle <- file

ImplementsStore == Store!Init /\ [][Undropped' => Store!Next]_(Store!vars)
=============================================================================
