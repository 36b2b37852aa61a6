----------------------------- MODULE GitSource -----------------------------
(***************************************************************************)
(* The work tree of a key (infrastructure/git.rs): cloned by the first     *)
(* deployment, then fetched and reset.  A git command that is killed (the  *)
(* stage timed out, the deployment was canceled, the agent ended) leaves   *)
(* what it had done: a .git directory is all that tells a clone from none, *)
(* and a reset leaves its index.lock.  The origin of a clone never changes.*)
(*                                                                         *)
(* A commit is its repository and its number on the branch: one branch per *)
(* repository, to which is only added.  Deploy keys are left out.          *)
(***************************************************************************)
EXTENDS Integers

CONSTANTS Keys,     \* deploy keys
          Repos,    \* repositories
          Unset     \* nothing there, or neither one thing nor the other

ASSUME SourceAssumption == Unset \notin Repos

VARIABLES tip,   \* of each repository: the newest commit of the branch
          clone  \* of each key: its work tree

source == <<tip, clone>>

Commit == (Repos \X Nat) \cup {Unset}

\* There is a .git, the origin in its config, what origin/branch is, whether
\* the index is locked, what is checked out.
Clone == [git : BOOLEAN, origin : Repos \cup {Unset}, refs : Commit, lock : BOOLEAN, tree : Commit]

NoClone == [git |-> FALSE, origin |-> Unset, refs |-> Unset, lock |-> FALSE, tree |-> Unset]

SourceTypeOK == tip \in [Repos -> Nat] /\ clone \in [Keys -> Clone]

SourceInit == tip = [r \in Repos |-> 1] /\ clone = [k \in Keys |-> NoClone]

Tip(r) == <<r, tip[r]>>

\* Somebody pushes to the branch.
Push(r) == tip' = [tip EXCEPT ![r] = @ + 1] /\ UNCHANGED clone

\* git clone.
CloneOf(k, r) == clone' = [clone EXCEPT ![k] = [git |-> TRUE, origin |-> r, refs |-> Tip(r),
                                                lock |-> FALSE, tree |-> Tip(r)]]

\* git fetch origin --prune.
CanPull(k) == clone[k].origin # Unset
Pull(k) == CanPull(k) /\ clone' = [clone EXCEPT ![k].refs = Tip(clone[k].origin)]

\* The clone has a commit of its repository once it fetched that or a later one.
Has(k, c) == LET newest == clone[k].refs IN
             newest # Unset /\ c # Unset /\ c[1] = newest[1] /\ c[2] <= newest[2]

\* git reset --hard: of a commit that is there, with an index that is not locked.
CanReset(k, c) == ~clone[k].lock /\ Has(k, c)
Reset(k, c) == CanReset(k, c) /\ clone' = [clone EXCEPT ![k].tree = c]

\* What a command that is killed can leave of the work tree.
CloneLeft(k, r) == {NoClone, [NoClone EXCEPT !.git = TRUE],
                    [NoClone EXCEPT !.git = TRUE, !.origin = r]}

ResetLeft(k, c) == {clone[k]} \cup
                   IF CanReset(k, c) THEN {[clone[k] EXCEPT !.lock = TRUE, !.tree = Unset]} ELSE {}
=============================================================================
