---------------------------- MODULE GuardedStore ----------------------------
(***************************************************************************)
(* What the secret store promises its callers (README.md, line 451, and    *)
(* the comments of EncryptedFileStore): bundles with a revision, where a   *)
(* write takes effect at one instant and only if the bundle is at the      *)
(* revision its sender expects, a refusal is justified at the instant it   *)
(* is given, and what was answered is what happened.                       *)
(***************************************************************************)
EXTENDS Naturals

CONSTANTS Refs,       \* bundles: secret groups and deploy keys
          Clients,    \* requests, each with an object of its own to store
          Objects,    \* objects a bundle can hold
          Missing,    \* no bundle
          Unguarded,  \* the sender expects no particular revision
          Answers     \* "none" until the request is answered

VARIABLES bundle,  \* revision and objects of each bundle, or Missing
          ref,     \* the bundle each request is about
          guard,   \* the revision its sender expects
          target,  \* the bundles it removes
          answer   \* what it was answered

vars == <<bundle, ref, guard, target, answer>>

Rev(r) == IF bundle[r] = Missing THEN 0 ELSE bundle[r].rev

Expected(c) == guard[c] \in {Unguarded, Rev(ref[c])}

Init == answer = [c \in Clients |-> "none"]

Ask(c) == /\ answer[c] = "none"
          /\ UNCHANGED <<bundle, answer>>
          /\ \A d \in Clients \ {c} : /\ ref'[d] = ref[d]
                                      /\ guard'[d] = guard[d]
                                      /\ target'[d] = target[d]

Reply(c, what) == answer' = [answer EXCEPT ![c] = what]

\* The write, answered at once or later.
Put(c) ==
    /\ Expected(c)
    /\ \E o \in SUBSET Objects :
          /\ c \in o
          /\ bundle' = [bundle EXCEPT ![ref[c]] = [rev |-> Rev(ref[c]) + 1, objects |-> o]]
    /\ UNCHANGED answer \/ Reply(c, "saved")

Confirm(c) == /\ bundle[ref[c]] # Missing /\ c \in bundle[ref[c]].objects
              /\ Reply(c, "saved")
              /\ UNCHANGED bundle

Deny(c) == ~Expected(c) /\ Reply(c, "conflict") /\ UNCHANGED bundle

\* A removal takes its bundles one by one and answers when all are gone.
Delete(c) ==
    /\ \E r \in target[c] : bundle' = [bundle EXCEPT ![r] = Missing]
    /\ \/ UNCHANGED answer
       \/ Reply(c, "removed") /\ \A r \in target[c] : bundle'[r] = Missing

Removed(c) == /\ \A r \in target[c] : bundle[r] = Missing
              /\ Reply(c, "removed")
              /\ UNCHANGED bundle

GiveUp(c) == /\ \E what \in Answers \ {"none", "saved", "removed", "conflict"} : Reply(c, what)
             /\ UNCHANGED bundle

\* The agent dies: the requests under way are lost.
Stop == /\ \E S \in SUBSET {c \in Clients : answer[c] = "none"} :
              answer' = [c \in Clients |-> IF c \in S THEN "lost" ELSE answer[c]]
        /\ UNCHANGED <<bundle, ref, guard, target>>

Next == \/ \E c \in Clients :
              \/ Ask(c)
              \/ /\ Put(c) \/ Confirm(c) \/ Deny(c) \/ Delete(c) \/ Removed(c) \/ GiveUp(c)
                 /\ UNCHANGED <<ref, guard, target>>
        \/ Stop
=============================================================================
