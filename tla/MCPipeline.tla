---------------------------- MODULE MCPipeline ----------------------------
(* Instances of Pipeline for TLC. *)
EXTENDS Pipeline

CONSTANTS k1, k2, d1, d2, d3, r1

\* Two deployments of one key, one of another, one repository for all: of the
\* branch, of a commit that is not there before a push, of one that is older
\* than the branch after it.
TheKey  == [d \in Deploys |-> IF d = d3 THEN k2 ELSE k1]
TheRepo == [d \in Deploys |-> r1]
TheAsk  == [d \in Deploys |-> IF d = d1 THEN Unset ELSE IF d = d2 THEN <<r1, 2>> ELSE <<r1, 1>>]

TheResults == {"success", "failed", "canceled"}

Zero == [kind \in Kinds |-> 0]

Deploying(n) == [Zero EXCEPT !["deploy"] = n]

Followed == [Deploying(1) EXCEPT !["follow"] = 1]

\* What meets in the semaphore, what comes after a run that was cut, and what a
\* viewer sees of one.
Troubles == {[Deploying(3) EXCEPT !["hang"] = 1],
             [Deploying(3) EXCEPT !["cancel"] = 1],
             [Deploying(2) EXCEPT !["panic"] = 1],
             [Deploying(2) EXCEPT !["hang"] = 2],
             [Deploying(2) EXCEPT !["hang"] = 1, !["cancel"] = 1],
             [Deploying(2) EXCEPT !["cancel"] = 2],
             [Deploying(2) EXCEPT !["error"] = 1, !["push"] = 1],
             [Deploying(2) EXCEPT !["hang"] = 1, !["push"] = 1],
             [Deploying(2) EXCEPT !["crash"] = 1, !["push"] = 1],
             [Deploying(1) EXCEPT !["line"] = 1],
             [Followed EXCEPT !["hang"] = 1],
             [Followed EXCEPT !["cancel"] = 1],
             [Followed EXCEPT !["error"] = 1],
             [Followed EXCEPT !["crash"] = 1]}
=============================================================================
