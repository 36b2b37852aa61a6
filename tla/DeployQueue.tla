---------------------------- MODULE DeployQueue ----------------------------
(***************************************************************************)
(* What the deploy queue promises (docs/architecture/flows/deploy.md,      *)
(* steps 3, 14, 15 and 16), with nothing of how it is done: per key one    *)
(* active deployment and one waiting place, the newest arrival takes the   *)
(* waiting place, the waiting one is promoted the moment the active one    *)
(* ends, and nothing that has left the queue ever comes back.              *)
(***************************************************************************)
CONSTANTS Deploys,    \* deployments
          Projects,   \* keys
          ProjectOf,  \* the key of each deployment
          None        \* no deployment

VARIABLES active,    \* the deployment that has the key, or None
          waiting,   \* the one deployment behind it, or None
          outgoing,  \* replaced by a newer one and yet to be told so
          over,      \* deployments that have left for good
          serving    \* the process that keeps the queue is there

vars == <<active, waiting, outgoing, over, serving>>

TypeOK == /\ active \in [Projects -> Deploys \cup {None}]
          /\ waiting \in [Projects -> Deploys \cup {None}]
          /\ outgoing \in SUBSET Deploys
          /\ over \in SUBSET Deploys
          /\ serving \in BOOLEAN

Init == /\ active = [p \in Projects |-> None]
        /\ waiting = [p \in Projects |-> None]
        /\ outgoing = {}
        /\ over = {}
        /\ serving = TRUE

Fresh(d) == /\ serving
            /\ d \notin over
            /\ active[ProjectOf[d]] # d
            /\ waiting[ProjectOf[d]] # d

\* An idle key starts the arrival at once.
Start(d) == /\ Fresh(d)
            /\ active[ProjectOf[d]] = None
            /\ active' = [active EXCEPT ![ProjectOf[d]] = d]
            /\ UNCHANGED <<waiting, outgoing, over, serving>>

\* A busy key lets the arrival wait; whoever waited before is superseded.
Line(d) == LET out == {waiting[ProjectOf[d]]} \ {None}
           IN  /\ Fresh(d)
               /\ active[ProjectOf[d]] # None
               /\ waiting' = [waiting EXCEPT ![ProjectOf[d]] = d]
               /\ outgoing' = outgoing \cup out
               /\ over' = over \cup out
               /\ UNCHANGED <<active, serving>>

\* A superseded deployment is told, or its replacement's sender has left.
Dismiss(d) == /\ d \in outgoing
              /\ outgoing' = outgoing \ {d}
              /\ UNCHANGED <<active, waiting, over, serving>>

\* A request that is refused, or whose sender leaves, before it arrives.
TurnAway(d) == /\ Fresh(d)
               /\ over' = over \cup {d}
               /\ UNCHANGED <<active, waiting, outgoing, serving>>

\* Canceling a waiting deployment.
Withdraw(d) == /\ waiting[ProjectOf[d]] = d
               /\ waiting' = [waiting EXCEPT ![ProjectOf[d]] = None]
               /\ over' = over \cup {d}
               /\ UNCHANGED <<active, outgoing, serving>>

\* The active deployment ends and its successor, if any, has the key.
Finish(d) == LET p == ProjectOf[d]
             IN  /\ active[p] = d
                 /\ active' = [active EXCEPT ![p] = waiting[p]]
                 /\ waiting' = [waiting EXCEPT ![p] = None]
                 /\ over' = over \cup {d}
                 /\ UNCHANGED <<outgoing, serving>>

\* The process ends: nothing active or waiting is resumed, and requests on
\* their way are lost with it.
Stop(lost) ==
    /\ serving
    /\ serving' = FALSE
    /\ \A p \in Projects : {active[p], waiting[p]} \ {None} \subseteq lost
    /\ active' = [p \in Projects |-> None]
    /\ waiting' = [p \in Projects |-> None]
    /\ outgoing' = {}
    /\ over' = over \cup lost

Return == /\ ~serving
          /\ serving' = TRUE
          /\ UNCHANGED <<active, waiting, outgoing, over>>

Next == \/ \E d \in Deploys : \/ Start(d) \/ Line(d) \/ Dismiss(d)
                              \/ TurnAway(d) \/ Withdraw(d) \/ Finish(d)
        \/ \E lost \in SUBSET Deploys : Stop(lost)
        \/ Return

Spec == Init /\ [][Next]_vars

\* Whoever has the key gives it up in the end.
FairSpec == Spec /\ \A d \in Deploys : WF_vars(Finish(d))
=============================================================================
