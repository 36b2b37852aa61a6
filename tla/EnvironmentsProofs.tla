------------------------- MODULE EnvironmentsProofs -------------------------
(***************************************************************************)
(* Proofs about Environments, for any keys, ports, operators and budget.   *)
(*                                                                         *)
(* TypeCorrect needs no condition.  That nothing is orphaned and that a    *)
(* hostname leads home hold when no deployment is submitted past a         *)
(* worker's first look at the history (Apart).  Neither is inductive: a    *)
(* removal deletes the row last, so the invariant says of each of its      *)
(* steps what is already gone (Cleared) and that no deployment is there to *)
(* bring it back (Exclusion); a deployment starts containers on the port   *)
(* upsert returned long before, so the invariant says that it is still the *)
(* row's (Backed); `compose down` is skipped without a compose file, so it *)
(* says that containers have their tree (Traced).                          *)
(***************************************************************************)
EXTENDS Environments, WellFoundedInduction, TLAPS

\* A set of ports that is not empty has a least one.
LEMMA MinIsLeast ==
    ASSUME NEW S \in SUBSET Nat, S # {}
    PROVE  Min(S) \in S /\ \A x \in S : Min(S) <= x
<1> DEFINE Less == {ss \in Nat \X Nat : ss[1] < ss[2]}
<1>1. OpToRel(<, Nat) = Less
  BY DEF OpToRel
<1>2. IsWellFoundedOn(Less, Nat)
  BY <1>1, NatLessThanWellFounded
<1>3. PICK x \in S : \A y \in S : <<y, x>> \notin Less
  <2> HIDE DEF Less
  <2> QED  BY <1>2, WFMin
<1>4. ASSUME NEW y \in S
      PROVE  x =< y
  <2>1. x \in Nat /\ y \in Nat
    OBVIOUS
  <2>2. y < x => <<y, x>> \in Less
    BY <2>1
  <2> QED  BY <1>3, <2>1, <2>2
<1> QED  BY <1>4 DEF Min

-----------------------------------------------------------------------------
(* Types.                                                                  *)

\* A configuration's compose path and hostname.
LEMMA ConfigParts ==
    ASSUME NEW c \in Config
    PROVE  c.file \in Files /\ c.host \in Hosts \cup {None}
BY DEF Config

\* Spending the budget leaves natural numbers.
LEMMA SpendType ==
    ASSUME budget \in [Kinds -> Nat], NEW kinds, Spend(kinds)
    PROVE  budget' \in [Kinds -> Nat]
<1>1. \A kind \in Kinds : budget[kind] - (IF kind \in kinds THEN 1 ELSE 0) \in Nat
  BY DEF Spend
<1> QED  BY <1>1 DEF Spend

\* The end of a deployment, wherever it comes.
LEMMA EndType ==
    ASSUME TypeOK, NEW k \in Keys, End(k)
    PROVE  dep' \in [Keys -> Deploy \cup {None}] /\ active' \in SUBSET Keys
BY DEF End, TypeOK

\* A stage that goes on, or ends the deployment.
LEMMA GoOnType ==
    ASSUME TypeOK, NEW k \in Keys, dep[k] # None, NEW stage \in Stages, GoOn(k, stage)
    PROVE  /\ dep' \in [Keys -> Deploy \cup {None}]
           /\ active' \in SUBSET Keys
           /\ budget' \in [Kinds -> Nat]
<1>1. CASE End(k) /\ Spend({"failure"})
  BY <1>1, EndType, SpendType DEF TypeOK
<1>2. CASE dep' = [dep EXCEPT ![k].at = stage] /\ UNCHANGED <<active, budget>>
  <2>1. [dep[k] EXCEPT !.at = stage] \in Deploy
    BY DEF TypeOK, Deploy
  <2> QED  BY <1>2, <2>1 DEF TypeOK
<1> QED  BY <1>1, <1>2 DEF GoOn

\* The end of a worker's sequence.
LEMMA LeaveType ==
    ASSUME TypeOK, NEW w \in Workers, Leave(w)
    PROVE  job' \in [Workers -> Job \cup {None}]
BY DEF Leave, TypeOK

\* A worker's next step.
LEMMA JobMove ==
    ASSUME TypeOK, NEW w \in Workers, job[w] # None, NEW step \in Steps,
           job' = [job EXCEPT ![w].at = step]
    PROVE  job' \in [Workers -> Job \cup {None}]
<1>1. [job[w] EXCEPT !.at = step] \in Job
  BY DEF TypeOK, Job
<1> QED  BY <1>1 DEF TypeOK

\* A worker's step that goes on, or ends the sequence.
LEMMA ThenType ==
    ASSUME TypeOK, NEW w \in Workers, job[w] # None, NEW step \in Steps, Then(w, step)
    PROVE  job' \in [Workers -> Job \cup {None}] /\ budget' \in [Kinds -> Nat]
<1>1. CASE job' = [job EXCEPT ![w].at = step] /\ UNCHANGED budget
  BY <1>1, JobMove DEF TypeOK
<1>2. CASE Leave(w) /\ Spend({"broken"})
  BY <1>2, LeaveType, SpendType DEF TypeOK
<1> QED  BY <1>1, <1>2 DEF Then

\* The lowest free port is a port, and nobody's.
LEMMA FreeIsFree ==
    ASSUME FreePorts # {}
    PROVE  /\ Min(FreePorts) \in Ports
           /\ \A j \in Keys : Registered(j) => reg[j].port # Min(FreePorts)
<1>1. Min(FreePorts) \in FreePorts
  BY MinIsLeast, EnvironmentsAssumption DEF FreePorts
<1> QED  BY <1>1 DEF FreePorts

\* What a registered key has in its row.
LEMMA RowType ==
    ASSUME TypeOK, NEW k \in Keys, Registered(k)
    PROVE  reg[k] \in Row /\ reg[k].port \in Ports /\ reg[k].conf \in Config
BY DEF TypeOK, Registered, Row

\* upsert returns a row: the one there was, or one with a free port.
LEMMA UpsertType ==
    ASSUME TypeOK, NEW k \in Keys, NEW c \in Config, Registered(k) \/ FreePorts # {}
    PROVE  Upsert(k, c) \in Row
<1>1. CASE Registered(k)
  BY <1>1, RowType DEF Upsert, Row
<1>2. CASE ~Registered(k)
  BY <1>2, FreeIsFree DEF Upsert, Row
<1> QED  BY <1>1, <1>2

\* Setting on_create_done, of a row or of none.
LEMMA SetDoneType ==
    ASSUME TypeOK, NEW k \in Keys, NEW flag \in BOOLEAN, SetDone(k, flag)
    PROVE  reg' \in [Keys -> Row \cup {None}]
<1>1. Registered(k) => [reg[k] EXCEPT !.done = flag] \in Row
  BY RowType DEF Row
<1> QED  BY <1>1 DEF SetDone, TypeOK

\* The agent starts with nothing on the host.
LEMMA InitType == Init => TypeOK
BY EnvironmentsAssumption DEF Init, TypeOK, Volumes

\* Every step keeps the types.
LEMMA NextType == TypeOK /\ [Next]_vars => TypeOK'
<1> SUFFICES ASSUME TypeOK, [Next]_vars
             PROVE  TypeOK'
  OBVIOUS
<1> USE DEF hostVars, sweepVars
<1>1. ASSUME NEW k \in Keys, NEW c \in Asks[k], Submit(k, c)
      PROVE  TypeOK'
  <2>1. c \in Config
    BY EnvironmentsAssumption
  <2>2. [at |-> "register", ask |-> c, port |-> None, done |-> FALSE] \in Deploy
    BY <2>1 DEF Deploy, Stages
  <2> QED  BY <1>1, <2>2, SpendType DEF Submit, TypeOK
<1>2. ASSUME NEW k \in Keys, Abort(k)
      PROVE  TypeOK'
  BY <1>2, EndType, SpendType DEF Abort, TypeOK
<1>3. ASSUME NEW k \in Keys, Register(k)
      PROVE  TypeOK'
  <2>1. dep[k] # None /\ dep[k] \in Deploy /\ dep[k].ask \in Config
    BY <1>3 DEF Register, At, TypeOK, Deploy
  <2>2. CASE ~Registered(k) /\ FreePorts = {} /\ End(k) /\ UNCHANGED <<reg, budget>>
    BY <1>3, <2>2, EndType DEF Register, TypeOK
  <2>3. CASE /\ Registered(k) \/ FreePorts # {}
             /\ reg' = [reg EXCEPT ![k] = Upsert(k, dep[k].ask)]
             /\ \/ /\ dep' = [dep EXCEPT ![k] = [at |-> "fetch", ask |-> @.ask,
                                port |-> reg'[k].port, done |-> reg'[k].done]]
                   /\ UNCHANGED <<active, budget>>
                \/ End(k) /\ Spend({"failure"})
    <3>1. reg'[k] \in Row /\ reg' \in [Keys -> Row \cup {None}]
      BY <2>1, <2>3, UpsertType DEF TypeOK
    <3>2. [at |-> "fetch", ask |-> dep[k].ask, port |-> reg'[k].port,
           done |-> reg'[k].done] \in Deploy
      BY <2>1, <3>1 DEF Deploy, Stages, Row
    <3> QED  BY <1>3, <2>3, <3>1, <3>2, EndType, SpendType DEF Register, TypeOK
  <2> QED  BY <1>3, <2>2, <2>3 DEF Register
<1>4. ASSUME NEW k \in Keys, Fetch(k)
      PROVE  TypeOK'
  <2>1. dep[k] # None /\ dep[k].ask.file \in Files
    BY <1>4, ConfigParts DEF Fetch, At, TypeOK, Deploy
  <2>2. GoOn(k, "override") /\ "override" \in Stages
    BY <1>4 DEF Fetch, Stages
  <2> QED  BY <1>4, <2>1, <2>2, GoOnType DEF Fetch, TypeOK
<1>5. ASSUME NEW k \in Keys, WriteOverride(k)
      PROVE  TypeOK'
  <2>1. dep[k] # None /\ dep[k].port \in Ports \cup {None}
    BY <1>5 DEF WriteOverride, At, TypeOK, Deploy
  <2>2. "up" \in Stages
    BY DEF Stages
  <2> QED  BY <1>5, <2>1, <2>2, GoOnType, EndType DEF WriteOverride, TypeOK
<1>6. ASSUME NEW k \in Keys, Up(k)
      PROVE  TypeOK'
  <2>1. dep[k] # None /\ "route" \in Stages
    BY <1>6 DEF Up, At, Stages
  <2> QED  BY <1>6, <2>1, GoOnType, EndType DEF Up, TypeOK, Volumes
<1>7. ASSUME NEW k \in Keys, Route(k)
      PROVE  TypeOK'
  <2>1. dep[k] # None /\ dep[k].port \in Ports \cup {None} /\ "seed" \in Stages
    BY <1>7 DEF Route, At, TypeOK, Deploy, Stages
  <2>2. GoOn(k, "seed")
    BY <1>7 DEF Route
  <2> QED  BY <1>7, <2>1, <2>2, GoOnType DEF Route, TypeOK
<1>8. ASSUME NEW k \in Keys, Seed(k)
      PROVE  TypeOK'
  <2>1. dep[k] # None /\ "stamp" \in Stages /\ "flag" \in Stages
    BY <1>8 DEF Seed, At, Stages
  <2> QED  BY <1>8, <2>1, GoOnType, EndType DEF Seed, TypeOK, Volumes
<1>9. ASSUME NEW k \in Keys, Flag(k)
      PROVE  TypeOK'
  <2>1. dep[k] # None /\ "stamp" \in Stages /\ GoOn(k, "stamp") /\ SetDone(k, TRUE)
    BY <1>9 DEF Flag, At, Stages
  <2> QED  BY <1>9, <2>1, GoOnType, SetDoneType DEF Flag, TypeOK
<1>10. ASSUME NEW k \in Keys, Stamp(k)
       PROVE  TypeOK'
  <2>1. [dep[k] EXCEPT !.at = "record"] \in Deploy
    BY <1>10 DEF Stamp, At, TypeOK, Deploy, Stages
  <2>2. Registered(k) => [reg[k] EXCEPT !.stale = FALSE] \in Row
    BY RowType DEF Row
  <2> QED  BY <1>10, <2>1, <2>2, SpendType DEF Stamp, TypeOK
<1>11. ASSUME NEW k \in Keys, Record(k)
       PROVE  TypeOK'
  BY <1>11, EndType DEF Record, TypeOK
<1>12. ASSUME NEW k \in Keys, Age(k)
       PROVE  TypeOK'
  <2>1. [reg[k] EXCEPT !.stale = TRUE] \in Row
    BY <1>12, RowType DEF Age, Row
  <2> QED  BY <1>12, <2>1, SpendType DEF Age, TypeOK
<1>13. ASSUME NEW w \in Operators, NEW k \in Keys, NEW p \in {"rm", "destroy", "reset"},
              Begin(w, k, p)
       PROVE  TypeOK'
  <2>1. [key |-> k, plan |-> p, at |-> "get", was |-> None] \in Job
    BY DEF Job, Steps
  <2> QED  BY <1>13, <2>1, SpendType DEF Begin, TypeOK, Workers
<1>14. ASSUME NEW w \in Workers, Break(w)
       PROVE  TypeOK'
  BY <1>14, LeaveType, SpendType DEF Break, TypeOK
<1>15. ASSUME NEW w \in Workers, WorkStep(w)
       PROVE  TypeOK'
  <2> DEFINE k == job[w].key
  <2>1. job[w] # None
    BY <1>15 DEF WorkStep, Get, Check, Down, Unroute, Cleanup, DropOverride,
                 DropRows, Unregister, Unflag, Doing
  <2>2. job[w] \in Job /\ k \in Keys
    BY <2>1 DEF TypeOK, Job
  <2>3. \A step \in Steps : Then(w, step) =>
            job' \in [Workers -> Job \cup {None}] /\ budget' \in [Kinds -> Nat]
    BY <2>1, ThenType
  <2>4. CASE Get(w)
    <3>1. Registered(k) => [job[w] EXCEPT !.at = "check", !.was = reg[k].conf] \in Job
      BY <2>2, RowType DEF Job, Steps
    <3> QED  BY <2>4, <3>1, LeaveType DEF Get, TypeOK
  <2>5. CASE Check(w)
    BY <2>1, <2>5, LeaveType, JobMove DEF Check, TypeOK, Steps
  <2>6. CASE Down(w)
    BY <2>3, <2>6 DEF Down, TypeOK, Steps, Volumes
  <2>7. CASE Unroute(w)
    BY <2>3, <2>7 DEF Unroute, TypeOK, Steps
  <2>8. CASE Cleanup(w)
    BY <2>3, <2>8 DEF Cleanup, TypeOK, Steps
  <2>9. CASE DropOverride(w)
    BY <2>3, <2>9 DEF DropOverride, TypeOK, Steps
  <2>10. CASE DropRows(w)
    BY <2>3, <2>10 DEF DropRows, TypeOK, Steps
  <2>11. CASE Unregister(w)
    BY <2>11, LeaveType DEF Unregister, TypeOK
  <2>12. CASE Unflag(w)
    BY <2>2, <2>12, LeaveType, SetDoneType DEF Unflag, TypeOK
  <2> QED  BY <1>15, <2>4, <2>5, <2>6, <2>7, <2>8, <2>9, <2>10, <2>11, <2>12 DEF WorkStep
<1>16. CASE ReaperStep
  <2>1. CASE Sweep
    BY <2>1 DEF Sweep, Expired, TypeOK
  <2>2. ASSUME NEW k \in Envs, Visit(k)
        PROVE  TypeOK'
    <3>1. [key |-> k, plan |-> "destroy", at |-> "look", was |-> None] \in Job
      BY EnvironmentsAssumption DEF Job, Steps
    <3> QED  BY <2>2, <3>1 DEF Visit, TypeOK
  <2>3. CASE Look
    <3>1. Reaper \in Workers /\ job[Reaper] # None /\ "get" \in Steps
      BY <2>3 DEF Look, Doing, Workers, Steps
    <3>2. Leave(Reaper) \/ job' = [job EXCEPT ![Reaper].at = "get"]
      BY <2>3 DEF Look
    <3> QED  BY <2>3, <3>1, <3>2, LeaveType, JobMove DEF Look, TypeOK
  <2> QED  BY <1>16, <2>1, <2>2, <2>3 DEF ReaperStep
<1>17. CASE Crash
  BY <1>17, SpendType DEF Crash, TypeOK
<1>18. CASE UNCHANGED vars
  BY <1>18 DEF vars, TypeOK
<1> QED
  BY <1>1, <1>2, <1>3, <1>4, <1>5, <1>6, <1>7, <1>8, <1>9, <1>10, <1>11, <1>12, <1>13,
     <1>14, <1>15, <1>16, <1>17, <1>18 DEF Next, DeployStep

\* Every variable keeps to the values the agent and the host can give it; the
\* host ports stay in the agent's range, however many keys ask for one.
THEOREM TypeCorrect == Spec => []TypeOK
BY InitType, NextType, PTL DEF Spec
-----------------------------------------------------------------------------
(* Removal and deployment of a key kept apart: nothing is orphaned.        *)

\* What the runs assume: no deployment is submitted past a worker's first look
\* at the history, and a key keeps its hostname and its compose path.
Apart == /\ Budget["overlap"] = 0
         /\ \A k \in Keys : \A c, d \in Asks[k] : c = d

\* Every configuration around is the key's own.
Asked ==
    /\ \A k \in Keys : Registered(k) => reg[k].conf \in Asks[k]
    /\ \A k \in Keys : dep[k] # None => dep[k].ask \in Asks[k]
    /\ \A k \in Keys : tree[k] # None => \E c \in Asks[k] : tree[k] = c.file
    /\ \A w \in Workers : job[w] # None /\ job[w].at \notin {"look", "get"}
                              => job[w].was \in Asks[job[w].key]

\* A deployment and a worker past its first look are never of one key, and the
\* history knows of every deployment.
Exclusion ==
    /\ budget["overlap"] = 0
    /\ \A k \in Keys : dep[k] # None => k \in active
    /\ \A w \in Workers : Committed(w) => dep[job[w].key] = None

Past(w, steps) == job[w] # None /\ job[w].at \in steps

\* What a removal has taken away stays away until the key is unregistered.
Cleared(w) ==
    /\ Past(w, {"unroute", "cleanup", "override", "rows", "unregister"})
          => stack[job[w].key] = None
    /\ Past(w, {"cleanup", "override", "rows", "unregister"})
          => \A h \in HostsOf(job[w].key) : route[h] = None
    /\ Past(w, {"override", "rows", "unregister"}) => tree[job[w].key] = None
    /\ Past(w, {"rows", "unregister"}) => override[job[w].key] = None

Emptied == \A w \in Workers : Cleared(w)

\* A deployment that is past upsert works for the row there is.
Backed ==
    \A k \in Keys : dep[k] # None /\ dep[k].at # "register" =>
        Registered(k) /\ dep[k].port = reg[k].port

\* Whatever a key has on the host, its row knows of it; containers are only
\* there with the tree `compose down` needs.
Traced ==
    \A k \in Keys :
        /\ tree[k] # None => Registered(k)
        /\ override[k] # None => Registered(k) /\ override[k] = reg[k].port
        /\ stack[k] # None => Registered(k) /\ stack[k] = reg[k].port /\ tree[k] # None
        /\ \A h \in HostsOf(k) : route[h] # None => Registered(k) /\ route[h] = reg[k].port

\* No port is given out twice.
Distinct ==
    \A j, k \in Keys : j # k /\ Registered(j) /\ Registered(k) => reg[j].port # reg[k].port

Rest == Asked /\ Exclusion /\ Emptied /\ Backed /\ Traced /\ Distinct

Inv == TypeOK /\ Rest

\* Nothing is there at first, and no overlap is allowed for.
LEMMA InitInv == Apart /\ Init => Inv
<1> SUFFICES ASSUME Apart, Init PROVE Inv
  OBVIOUS
<1>1. \A k \in Keys : ~Registered(k) /\ dep[k] = None /\ tree[k] = None
                     /\ override[k] = None /\ stack[k] = None
  BY DEF Init, Registered
<1>2. \A w \in Workers : job[w] = None /\ ~Committed(w)
  BY DEF Init, Committed
<1>3. \A h \in Hosts : route[h] = None
  BY DEF Init
<1>4. \A k \in Keys : HostsOf(k) \subseteq Hosts
  BY DEF HostsOf, Hosts
<1> QED
  BY <1>1, <1>2, <1>3, <1>4, InitType
     DEF Apart, Init, Inv, Rest, Asked, Exclusion, Emptied, Cleared, Past, Backed, Traced, Distinct, Kinds

\* The stage that is over leaves the deployment where it was, but for the stage.
LEMMA GoOnEffect ==
    ASSUME Inv, NEW k \in Keys, dep[k] # None, NEW stage \in Stages, GoOn(k, stage)
    PROVE  /\ \A j \in Keys \ {k} : dep'[j] = dep[j]
           /\ \/ dep'[k] = None /\ active' = active \ {k}
              \/ /\ dep'[k] # None /\ dep'[k].at = stage /\ dep'[k].ask = dep[k].ask
                 /\ dep'[k].port = dep[k].port
                 /\ active' = active
           /\ budget'["overlap"] = 0
<1>1. CASE End(k) /\ Spend({"failure"})
  BY <1>1 DEF End, Spend, Inv, Rest, TypeOK, Exclusion, Kinds
<1>2. CASE dep' = [dep EXCEPT ![k].at = stage] /\ UNCHANGED <<active, budget>>
  <2>1. [dep[k] EXCEPT !.at = stage] \in Deploy
    BY DEF Inv, TypeOK, Deploy
  <2>2. dep'[k] = [dep[k] EXCEPT !.at = stage]
    BY <1>2 DEF Inv, TypeOK
  <2>3. dep'[k] # None
    BY <2>1, <2>2, EnvironmentsAssumption
  <2>4. dep'[k].at = stage /\ dep'[k].ask = dep[k].ask /\ dep'[k].port = dep[k].port
    BY <2>2 DEF Inv, TypeOK, Deploy
  <2> QED  BY <1>2, <2>3, <2>4 DEF Inv, Rest, TypeOK, Exclusion
<1> QED  BY <1>1, <1>2 DEF GoOn

\* A deployment that ends is nobody's, in the history as well.
LEMMA EndEffect ==
    ASSUME Inv, NEW k \in Keys, End(k)
    PROVE  /\ \A j \in Keys \ {k} : dep'[j] = dep[j]
           /\ dep'[k] = None /\ active' = active \ {k}
BY DEF End, Inv, TypeOK

\* With no overlap allowed, none is spent.
LEMMA SpendEffect ==
    ASSUME Inv, NEW kinds, Spend(kinds)
    PROVE  budget'["overlap"] = 0 /\ "overlap" \notin kinds
BY DEF Spend, Inv, Rest, TypeOK, Exclusion, Kinds

\* Hostnames of different keys differ.
LEMMA HostsApart ==
    ASSUME NEW j \in Keys, NEW k \in Keys, j # k
    PROVE  HostsOf(j) \cap HostsOf(k) = {}
BY EnvironmentsAssumption

\* A step of the deployment of one key, seen from all others: there is no
\* worker on that key that has begun to take anything away.
LEMMA DeployKeeps ==
    ASSUME Inv, NEW k \in Keys, dep[k] # None, UNCHANGED job,
           \A j \in Keys \ {k} : /\ dep'[j] = dep[j] /\ reg'[j] = reg[j]
                                 /\ tree'[j] = tree[j] /\ override'[j] = override[j]
                                 /\ stack'[j] = stack[j]
                                 /\ \A h \in HostsOf(j) : route'[h] = route[h],
           dep'[k] # None => dep'[k].ask = dep[k].ask /\ active' = active,
           active \ {k} \subseteq active',
           budget'["overlap"] = 0,
           Registered(k)' => reg'[k].conf \in Asks[k],
           tree'[k] # None => \E c \in Asks[k] : tree'[k] = c.file
    PROVE  Asked' /\ Exclusion' /\ Emptied'
<1>1. \A w \in Workers : Committed(w) => job[w].key # k
  BY DEF Inv, Rest, Exclusion
<1>2. \A w \in Workers : Committed(w) => job[w].key \in Keys
  BY DEF Inv, TypeOK, Committed, Job
<1>3. Asked'
  BY DEF Inv, Rest, Asked, Registered
<1>4. Exclusion'
  <2>1. \A j \in Keys : dep'[j] # None => j \in active'
    BY DEF Inv, Rest, Exclusion
  <2>2. \A w \in Workers : Committed(w)' => dep'[job'[w].key] = None
    BY <1>1, <1>2 DEF Committed, Inv, Rest, Exclusion
  <2> QED  BY <2>1, <2>2 DEF Exclusion
<1>5. Emptied'
  <2>1. \A w \in Workers : Past(w, {"unroute", "cleanup", "override", "rows", "unregister"})
            => Committed(w)
    BY DEF Past, Committed
  <2> QED  BY <1>1, <1>2, <2>1 DEF Inv, Rest, Emptied, Cleared, Past
<1> QED  BY <1>3, <1>4, <1>5

\* The same step, seen by the registry: the key's own things match its row.
LEMMA DeployTraces ==
    ASSUME Inv, NEW k \in Keys,
           \A j \in Keys \ {k} : /\ dep'[j] = dep[j] /\ reg'[j] = reg[j]
                                 /\ tree'[j] = tree[j] /\ override'[j] = override[j]
                                 /\ stack'[j] = stack[j]
                                 /\ \A h \in HostsOf(j) : route'[h] = route[h],
           dep'[k] # None /\ dep'[k].at # "register" =>
               Registered(k)' /\ dep'[k].port = reg'[k].port,
           tree'[k] # None => Registered(k)',
           override'[k] # None => Registered(k)' /\ override'[k] = reg'[k].port,
           stack'[k] # None =>
               Registered(k)' /\ stack'[k] = reg'[k].port /\ tree'[k] # None,
           \A h \in HostsOf(k) : route'[h] # None =>
               Registered(k)' /\ route'[h] = reg'[k].port,
           \A j \in Keys \ {k} : Registered(j) /\ Registered(k)' =>
               reg[j].port # reg'[k].port
    PROVE  Backed' /\ Traced' /\ Distinct'
<1>1. \A j \in Keys \ {k} : Registered(j)' <=> Registered(j)
  BY DEF Registered
<1>2. Backed'
  BY <1>1 DEF Inv, Rest, Backed
<1>3. Traced'
  BY <1>1 DEF Inv, Rest, Traced
<1>4. Distinct'
  BY <1>1 DEF Inv, Rest, Distinct
<1> QED  BY <1>2, <1>3, <1>4

\* What the invariant says of one worker.
Proper(w) ==
    /\ job[w] # None => /\ job[w].key \in Keys
                        /\ job[w].at \notin {"look", "get"}
                              => job[w].was \in Asks[job[w].key]
    /\ Committed(w) => dep[job[w].key] = None
    /\ Cleared(w)

\* Nothing new of a key, and a row that goes leaves nothing behind.
Fades(k) ==
    /\ \/ /\ Registered(k)' /\ Registered(k)
          /\ reg'[k].port = reg[k].port /\ reg'[k].conf = reg[k].conf
       \/ ~Registered(k)' /\ ~Registered(k)
       \/ /\ ~Registered(k)' /\ dep[k] = None /\ tree[k] = None
          /\ override[k] = None /\ stack[k] = None
          /\ \A h \in HostsOf(k) : route[h] = None
    /\ tree'[k] = tree[k] \/ (tree'[k] = None /\ stack'[k] = None)
    /\ override'[k] = override[k] \/ override'[k] = None
    /\ stack'[k] = stack[k] \/ stack'[k] = None
    /\ \A h \in HostsOf(k) : route'[h] = route[h] \/ route'[h] = None

\* The invariant, of one worker.
LEMMA Settled ==
    ASSUME Inv, NEW w \in Workers
    PROVE  Proper(w)
BY DEF Proper, Inv, Rest, TypeOK, Job, Asked, Exclusion, Emptied

\* A step that touches neither registry nor host takes nothing away.
LEMMA Still ==
    ASSUME UNCHANGED <<reg, tree, override, stack, route>>
    PROVE  \A k \in Keys : Fades(k)
BY DEF Fades, Registered

\* A step of a worker, or of time.
LEMMA WorkKeeps ==
    ASSUME Inv, NEW w \in Workers, UNCHANGED dep,
           \A v \in Workers \ {w} : job'[v] = job[v],
           budget'["overlap"] = 0,
           \A k \in Keys : dep[k] # None => k \in active',
           Proper(w)', \A k \in Keys : Fades(k)
    PROVE  Rest'
<1>1. Asked'
  <2>1. \A k \in Keys : Registered(k)' => reg'[k].conf \in Asks[k]
    BY DEF Inv, Rest, Asked, Fades, Proper
  <2>2. \A k \in Keys : tree'[k] # None => \E c \in Asks[k] : tree'[k] = c.file
    BY DEF Inv, Rest, Asked, Fades, Proper
  <2>3. \A v \in Workers : job'[v] # None /\ job'[v].at \notin {"look", "get"}
                              => job'[v].was \in Asks[job'[v].key]
    BY DEF Inv, Rest, Asked, Fades, Proper
  <2> QED  BY <2>1, <2>2, <2>3 DEF Inv, Rest, Asked
<1>2. Exclusion'
  <2>1. ASSUME NEW v \in Workers, Committed(v)'
        PROVE  dep'[job'[v].key] = None
    <3>1. CASE v = w
      BY <2>1, <3>1 DEF Proper
    <3>2. CASE v # w
      BY <2>1, <3>2 DEF Committed, Inv, Rest, Exclusion
    <3> QED  BY <3>1, <3>2
  <2> QED  BY <2>1 DEF Exclusion
<1>3. Emptied'
  <2>1. ASSUME NEW v \in Workers, v # w
        PROVE  Cleared(v)'
    <3>1. job[v] # None => job[v].key \in Keys
      BY DEF Inv, TypeOK, Job
    <3> QED  BY <2>1, <3>1 DEF Inv, Rest, Emptied, Cleared, Past, Fades
  <2> QED  BY <2>1 DEF Emptied, Proper
<1>4. Backed'
  BY DEF Inv, Rest, Backed, Fades
<1>5. Traced'
  BY DEF Inv, Rest, Traced, Fades
<1>6. Distinct'
  BY DEF Inv, Rest, Distinct, Fades
<1> QED  BY <1>1, <1>2, <1>3, <1>4, <1>5, <1>6 DEF Rest

\* A worker's step that is over leaves its job where it was, but for the step.
LEMMA ThenEffect ==
    ASSUME Inv, NEW w \in Workers, job[w] # None, NEW step \in Steps, Then(w, step)
    PROVE  /\ \A v \in Workers \ {w} : job'[v] = job[v]
           /\ \/ job'[w] = None
              \/ /\ job'[w] # None /\ job'[w].at = step
                 /\ job'[w].key = job[w].key /\ job'[w].was = job[w].was
           /\ budget'["overlap"] = 0
<1>1. CASE Leave(w) /\ Spend({"broken"})
  BY <1>1, SpendEffect DEF Leave, Inv, TypeOK
<1>2. CASE job' = [job EXCEPT ![w].at = step] /\ UNCHANGED budget
  <2>1. [job[w] EXCEPT !.at = step] \in Job
    BY DEF Inv, TypeOK, Job
  <2>2. job'[w] = [job[w] EXCEPT !.at = step]
    BY <1>2 DEF Inv, TypeOK
  <2>3. job'[w] # None
    BY <2>1, <2>2, EnvironmentsAssumption
  <2>4. job'[w].at = step /\ job'[w].key = job[w].key /\ job'[w].was = job[w].was
    BY <2>2 DEF Inv, TypeOK, Job
  <2> QED  BY <1>2, <2>3, <2>4 DEF Inv, Rest, TypeOK, Exclusion
<1> QED  BY <1>1, <1>2 DEF Then

\* What a stage finds: its deployment works for the row there is.
LEMMA StageFacts ==
    ASSUME Inv, NEW k \in Keys, dep[k] # None
    PROVE  /\ dep[k].ask \in Asks[k] /\ dep[k].ask \in Config
           /\ k \in active
           /\ dep[k].at # "register" =>
                 Registered(k) /\ dep[k].port = reg[k].port /\ dep[k].port # None
<1>1. dep[k].ask \in Asks[k] /\ k \in active
  BY DEF Inv, Rest, Asked, Exclusion
<1>2. Registered(k) => reg[k].port # None
  BY RowType, EnvironmentsAssumption DEF Inv
<1> QED  BY <1>1, <1>2, EnvironmentsAssumption DEF Inv, Rest, Backed

\* A stage keeps the invariant.
LEMMA StageKeeps ==
    ASSUME Inv, NEW k \in Keys, DeployStep(k) \/ Abort(k)
    PROVE  Rest'
<1> USE DEF hostVars, sweepVars
<1>0. dep[k] # None
  BY DEF DeployStep, Abort, Register, Fetch, WriteOverride, Up, Route, Seed, Flag, Stamp,
         Record, At
<1>1. /\ dep[k].ask \in Asks[k] /\ dep[k].ask \in Config
      /\ dep[k].at # "register" =>
            Registered(k) /\ dep[k].port = reg[k].port /\ dep[k].port # None
  BY <1>0, StageFacts
<1>2. \A stage \in Stages : GoOn(k, stage) =>
          /\ \A j \in Keys \ {k} : dep'[j] = dep[j]
          /\ \/ dep'[k] = None /\ active' = active \ {k}
             \/ /\ dep'[k] # None /\ dep'[k].at = stage /\ dep'[k].ask = dep[k].ask
                /\ dep'[k].port = dep[k].port
                /\ active' = active
          /\ budget'["overlap"] = 0
  BY <1>0, GoOnEffect
<1>3. End(k) => /\ \A j \in Keys \ {k} : dep'[j] = dep[j]
                /\ dep'[k] = None /\ active' = active \ {k}
  BY EndEffect
<1>4. \A kinds : Spend(kinds) => budget'["overlap"] = 0
  BY SpendEffect
<1>5. budget["overlap"] = 0
  BY DEF Inv, Rest, Exclusion
<1>6. /\ Registered(k) => reg[k].conf \in Asks[k]
      /\ tree[k] # None => Registered(k) /\ \E c \in Asks[k] : tree[k] = c.file
      /\ override[k] # None => Registered(k) /\ override[k] = reg[k].port
      /\ stack[k] # None => Registered(k) /\ stack[k] = reg[k].port /\ tree[k] # None
      /\ \A h \in HostsOf(k) : route[h] # None => Registered(k) /\ route[h] = reg[k].port
      /\ \A j \in Keys \ {k} : Registered(j) /\ Registered(k) => reg[j].port # reg[k].port
  BY DEF Inv, Rest, Asked, Traced, Distinct
<1>7. CASE Abort(k) \/ Record(k)
  BY <1>0, <1>3, <1>4, <1>5, <1>6, <1>7, DeployKeeps, DeployTraces
     DEF Abort, Record, Rest, Registered
<1>8. CASE Fetch(k)
  <2>1. /\ dep[k].at = "fetch" /\ GoOn(k, "override") /\ "override" \in Stages
        /\ UNCHANGED <<reg, override, stack, route, job>>
    BY <1>8 DEF Fetch, At, Stages
  <2>2. /\ tree'[k] = dep[k].ask.file
        /\ \A j \in Keys \ {k} : tree'[j] = tree[j]
    BY <1>8 DEF Fetch, Inv, TypeOK
  <2>3. tree'[k] # None /\ \E c \in Asks[k] : tree'[k] = c.file
    BY <1>1, <2>2, ConfigParts, EnvironmentsAssumption
  <2>4. Asked' /\ Exclusion' /\ Emptied'
    BY <1>0, <1>2, <1>6, <2>1, <2>2, <2>3, DeployKeeps DEF Registered
  <2>5. Backed' /\ Traced' /\ Distinct'
    BY <1>1, <1>2, <1>6, <2>1, <2>2, <2>3, DeployTraces DEF Registered
  <2> QED  BY <2>4, <2>5 DEF Rest
<1>9. CASE WriteOverride(k)
  BY <1>0, <1>1, <1>2, <1>3, <1>5, <1>6, <1>9, DeployKeeps, DeployTraces
     DEF WriteOverride, At, Rest, Registered, Stages, Inv, TypeOK
<1>10. CASE Up(k)
  <2>1. CanStart(k) => tree[k] # None
    BY <1>1, ConfigParts, EnvironmentsAssumption DEF CanStart
  <2> QED
    BY <1>0, <1>1, <1>2, <1>3, <1>5, <1>6, <1>10, <2>1, DeployKeeps, DeployTraces
       DEF Up, CanStart, At, Rest, Registered, Stages, Inv, TypeOK
<1>11. CASE Route(k)
  <2>1. \A j \in Keys \ {k} : \A h \in HostsOf(j) : h # dep[k].ask.host
    <3>1. dep[k].ask.host # None => dep[k].ask.host \in HostsOf(k)
      BY <1>1 DEF HostsOf
    <3> QED  BY <3>1, HostsApart DEF HostsOf
  <2>2. \A j \in Keys : HostsOf(j) \subseteq Hosts
    BY DEF HostsOf, Hosts
  <2> QED
    BY <1>0, <1>1, <1>2, <1>6, <1>11, <2>1, <2>2, DeployKeeps, DeployTraces
       DEF Route, At, Rest, Registered, Stages
<1>12. CASE Seed(k)
  BY <1>0, <1>1, <1>2, <1>3, <1>5, <1>6, <1>12, DeployKeeps, DeployTraces
     DEF Seed, At, Rest, Registered, Stages
<1>13. CASE Flag(k)
  <2>1. /\ reg[k] \in Row /\ reg'[k] = [reg[k] EXCEPT !.done = TRUE]
        /\ \A j \in Keys \ {k} : reg'[j] = reg[j]
    BY <1>1, <1>13, RowType DEF Flag, At, SetDone, Inv, TypeOK
  <2>2. [reg[k] EXCEPT !.done = TRUE] \in Row
    BY <2>1 DEF Row
  <2>3. reg'[k] # None /\ reg'[k].port = reg[k].port /\ reg'[k].conf = reg[k].conf
    BY <2>1, <2>2, EnvironmentsAssumption DEF Row
  <2>4. /\ dep[k].at = "flag" /\ GoOn(k, "stamp") /\ "stamp" \in Stages
        /\ UNCHANGED <<tree, override, stack, route, job>>
    BY <1>13 DEF Flag, At, Stages
  <2>5. Asked' /\ Exclusion' /\ Emptied'
    BY <1>0, <1>1, <1>2, <1>6, <2>1, <2>3, <2>4, DeployKeeps DEF Registered
  <2>6. Registered(k) /\ (dep'[k] # None => dep'[k].port = reg'[k].port)
    BY <1>1, <1>2, <2>3, <2>4
  <2>7. /\ Registered(k)'
        /\ \A j \in Keys \ {k} : dep'[j] = dep[j]
        /\ tree[k] # None => Registered(k)'
        /\ override'[k] # None => Registered(k)' /\ override'[k] = reg'[k].port
        /\ stack'[k] # None =>
               Registered(k)' /\ stack'[k] = reg'[k].port /\ tree'[k] # None
        /\ \A h \in HostsOf(k) : route'[h] # None =>
               Registered(k)' /\ route'[h] = reg'[k].port
        /\ \A j \in Keys \ {k} : Registered(j) /\ Registered(k)' =>
               reg[j].port # reg'[k].port
    BY <1>2, <1>6, <2>3, <2>4, <2>6 DEF Registered
  <2>8. Backed' /\ Traced' /\ Distinct'
    BY <2>1, <2>4, <2>6, <2>7, DeployTraces
  <2> QED  BY <2>5, <2>8 DEF Rest
<1>14. CASE Stamp(k)
  <2>1. /\ reg'[k] # None /\ reg'[k].port = reg[k].port /\ reg'[k].conf = reg[k].conf
        /\ \A j \in Keys \ {k} : reg'[j] = reg[j]
    <3>1. reg[k] \in Row /\ [reg[k] EXCEPT !.stale = FALSE] \in Row
      BY <1>1, <1>14, RowType DEF Stamp, At, Row, Inv
    <3>2. /\ reg'[k] = reg[k] \/ reg'[k] = [reg[k] EXCEPT !.stale = FALSE]
          /\ \A j \in Keys \ {k} : reg'[j] = reg[j]
      BY <1>14 DEF Stamp, Inv, TypeOK
    <3>3. reg'[k] # None
      BY <3>1, <3>2, EnvironmentsAssumption
    <3> QED  BY <3>1, <3>2, <3>3 DEF Row
  <2>2. /\ \A j \in Keys \ {k} : dep'[j] = dep[j]
        /\ dep'[k].ask = dep[k].ask /\ dep'[k].port = dep[k].port /\ dep'[k].at = "record"
    BY <1>0, <1>14 DEF Stamp, Inv, TypeOK, Deploy
  <2> QED
    BY <1>0, <1>1, <1>4, <1>5, <1>6, <1>14, <2>1, <2>2, DeployKeeps, DeployTraces
       DEF Stamp, At, Rest, Registered
<1>15. CASE Register(k)
  <2>1. CASE ~Registered(k) /\ FreePorts = {} /\ End(k) /\ UNCHANGED <<reg, budget>>
    BY <1>0, <1>3, <1>5, <1>6, <1>15, <2>1, DeployKeeps, DeployTraces
       DEF Register, Rest, Registered
  <2>2. CASE /\ Registered(k) \/ FreePorts # {}
             /\ reg' = [reg EXCEPT ![k] = Upsert(k, dep[k].ask)]
             /\ \/ /\ dep' = [dep EXCEPT ![k] = [at |-> "fetch", ask |-> @.ask,
                                port |-> reg'[k].port, done |-> reg'[k].done]]
                   /\ UNCHANGED <<active, budget>>
                \/ End(k) /\ Spend({"failure"})
    <3>1. /\ reg'[k] = Upsert(k, dep[k].ask) /\ reg'[k] \in Row /\ reg'[k] # None
          /\ \A j \in Keys \ {k} : reg'[j] = reg[j]
      BY <1>1, <2>2, UpsertType, EnvironmentsAssumption DEF Inv, TypeOK
    <3>2. reg'[k].conf = dep[k].ask
      BY <3>1, RowType DEF Upsert, Row, Inv
    <3>3. Registered(k) => reg'[k].port = reg[k].port
      BY <3>1, RowType DEF Upsert, Row, Inv
    <3>4. ~Registered(k) => reg'[k].port = Min(FreePorts)
      BY <3>1 DEF Upsert
    <3>5. \A j \in Keys \ {k} : Registered(j) => reg[j].port # reg'[k].port
      BY <1>6, <2>2, <3>3, <3>4, FreeIsFree
    <3>6. /\ \A j \in Keys \ {k} : dep'[j] = dep[j]
          /\ \/ dep'[k] = None /\ active' = active \ {k}
             \/ /\ dep'[k].ask = dep[k].ask /\ dep'[k].port = reg'[k].port
                /\ active' = active
          /\ budget'["overlap"] = 0
      BY <1>3, <1>4, <1>5, <2>2 DEF Inv, TypeOK
    <3> QED
      BY <1>0, <1>1, <1>6, <1>15, <3>1, <3>2, <3>3, <3>5, <3>6, DeployKeeps, DeployTraces
         DEF Register, Rest, Registered
  <2> QED  BY <1>15, <2>1, <2>2 DEF Register
<1> QED
  BY <1>7, <1>8, <1>9, <1>10, <1>11, <1>12, <1>13, <1>14, <1>15 DEF DeployStep

\* A client that begins a deployment: its key is not being removed.
LEMMA SubmitKeeps ==
    ASSUME Inv, NEW k \in Keys, NEW c \in Asks[k], Submit(k, c)
    PROVE  Rest'
<1> USE DEF hostVars, sweepVars
<1>1. \A w \in Workers : Committed(w) => job[w].key # k
  BY SpendEffect DEF Submit
<1>2. /\ dep' = [dep EXCEPT ![k] = [at |-> "register", ask |-> c,
                                   port |-> None, done |-> FALSE]]
      /\ active' = active \cup {k} /\ budget'["overlap"] = 0
      /\ UNCHANGED <<reg, tree, override, stack, route, job>>
  BY SpendEffect DEF Submit
<1>3. /\ dep'[k].at = "register" /\ dep'[k].ask = c
      /\ \A j \in Keys \ {k} : dep'[j] = dep[j]
  BY <1>2 DEF Inv, TypeOK
<1>4. Asked'
  BY <1>2, <1>3 DEF Inv, Rest, Asked, Registered
<1>5. Exclusion'
  <2>1. \A w \in Workers : Committed(w)' => dep'[job'[w].key] = None
    <3>1. \A w \in Workers : Committed(w) => job[w].key \in Keys
      BY DEF Inv, TypeOK, Committed, Job
    <3> QED  BY <1>1, <1>2, <1>3, <3>1 DEF Committed, Inv, Rest, Exclusion
  <2> QED  BY <1>2, <1>3, <2>1 DEF Inv, Rest, Exclusion
<1>6. Emptied'
  BY <1>2 DEF Inv, Rest, Emptied, Cleared, Past
<1>7. Backed' /\ Traced' /\ Distinct'
  BY <1>2, <1>3 DEF Inv, Rest, Backed, Traced, Distinct, Registered
<1> QED  BY <1>4, <1>5, <1>6, <1>7 DEF Rest

\* A worker's step keeps the invariant: what it is to take away is where the
\* configuration it has read says, and no deployment puts it back.
LEMMA WorkStepKeeps ==
    ASSUME Apart, Inv, NEW w \in Workers, WorkStep(w)
    PROVE  Rest'
<1> USE DEF hostVars, sweepVars
<1> DEFINE k == job[w].key
<1>1. job[w] # None /\ k \in Keys /\ job[w] \in Job
  BY DEF WorkStep, Get, Check, Down, Unroute, Cleanup, DropOverride, DropRows,
         Unregister, Unflag, Doing, Inv, TypeOK, Job
<1>2. /\ \A j \in Keys : dep[j] # None => j \in active
      /\ Committed(w) => dep[k] = None
      /\ job[w].at \notin {"look", "get"} => job[w].was \in Asks[k]
      /\ budget["overlap"] = 0
      /\ Cleared(w)
  BY <1>1 DEF Inv, Rest, Asked, Exclusion, Emptied
<1>3. \A step \in Steps : Then(w, step) =>
          /\ \A v \in Workers \ {w} : job'[v] = job[v]
          /\ \/ job'[w] = None
             \/ /\ job'[w] # None /\ job'[w].at = step
                /\ job'[w].key = job[w].key /\ job'[w].was = job[w].was
          /\ budget'["overlap"] = 0
  BY <1>1, ThenEffect
<1>4. Leave(w) => job'[w] = None /\ \A v \in Workers \ {w} : job'[v] = job[v]
  BY DEF Leave, Inv, TypeOK
<1>5. \A j \in Keys : /\ stack[j] # None => tree[j] # None
                      /\ tree[j] # None => \E c \in Asks[j] : tree[j] = c.file
  BY DEF Inv, Rest, Traced, Asked
<1>6. CASE Get(w)
  <2>1. CASE ~Registered(k)
    <3>1. job'[w] = None /\ (\A v \in Workers \ {w} : job'[v] = job[v])
          /\ UNCHANGED <<reg, active, dep, tree, override, stack, route, budget>>
      BY <1>4, <1>6, <2>1 DEF Get
    <3>2. Proper(w)'
      BY <3>1 DEF Proper, Committed, Cleared, Past
    <3> QED  BY <1>2, <3>1, <3>2, Still, WorkKeeps
  <2>2. CASE Registered(k)
    <3>1. [job[w] EXCEPT !.at = "check", !.was = reg[k].conf] \in Job
      BY <1>1, <2>2, RowType DEF Job, Steps, Inv
    <3>2. /\ job'[w] = [job[w] EXCEPT !.at = "check", !.was = reg[k].conf]
          /\ \A v \in Workers \ {w} : job'[v] = job[v]
      BY <1>6, <2>2 DEF Get, Inv, TypeOK
    <3>3. job'[w].key = k /\ job'[w].was = reg[k].conf /\ job'[w].at = "check"
      BY <1>1, <3>2 DEF Job
    <3>4. reg[k].conf \in Asks[k]
      BY <1>1, <2>2 DEF Inv, Rest, Asked
    <3>5. UNCHANGED <<reg, active, dep, tree, override, stack, route, budget>>
      BY <1>6 DEF Get
    <3>6. Committed(w)' => Committed(w)
      BY <1>1, <3>3 DEF Committed
    <3>7. Proper(w)'
      BY <1>1, <1>2, <3>3, <3>4, <3>5, <3>6 DEF Proper, Cleared, Past
    <3> QED  BY <1>2, <3>2, <3>5, <3>7, Still, WorkKeeps
  <2> QED  BY <2>1, <2>2
<1>7. CASE Check(w)
  <2>1. CASE k \in active
    <3>1. job'[w] = None /\ (\A v \in Workers \ {w} : job'[v] = job[v])
          /\ UNCHANGED <<reg, active, dep, tree, override, stack, route, budget>>
      BY <1>4, <1>7, <2>1 DEF Check
    <3>2. Proper(w)'
      BY <3>1 DEF Proper, Committed, Cleared, Past
    <3> QED  BY <1>2, <3>1, <3>2, Still, WorkKeeps
  <2>2. CASE k \notin active
    <3>1. /\ job'[w] = [job[w] EXCEPT !.at = "down"]
          /\ \A v \in Workers \ {w} : job'[v] = job[v]
          /\ UNCHANGED <<reg, active, dep, tree, override, stack, route, budget>>
      BY <1>7, <2>2 DEF Check, Inv, TypeOK
    <3>2. job'[w].key = k /\ job'[w].was = job[w].was /\ job'[w].at = "down"
      BY <1>1, <3>1 DEF Job
    <3>3. job[w].at = "check" /\ dep[k] = None
      BY <1>1, <1>2, <1>7, <2>2 DEF Check, Doing
    <3>4. Proper(w)'
      BY <1>1, <1>2, <3>1, <3>2, <3>3 DEF Proper, Cleared, Past
    <3> QED  BY <1>2, <3>1, <3>4, Still, WorkKeeps
  <2> QED  BY <2>1, <2>2
<1>8. CASE Down(w)
  <2>1. /\ job[w].at = "down" /\ Committed(w)
        /\ \/ Then(w, "unflag") \/ Then(w, "unroute")
        /\ UNCHANGED <<reg, active, dep, tree, override, route>>
    BY <1>8 DEF Down, Doing, Committed
  <2>2. stack'[k] = None /\ \A j \in Keys \ {k} : stack'[j] = stack[j]
    <3>1. job[w].was \in Asks[k]
      BY <1>2, <2>1
    <3>2. tree[k] # job[w].was.file => stack[k] = None
      BY <1>1, <1>5, <3>1 DEF Apart
    <3> QED  BY <1>1, <1>8, <3>2 DEF Down, Inv, TypeOK
  <2>3. /\ \A v \in Workers \ {w} : job'[v] = job[v]
        /\ \/ job'[w] = None
           \/ /\ job'[w] # None /\ job'[w].at \in {"unflag", "unroute"}
              /\ job'[w].key = k /\ job'[w].was = job[w].was
        /\ budget'["overlap"] = 0
    BY <1>3, <2>1 DEF Steps
  <2>4. Proper(w)'
    BY <1>1, <1>2, <2>1, <2>2, <2>3 DEF Proper, Committed, Cleared, Past
  <2>5. \A j \in Keys : Fades(j)
    BY <2>1, <2>2 DEF Fades, Registered
  <2> QED  BY <1>2, <2>1, <2>3, <2>4, <2>5, WorkKeeps
<1>9. CASE Unroute(w)
  <2>1. /\ job[w].at = "unroute" /\ Committed(w) /\ Then(w, "cleanup")
        /\ UNCHANGED <<reg, active, dep, tree, override, stack>>
    BY <1>9 DEF Unroute, Doing, Committed
  <2>2. \A j \in Keys : HostsOf(j) \subseteq Hosts
    BY DEF HostsOf, Hosts
  <2>3. /\ \A h \in HostsOf(k) : route'[h] = None
        /\ \A h \in Hosts : route'[h] = route[h] \/ route'[h] = None
    <3>1. job[w].was \in Asks[k]
      BY <1>2, <2>1
    <3>2. \A h \in HostsOf(k) : h = job[w].was.host
      BY <1>1, <3>1 DEF HostsOf, Apart
    <3> QED  BY <1>1, <1>9, <2>2, <3>2 DEF Unroute
  <2>4. /\ \A v \in Workers \ {w} : job'[v] = job[v]
        /\ \/ job'[w] = None
           \/ /\ job'[w] # None /\ job'[w].at = "cleanup"
              /\ job'[w].key = k /\ job'[w].was = job[w].was
        /\ budget'["overlap"] = 0
    BY <1>3, <2>1 DEF Steps
  <2>5. Proper(w)'
    BY <1>1, <1>2, <2>1, <2>3, <2>4 DEF Proper, Committed, Cleared, Past
  <2>6. \A j \in Keys : Fades(j)
    BY <2>1, <2>2, <2>3 DEF Fades, Registered
  <2> QED  BY <1>2, <2>1, <2>4, <2>5, <2>6, WorkKeeps
<1>10. CASE Cleanup(w)
  <2>1. /\ job[w].at = "cleanup" /\ Committed(w) /\ Then(w, "override")
        /\ tree'[k] = None /\ \A j \in Keys \ {k} : tree'[j] = tree[j]
        /\ UNCHANGED <<active, reg, dep, override, stack, route>>
    BY <1>1, <1>10 DEF Cleanup, Doing, Committed, Inv, TypeOK
  <2>2. /\ \A v \in Workers \ {w} : job'[v] = job[v]
        /\ \/ job'[w] = None
           \/ /\ job'[w] # None /\ job'[w].at = "override"
              /\ job'[w].key = k /\ job'[w].was = job[w].was
        /\ budget'["overlap"] = 0
    BY <1>3, <2>1 DEF Steps
  <2>3. Proper(w)'
    BY <1>1, <1>2, <2>1, <2>2 DEF Proper, Committed, Cleared, Past
  <2>4. \A j \in Keys : Fades(j)
    BY <1>1, <1>2, <2>1 DEF Fades, Registered, Cleared, Past
  <2> QED  BY <1>2, <2>1, <2>2, <2>3, <2>4, WorkKeeps
<1>11. CASE DropOverride(w)
  <2>1. /\ job[w].at = "override" /\ Committed(w) /\ Then(w, "rows")
        /\ override'[k] = None /\ \A j \in Keys \ {k} : override'[j] = override[j]
        /\ UNCHANGED <<active, reg, dep, tree, stack, route>>
    BY <1>1, <1>11 DEF DropOverride, Doing, Committed, Inv, TypeOK
  <2>2. /\ \A v \in Workers \ {w} : job'[v] = job[v]
        /\ \/ job'[w] = None
           \/ /\ job'[w] # None /\ job'[w].at = "rows"
              /\ job'[w].key = k /\ job'[w].was = job[w].was
        /\ budget'["overlap"] = 0
    BY <1>3, <2>1 DEF Steps
  <2>3. Proper(w)'
    BY <1>1, <1>2, <2>1, <2>2 DEF Proper, Committed, Cleared, Past
  <2>4. \A j \in Keys : Fades(j)
    BY <1>1, <1>2, <2>1 DEF Fades, Registered, Cleared, Past
  <2> QED  BY <1>2, <2>1, <2>2, <2>3, <2>4, WorkKeeps
<1>12. CASE DropRows(w)
  <2>1. /\ job[w].at = "rows" /\ Committed(w) /\ Then(w, "unregister")
        /\ active' = active \ {k}
        /\ UNCHANGED <<reg, dep, tree, override, stack, route>>
    BY <1>1, <1>12 DEF DropRows, Doing, Committed, Inv, TypeOK
  <2>2. /\ \A v \in Workers \ {w} : job'[v] = job[v]
        /\ \/ job'[w] = None
           \/ /\ job'[w] # None /\ job'[w].at = "unregister"
              /\ job'[w].key = k /\ job'[w].was = job[w].was
        /\ budget'["overlap"] = 0
    BY <1>3, <2>1 DEF Steps
  <2>3. Proper(w)'
    BY <1>1, <1>2, <2>1, <2>2 DEF Proper, Committed, Cleared, Past
  <2>4. \A j \in Keys : Fades(j)
    BY <1>1, <1>2, <2>1 DEF Fades, Registered, Cleared, Past
  <2> QED  BY <1>2, <2>1, <2>2, <2>3, <2>4, WorkKeeps
<1>13. CASE Unregister(w)
  <2>1. /\ job[w].at = "unregister" /\ Leave(w)
        /\ reg'[k] = None /\ \A j \in Keys \ {k} : reg'[j] = reg[j]
        /\ UNCHANGED <<active, dep, tree, override, stack, route, budget>>
    BY <1>1, <1>13 DEF Unregister, Doing, Inv, TypeOK
  <2>2. /\ dep[k] = None /\ tree[k] = None /\ override[k] = None /\ stack[k] = None
        /\ \A h \in HostsOf(k) : route[h] = None
    BY <1>1, <1>2, <2>1 DEF Committed, Cleared, Past
  <2>3. job'[w] = None /\ Proper(w)'
    BY <1>4, <2>1 DEF Proper, Committed, Cleared, Past
  <2>4. \A j \in Keys : Fades(j)
    BY <2>1, <2>2 DEF Fades, Registered
  <2> QED  BY <1>2, <1>4, <2>1, <2>3, <2>4, WorkKeeps
<1>14. CASE Unflag(w)
  <2>1. /\ Leave(w) /\ \A j \in Keys \ {k} : reg'[j] = reg[j]
        /\ reg'[k] = IF Registered(k) THEN [reg[k] EXCEPT !.done = FALSE] ELSE reg[k]
        /\ UNCHANGED <<active, dep, tree, override, stack, route, budget>>
    BY <1>1, <1>14 DEF Unflag, SetDone, Inv, TypeOK
  <2>2. Registered(k) => reg[k] \in Row /\ [reg[k] EXCEPT !.done = FALSE] \in Row
    BY <1>1, RowType DEF Row, Inv
  <2>3. Registered(k) => reg'[k] # None /\ reg'[k].port = reg[k].port
                         /\ reg'[k].conf = reg[k].conf
    BY <2>1, <2>2, EnvironmentsAssumption DEF Row
  <2>4. job'[w] = None /\ Proper(w)'
    BY <1>4, <2>1 DEF Proper, Committed, Cleared, Past
  <2>5. \A j \in Keys : Fades(j)
    BY <2>1, <2>3 DEF Fades, Registered
  <2> QED  BY <1>2, <1>4, <2>1, <2>4, <2>5, WorkKeeps
<1> QED
  BY <1>6, <1>7, <1>8, <1>9, <1>10, <1>11, <1>12, <1>13, <1>14
     DEF WorkStep

\* Every step keeps the invariant.
LEMMA NextInv ==
    ASSUME Apart, Inv, [Next]_vars
    PROVE  Inv'
<1> USE DEF hostVars, sweepVars
<1>0. TypeOK'
  BY NextType DEF Inv
<1> SUFFICES Rest'
  BY <1>0 DEF Inv
<1>1. /\ \A j \in Keys : dep[j] # None => j \in active
      /\ \A w \in Workers : Committed(w) => dep[job[w].key] = None
      /\ budget["overlap"] = 0
  BY DEF Inv, Rest, Exclusion
<1>2. ASSUME NEW k \in Keys, NEW c \in Asks[k], Submit(k, c)
      PROVE  Rest'
  BY <1>2, SubmitKeeps
<1>3. ASSUME NEW k \in Keys, DeployStep(k) \/ Abort(k)
      PROVE  Rest'
  BY <1>3, StageKeeps
<1>4. ASSUME NEW k \in Keys, Age(k)
      PROVE  Rest'
  <2>1. /\ reg[k] \in Row /\ reg'[k] = [reg[k] EXCEPT !.stale = TRUE]
        /\ \A j \in Keys \ {k} : reg'[j] = reg[j]
        /\ budget'["overlap"] = 0
        /\ UNCHANGED <<active, dep, tree, override, stack, route, job>>
    BY <1>4, RowType, SpendEffect DEF Age, Inv, TypeOK
  <2>2. [reg[k] EXCEPT !.stale = TRUE] \in Row
    BY <2>1 DEF Row
  <2>3. Registered(k) /\ reg'[k] # None /\ reg'[k].port = reg[k].port
        /\ reg'[k].conf = reg[k].conf
    BY <1>4, <2>1, <2>2, EnvironmentsAssumption DEF Row, Age
  <2>4. \A j \in Keys : Fades(j)
    BY <2>1, <2>3 DEF Fades, Registered
  <2>5. Reaper \in Workers
    BY DEF Workers
  <2>6. Proper(Reaper)'
    BY <2>1, <2>5, Settled DEF Proper, Committed, Cleared, Past
  <2> QED  BY <1>1, <2>1, <2>4, <2>5, <2>6, WorkKeeps
<1>5. ASSUME NEW w \in Operators, NEW k \in Keys, NEW p \in {"rm", "destroy", "reset"},
             Begin(w, k, p)
      PROVE  Rest'
  <2>1. /\ job'[w] = [key |-> k, plan |-> p, at |-> "get", was |-> None]
        /\ \A v \in Workers \ {w} : job'[v] = job[v]
        /\ budget'["overlap"] = 0 /\ w \in Workers /\ w # Reaper
        /\ UNCHANGED <<reg, active, dep, tree, override, stack, route>>
    BY <1>5, SpendEffect, EnvironmentsAssumption DEF Begin, Workers, Inv, TypeOK
  <2>2. Proper(w)'
    BY <2>1 DEF Proper, Committed, Cleared, Past
  <2> QED  BY <1>1, <2>1, <2>2, Still, WorkKeeps
<1>6. ASSUME NEW w \in Workers, Break(w)
      PROVE  Rest'
  <2>1. /\ job'[w] = None /\ \A v \in Workers \ {w} : job'[v] = job[v]
        /\ budget'["overlap"] = 0
        /\ UNCHANGED <<reg, active, dep, tree, override, stack, route>>
    BY <1>6, SpendEffect DEF Break, Leave, Inv, TypeOK
  <2>2. Proper(w)'
    BY <2>1 DEF Proper, Committed, Cleared, Past
  <2> QED  BY <1>1, <2>1, <2>2, Still, WorkKeeps
<1>7. ASSUME NEW w \in Workers, WorkStep(w)
      PROVE  Rest'
  BY <1>7, WorkStepKeeps
<1>8. CASE ReaperStep
  <2>1. /\ UNCHANGED <<reg, active, dep, tree, override, stack, route, budget>>
        /\ Reaper \in Workers
    BY <1>8 DEF ReaperStep, Sweep, Visit, Look, Workers
  <2>2. CASE Sweep
    BY <1>1, <2>1, <2>2, Settled, Still, WorkKeeps DEF Sweep, Proper, Committed, Cleared, Past
  <2>3. ASSUME NEW k \in Envs, Visit(k)
        PROVE  Rest'
    <3>1. k \in Keys
      BY EnvironmentsAssumption
    <3>2. CASE k \in active
      BY <1>1, <2>1, <2>3, <3>2, Settled, Still, WorkKeeps
         DEF Visit, Proper, Committed, Cleared, Past
    <3>3. CASE k \notin active
      <4>1. /\ job'[Reaper] = [key |-> k, plan |-> "destroy", at |-> "look", was |-> None]
            /\ \A v \in Workers \ {Reaper} : job'[v] = job[v]
        BY <2>1, <2>3, <3>3 DEF Visit, Inv, TypeOK
      <4>2. Proper(Reaper)'
        BY <1>1, <2>1, <3>1, <3>3, <4>1 DEF Proper, Committed, Cleared, Past
      <4> QED  BY <1>1, <2>1, <4>1, <4>2, Still, WorkKeeps
    <3> QED  BY <3>2, <3>3
  <2>4. CASE Look
    <3>1. job[Reaper] # None /\ job[Reaper] \in Job
      BY <2>1, <2>4 DEF Look, Doing, Inv, TypeOK
    <3>2. /\ job'[Reaper] = None \/ job'[Reaper] = [job[Reaper] EXCEPT !.at = "get"]
          /\ \A v \in Workers \ {Reaper} : job'[v] = job[v]
      BY <2>4, <2>1 DEF Look, Leave, Inv, TypeOK
    <3>3. job'[Reaper] = None \/ (job'[Reaper].key = job[Reaper].key
                                  /\ job'[Reaper].at = "get")
      BY <3>1, <3>2 DEF Job
    <3>4. Proper(Reaper)'
      BY <1>1, <2>1, <3>1, <3>3, Settled DEF Proper, Committed, Cleared, Past
    <3> QED  BY <1>1, <2>1, <3>2, <3>4, Still, WorkKeeps
  <2> QED  BY <1>8, <2>2, <2>3, <2>4 DEF ReaperStep
<1>9. CASE Crash
  <2>1. /\ \A k \in Keys : dep'[k] = None
        /\ \A w \in Workers : job'[w] = None
        /\ budget'["overlap"] = 0
        /\ UNCHANGED <<reg, tree, override, stack, route>>
    BY <1>9, SpendEffect DEF Crash
  <2>2. Asked' /\ Exclusion' /\ Emptied' /\ Backed'
    BY <2>1 DEF Inv, Rest, Asked, Exclusion, Emptied, Cleared, Past, Committed, Backed,
                Registered
  <2>3. Traced' /\ Distinct'
    BY <2>1 DEF Inv, Rest, Traced, Distinct, Registered
  <2> QED  BY <2>2, <2>3 DEF Rest
<1>10. CASE UNCHANGED vars
  <2>1. UNCHANGED <<reg, active, dep, tree, override, stack, route, job, budget>>
    BY <1>10 DEF vars
  <2> QED  BY <2>1 DEF Inv, Rest, Asked, Exclusion, Emptied, Cleared, Past, Committed,
                       Backed, Traced, Distinct, Registered
<1> QED
  BY <1>2, <1>3, <1>4, <1>5, <1>6, <1>7, <1>8, <1>9, <1>10 DEF Next

\* If no deployment is submitted past a removal's first look at the history,
\* and a key keeps its hostname and its compose path: whatever fails, however a
\* removal is cut short and retried, the registry knows of everything there is.
THEOREM NothingIsOrphaned == Apart => (Spec => []NothingOrphaned)
<1> SUFFICES ASSUME Apart
             PROVE  Spec => []NothingOrphaned
  OBVIOUS
<1>1. Init => Inv
  BY InitInv
<1>2. Inv /\ [Next]_vars => Inv'
  BY NextInv
<1>3. Inv => NothingOrphaned
  BY DEF Inv, Rest, Traced, NothingOrphaned
<1> QED  BY <1>1, <1>2, <1>3, PTL DEF Spec

\* Under the same conditions a hostname never leads to somebody else's port,
\* though ports are given out again and routes outlive failed deployments.
THEOREM RoutesLeadHome == Apart => (Spec => []RouteLeadsHome)
<1> SUFFICES ASSUME Apart
             PROVE  Spec => []RouteLeadsHome
  OBVIOUS
<1>1. Init => Inv
  BY InitInv
<1>2. Inv /\ [Next]_vars => Inv'
  BY NextInv
<1>3. Inv => RouteLeadsHome
  BY DEF Inv, Rest, Traced, Distinct, RouteLeadsHome
<1> QED  BY <1>1, <1>2, <1>3, PTL DEF Spec
-----------------------------------------------------------------------------
(* An environment's deployment ends on seeded volumes, and the reaper      *)
(* takes down what has expired by then.  To the invariant above, which     *)
(* keeps the deployment and the removals of a key apart, the first adds    *)
(* that a row which says on_create is done has seeded volumes, or a worker *)
(* that has emptied them and will take the row, or its flag, away          *)
(* (Honest); the second that what the tick has listed is expired until it  *)
(* is deployed again (Reaping).  A removal or a reset that is cut short    *)
(* breaks the first: it is stated for those that run to their end.         *)

\* No removal or reset is cut short.
Unbroken == Apart /\ Budget["broken"] = 0 /\ Budget["crash"] = 0

\* The worker has been through `compose down` of the key.
Emptying(w, k) ==
    /\ Past(w, {"unroute", "cleanup", "override", "rows", "unregister", "unflag"})
    /\ job[w].key = k

\* What a row and a deployment believe of the volumes is so.
Honest(k) ==
    /\ Registered(k) /\ reg[k].done =>
           data[k] = "seeded" \/ \E w \in Workers : Emptying(w, k)
    /\ dep[k] # None /\ dep[k].at = "register" => ~dep[k].done
    /\ dep[k] # None /\ (dep[k].done \/ dep[k].at \in {"flag", "stamp", "record"}) =>
           data[k] = "seeded"

\* What the tick listed, and what the reaper has looked at, is past its ttl.
Reaping ==
    /\ \A k \in lapsed : Registered(k) /\ reg[k].stale
    /\ Past(Reaper, Steps \ {"look"}) /\ Registered(job[Reaper].key) =>
           reg[job[Reaper].key].stale

Quiet == budget["broken"] = 0 /\ budget["crash"] = 0

LifeInv == Quiet /\ (\A k \in Envs : Honest(k)) /\ Reaping

LEMMA InitLife == Unbroken /\ Init => LifeInv
BY EnvironmentsAssumption
   DEF Unbroken, Init, LifeInv, Quiet, Honest, Reaping, Past, Registered, Kinds, Workers

\* Nothing that is not allowed for is ever spent.
LEMMA SpendQuiet ==
    ASSUME TypeOK, Quiet, NEW kinds, Spend(kinds)
    PROVE  Quiet' /\ "broken" \notin kinds /\ "crash" \notin kinds
BY DEF Spend, Quiet, TypeOK, Kinds

\* A stage that is over leaves done as upsert returned it.
LEMMA GoOnLife ==
    ASSUME TypeOK, Quiet, NEW k \in Keys, dep[k] # None, NEW stage \in Stages, GoOn(k, stage)
    PROVE  /\ \A j \in Keys \ {k} : dep'[j] = dep[j]
           /\ \/ dep'[k] = None
              \/ dep'[k] # None /\ dep'[k].at = stage /\ dep'[k].done = dep[k].done
           /\ Quiet'
<1>1. CASE End(k) /\ Spend({"failure"})
  BY <1>1, SpendQuiet DEF End, TypeOK
<1>2. CASE dep' = [dep EXCEPT ![k].at = stage] /\ UNCHANGED <<active, budget>>
  <2>1. [dep[k] EXCEPT !.at = stage] \in Deploy /\ dep[k] \in Deploy
    BY DEF TypeOK, Deploy
  <2>2. dep'[k] = [dep[k] EXCEPT !.at = stage]
    BY <1>2 DEF TypeOK
  <2>3. dep'[k] # None
    BY <2>1, <2>2, EnvironmentsAssumption
  <2>4. dep'[k].at = stage /\ dep'[k].done = dep[k].done
    BY <2>1, <2>2 DEF Deploy
  <2> QED  BY <1>2, <2>3, <2>4 DEF TypeOK, Quiet
<1> QED  BY <1>1, <1>2 DEF GoOn

\* No worker has emptied the volumes of a key with a deployment.
LEMMA NobodyEmpties ==
    ASSUME Inv, NEW k \in Keys, dep[k] # None
    PROVE  /\ \A w \in Workers : ~Emptying(w, k)
           /\ job[Reaper] # None => job[Reaper].key # k
BY DEF Emptying, Past, Inv, Rest, Exclusion, Committed, Workers

\* A step of the deployment of one key, seen from the others.
LEMMA DeployLife ==
    ASSUME Inv, LifeInv, NEW k \in Keys, dep[k] # None, UNCHANGED job, Quiet',
           \A j \in Keys \ {k} : /\ dep'[j] = dep[j] /\ reg'[j] = reg[j]
                                 /\ data'[j] = data[j],
           lapsed' \subseteq lapsed,
           k \in lapsed' => Registered(k)' /\ reg'[k].stale,
           k \in Envs => Honest(k)'
    PROVE  LifeInv'
<1>1. ASSUME NEW j \in Envs
      PROVE  Honest(j)'
  <2>1. CASE j = k
    BY <2>1
  <2>2. CASE j # k
    BY <2>2, EnvironmentsAssumption DEF LifeInv, Honest, Registered, Emptying, Past
  <2> QED  BY <2>1, <2>2
<1>2. Reaping'
  <2>1. \A j \in lapsed' : j \in Keys
    BY EnvironmentsAssumption DEF Inv, TypeOK
  <2>2. job[Reaper] # None => job[Reaper].key \in Keys \ {k}
    BY NobodyEmpties DEF Inv, TypeOK, Job, Workers
  <2> QED  BY <2>1, <2>2 DEF LifeInv, Reaping, Registered, Past
<1> QED  BY <1>1, <1>2 DEF LifeInv

\* The stages of a deployment.
LEMMA StageLife ==
    ASSUME Inv, LifeInv, NEW k \in Keys, DeployStep(k) \/ Abort(k)
    PROVE  LifeInv'
<1> USE DEF hostVars, sweepVars
<1>1. /\ dep[k] # None /\ dep[k] \in Deploy /\ TypeOK /\ Quiet
      /\ "fetch" \in Stages /\ "override" \in Stages /\ "up" \in Stages
      /\ "route" \in Stages /\ "seed" \in Stages /\ "flag" \in Stages /\ "stamp" \in Stages
  BY DEF DeployStep, Register, Fetch, WriteOverride, Up, Route, Seed, Flag, Stamp,
         Record, Abort, At, Inv, TypeOK, LifeInv, Stages
<1>2. /\ \A w \in Workers : ~Emptying(w, k)
      /\ k \in Envs /\ Registered(k) /\ reg[k].done => data[k] = "seeded"
  BY <1>1, NobodyEmpties DEF LifeInv, Honest
<1>3. /\ k \in lapsed => Registered(k) /\ reg[k].stale
      /\ k \in Envs => Honest(k)
  BY DEF LifeInv, Reaping
<1>4. End(k) => dep'[k] = None /\ \A j \in Keys \ {k} : dep'[j] = dep[j]
  BY <1>1 DEF End, TypeOK
<1>5. Registered(k) => reg[k] \in Row /\ reg[k] # None
  BY <1>1, RowType DEF Registered
<1>6. CASE Abort(k)
  <2>1. Quiet' /\ (k \in Envs => Honest(k)')
    BY <1>1, <1>2, <1>4, <1>6, SpendQuiet DEF Abort, Honest, Registered
  <2> QED  BY <1>1, <1>3, <1>4, <1>6, <2>1, DeployLife DEF Abort, Registered
<1>7. CASE Register(k)
  <2>1. Quiet'
    BY <1>1, <1>7, SpendQuiet DEF Register, Quiet
  <2>2. \A j \in Keys \ {k} : dep'[j] = dep[j] /\ reg'[j] = reg[j]
    BY <1>1, <1>4, <1>7 DEF Register, TypeOK
  <2>3. CASE UNCHANGED reg /\ End(k)
    BY <1>1, <1>2, <1>3, <1>4, <1>7, <2>1, <2>2, <2>3, DeployLife
       DEF Register, Honest, Registered
  <2>4. CASE /\ Registered(k) \/ FreePorts # {}
             /\ reg' = [reg EXCEPT ![k] = Upsert(k, dep[k].ask)]
             /\ \/ dep' = [dep EXCEPT ![k] = [at |-> "fetch", ask |-> @.ask,
                                port |-> reg'[k].port, done |-> reg'[k].done]]
                \/ End(k)
    <3>1. /\ Registered(k)'
          /\ reg'[k].done => Registered(k) /\ reg[k].done
          /\ Registered(k) => reg'[k].stale = reg[k].stale
      <4>1. dep[k].ask \in Config /\ reg'[k] = Upsert(k, dep[k].ask)
        BY <1>1, <2>4 DEF TypeOK, Deploy
      <4>2. reg'[k] \in Row
        BY <1>1, <2>4, <4>1, UpsertType
      <4>3. CASE Registered(k)
        BY <1>5, <4>1, <4>2, <4>3, EnvironmentsAssumption DEF Upsert, Registered, Row
      <4>4. CASE ~Registered(k)
        <5>1. reg'[k].done = FALSE
          BY <4>1, <4>4 DEF Upsert
        <5>2. reg'[k] # None
          BY <4>2, EnvironmentsAssumption
        <5> QED  BY <4>4, <5>1, <5>2 DEF Registered
      <4> QED  BY <4>3, <4>4
    <3>2. dep'[k] = None \/ (dep'[k].at = "fetch" /\ dep'[k].done = reg'[k].done)
      BY <1>1, <1>4, <2>4 DEF TypeOK
    <3>3. k \in Envs => Honest(k)'
      BY <1>2, <1>7, <3>1, <3>2 DEF Register, Honest
    <3>4. k \in lapsed => reg'[k].stale
      BY <1>3, <3>1
    <3> QED  BY <1>1, <1>7, <2>1, <2>2, <3>1, <3>3, <3>4, DeployLife DEF Register
  <2> QED  BY <1>7, <2>3, <2>4 DEF Register
<1>8. CASE Fetch(k)
  <2>1. GoOn(k, "override") /\ UNCHANGED <<reg, data, job, lapsed>> /\ dep[k].at = "fetch"
    BY <1>8 DEF Fetch, At
  <2>2. k \in Envs => Honest(k)'
    BY <1>1, <1>2, <1>3, <2>1, GoOnLife DEF Honest, Registered
  <2> QED  BY <1>1, <1>3, <2>1, <2>2, GoOnLife, DeployLife DEF Registered
<1>9. CASE WriteOverride(k)
  <2>1. /\ GoOn(k, "up") \/ (End(k) /\ UNCHANGED budget)
        /\ UNCHANGED <<reg, data, job, lapsed>> /\ dep[k].at = "override"
    BY <1>9 DEF WriteOverride, At
  <2>2. k \in Envs => Honest(k)'
    BY <1>1, <1>2, <1>3, <1>4, <2>1, GoOnLife DEF Honest, Registered
  <2>3. Quiet' /\ \A j \in Keys \ {k} : dep'[j] = dep[j]
    BY <1>1, <1>4, <2>1, GoOnLife DEF Quiet
  <2> QED  BY <1>1, <1>3, <2>1, <2>2, <2>3, DeployLife DEF Registered
<1>10. CASE Up(k)
  <2>1. /\ GoOn(k, "route") \/ (End(k) /\ UNCHANGED budget)
        /\ UNCHANGED <<reg, job, lapsed>> /\ dep[k].at = "up"
        /\ \A j \in Keys \ {k} : data'[j] = data[j]
        /\ data[k] = "seeded" => data'[k] = "seeded"
    BY <1>1, <1>10 DEF Up, At, TypeOK
  <2>2. k \in Envs => Honest(k)'
    BY <1>1, <1>2, <1>3, <1>4, <2>1, GoOnLife DEF Honest, Registered
  <2>3. Quiet' /\ \A j \in Keys \ {k} : dep'[j] = dep[j]
    BY <1>1, <1>4, <2>1, GoOnLife DEF Quiet
  <2> QED  BY <1>1, <1>3, <2>1, <2>2, <2>3, DeployLife DEF Registered
<1>11. CASE Route(k)
  <2>1. GoOn(k, "seed") /\ UNCHANGED <<reg, data, job, lapsed>> /\ dep[k].at = "route"
    BY <1>11 DEF Route, At
  <2>2. k \in Envs => Honest(k)'
    BY <1>1, <1>2, <1>3, <2>1, GoOnLife DEF Honest, Registered
  <2> QED  BY <1>1, <1>3, <2>1, <2>2, GoOnLife, DeployLife DEF Registered
<1>12. CASE Seed(k)
  <2>1. /\ \/ GoOn(k, "stamp") /\ UNCHANGED data /\ (k \in Envs => dep[k].done)
           \/ GoOn(k, "flag") /\ data' = [data EXCEPT ![k] = "seeded"]
           \/ End(k) /\ UNCHANGED <<budget, data>>
        /\ UNCHANGED <<reg, job, lapsed>> /\ dep[k].at = "seed"
    BY <1>12 DEF Seed, At
  <2>2. /\ \A j \in Keys \ {k} : data'[j] = data[j]
        /\ data[k] = "seeded" => data'[k] = "seeded"
        /\ k \in Envs => End(k) \/ data'[k] = "seeded"
    BY <1>1, <1>3, <2>1 DEF TypeOK, Honest
  <2>3. k \in Envs => Honest(k)'
    BY <1>1, <1>2, <1>3, <1>4, <2>1, <2>2, GoOnLife DEF Honest, Registered
  <2>4. Quiet' /\ \A j \in Keys \ {k} : dep'[j] = dep[j]
    BY <1>1, <1>4, <2>1, GoOnLife DEF Quiet
  <2> QED  BY <1>1, <1>3, <2>1, <2>2, <2>3, <2>4, DeployLife DEF Registered
<1>13. CASE Flag(k)
  <2>1. GoOn(k, "stamp") /\ UNCHANGED <<data, job, lapsed>> /\ dep[k].at = "flag"
    BY <1>13 DEF Flag, At
  <2>2. /\ \A j \in Keys \ {k} : reg'[j] = reg[j]
        /\ k \in Envs => data[k] = "seeded"
    BY <1>1, <1>3, <1>13, <2>1 DEF Flag, SetDone, Honest, TypeOK
  <2>3. Registered(k) => Registered(k)' /\ reg'[k].stale = reg[k].stale
    <3>1. Registered(k) => reg'[k] = [reg[k] EXCEPT !.done = TRUE]
                           /\ [reg[k] EXCEPT !.done = TRUE] \in Row
      BY <1>1, <1>5, <1>13 DEF Flag, SetDone, TypeOK, Row
    <3> QED  BY <1>5, <3>1, EnvironmentsAssumption DEF Registered, Row
  <2>4. k \in Envs => Honest(k)'
    BY <1>1, <1>3, <2>1, <2>2, GoOnLife DEF Honest
  <2> QED  BY <1>1, <1>3, <2>1, <2>2, <2>3, <2>4, GoOnLife, DeployLife
<1>14. CASE Stamp(k)
  <2>1. /\ UNCHANGED <<data, job>> /\ dep[k].at = "stamp"
        /\ dep' = [dep EXCEPT ![k].at = "record"]
        /\ \A j \in Keys \ {k} : dep'[j] = dep[j] /\ reg'[j] = reg[j]
    BY <1>1, <1>14 DEF Stamp, At, TypeOK
  <2>2. Quiet'
    BY <1>1, <1>14, SpendQuiet DEF Stamp, Quiet
  <2>3. k \in Envs => data[k] = "seeded"
    BY <1>1, <1>3, <2>1 DEF Honest
  <2>4. dep'[k].at = "record"
    BY <1>1, <2>1 DEF TypeOK, Deploy
  <2>5. k \in Envs => Honest(k)'
    BY <2>1, <2>3, <2>4 DEF Honest
  <2>6. lapsed' \subseteq lapsed /\ (k \in lapsed' => UNCHANGED reg)
    BY <1>14 DEF Stamp
  <2> QED  BY <1>1, <1>3, <2>1, <2>2, <2>5, <2>6, DeployLife DEF Registered
<1>15. CASE Record(k)
  <2>1. End(k) /\ UNCHANGED <<reg, data, job, lapsed, budget>>
    BY <1>15 DEF Record
  <2>2. Quiet' /\ (k \in Envs => Honest(k)')
    BY <1>1, <1>2, <1>3, <1>4, <2>1 DEF Honest, Registered, Quiet
  <2> QED  BY <1>1, <1>3, <1>4, <2>1, <2>2, DeployLife DEF Registered
<1> QED
  BY <1>6, <1>7, <1>8, <1>9, <1>10, <1>11, <1>12, <1>13, <1>14, <1>15 DEF DeployStep

\* A step of a worker, seen from its key and from the others.
LEMMA WorkLife ==
    ASSUME Inv, LifeInv, NEW w \in Workers, UNCHANGED dep, Quiet',
           NEW k \in Keys, job[w] # None, job[w].key = k,
           job[w].at # "look", lapsed' \subseteq lapsed,
           \A v \in Workers \ {w} : job'[v] = job[v],
           \A j \in Keys \ {k} : reg'[j] = reg[j] /\ data'[j] = data[j],
           Registered(k)' => Registered(k) /\ reg'[k].stale = reg[k].stale,
           job'[w] # None => job'[w].key = k /\ job'[w].at # "look",
           k \in Envs /\ Registered(k)' /\ reg'[k].done =>
               \/ Emptying(w, k)'
               \/ reg[k].done /\ ~Emptying(w, k) /\ data'[k] = data[k],
           data'[k] = data[k] \/ dep[k] = None,
           k \in lapsed' => Registered(k)'
    PROVE  LifeInv'
<1>1. ASSUME NEW j \in Envs
      PROVE  Honest(j)'
  <2>1. CASE j = k
    BY <2>1, EnvironmentsAssumption DEF LifeInv, Honest, Emptying, Past, Registered
  <2>2. CASE j # k
    BY <2>2, EnvironmentsAssumption DEF LifeInv, Honest, Emptying, Past, Registered
  <2> QED  BY <2>1, <2>2
<1>2. Reaping'
  <2>1. \A j \in lapsed' : j \in Keys
    BY EnvironmentsAssumption DEF Inv, TypeOK
  <2>2. job[Reaper] # None => job[Reaper].key \in Keys /\ job[Reaper].at \in Steps
    BY DEF Inv, TypeOK, Job, Workers
  <2>3. Past(Reaper, Steps \ {"look"})' => Past(Reaper, Steps \ {"look"})
    BY <2>2 DEF Past, Workers
  <2>4. ASSUME Past(Reaper, Steps \ {"look"})', Registered(job[Reaper].key)'
        PROVE  reg'[job'[Reaper].key].stale
    <3>1. job'[Reaper] # None /\ job'[Reaper].key = job[Reaper].key
      BY <2>4 DEF Past, Workers
    <3> QED  BY <2>2, <2>3, <2>4, <3>1 DEF LifeInv, Reaping, Registered, Past
  <2>5. \A j \in lapsed' : Registered(j)' /\ reg'[j].stale
    BY <2>1 DEF LifeInv, Reaping, Registered
  <2> QED  BY <2>4, <2>5 DEF Reaping
<1> QED  BY <1>1, <1>2 DEF LifeInv

\* Nothing cuts a worker's step short.
LEMMA ThenLife ==
    ASSUME TypeOK, Quiet, NEW w \in Workers, job[w] # None, NEW step \in Steps, Then(w, step)
    PROVE  /\ \A v \in Workers \ {w} : job'[v] = job[v]
           /\ job'[w] # None /\ job'[w].at = step /\ job'[w].key = job[w].key
           /\ Quiet'
<1>1. ~Spend({"broken"})
  BY SpendQuiet
<1>2. job' = [job EXCEPT ![w].at = step] /\ UNCHANGED budget
  BY <1>1 DEF Then
<1>3. job[w] \in Job /\ [job[w] EXCEPT !.at = step] \in Job
  BY DEF TypeOK, Job
<1>4. job'[w] = [job[w] EXCEPT !.at = step]
  BY <1>2 DEF TypeOK
<1>5. job'[w] # None
  BY <1>3, <1>4, EnvironmentsAssumption
<1>6. job'[w].at = step /\ job'[w].key = job[w].key
  BY <1>3, <1>4 DEF Job
<1> QED  BY <1>2, <1>5, <1>6 DEF TypeOK, Quiet

\* The steps of a removal and of a reset.
LEMMA WorkStepLife ==
    ASSUME Inv, LifeInv, NEW w \in Workers, WorkStep(w)
    PROVE  LifeInv'
<1> USE DEF hostVars, sweepVars
<1>0. /\ job[w] # None /\ job[w] \in Job /\ job[w].key \in Keys /\ TypeOK /\ Quiet
      /\ job[w].at # "look" /\ UNCHANGED dep
      /\ \A k \in lapsed : Registered(k)
  BY DEF WorkStep, Get, Check, Down, Unroute, Cleanup, DropOverride, DropRows,
         Unregister, Unflag, Doing, Inv, TypeOK, Job, LifeInv, Reaping
<1> PICK k \in Keys : k = job[w].key
  BY <1>0
<1>1. /\ job[w] # None /\ job[w] \in Job /\ job[w].key = k /\ TypeOK /\ Quiet
      /\ job[w].at # "look" /\ UNCHANGED dep
      /\ k \in lapsed => Registered(k)
  BY <1>0
<1>2. Committed(w) => dep[k] = None
  BY <1>1 DEF Inv, Rest, Exclusion
<1>3. \A step \in Steps : Then(w, step) =>
          /\ \A v \in Workers \ {w} : job'[v] = job[v]
          /\ job'[w] # None /\ job'[w].at = step /\ job'[w].key = k
          /\ Quiet'
  BY <1>1, ThenLife
<1>4. Leave(w) => job'[w] = None /\ \A v \in Workers \ {w} : job'[v] = job[v]
  BY <1>1 DEF Leave, TypeOK
<1>5. Registered(k) => reg[k] \in Row /\ reg[k] # None
  BY <1>1, RowType DEF Registered
<1>6. CASE Get(w) \/ Check(w)
  <2>1. /\ UNCHANGED <<reg, data, lapsed, budget>>
        /\ job[w].at \in {"get", "check"}
        /\ \/ Leave(w)
           \/ /\ Registered(k)
              /\ job' = [job EXCEPT ![w].at = "check", ![w].was = reg[k].conf]
           \/ job' = [job EXCEPT ![w].at = "down"]
    BY <1>6 DEF Get, Check, Doing
  <2>2. /\ \A v \in Workers \ {w} : job'[v] = job[v]
        /\ job'[w] # None => job'[w].key = k /\ job'[w].at # "look"
    BY <1>1, <1>4, <2>1 DEF TypeOK, Job
  <2>3. ~Emptying(w, k) /\ Quiet'
    BY <1>1, <2>1 DEF Emptying, Past, Quiet
  <2> QED  BY <1>1, <2>1, <2>2, <2>3, WorkLife DEF Registered
<1>7. CASE Down(w)
  <2>1. /\ UNCHANGED <<reg, lapsed>> /\ Committed(w)
        /\ Then(w, "unflag") \/ Then(w, "unroute")
        /\ \A j \in Keys \ {k} : data'[j] = data[j]
    BY <1>1, <1>7 DEF Down, Doing, Committed, TypeOK
  <2>2. /\ \A v \in Workers \ {w} : job'[v] = job[v]
        /\ job'[w] # None /\ job'[w].key = k /\ job'[w].at \in {"unflag", "unroute"}
        /\ Quiet'
    BY <1>3, <2>1 DEF Steps
  <2>3. Emptying(w, k)'
    BY <2>2 DEF Emptying, Past
  <2> QED  BY <1>1, <1>2, <2>1, <2>2, <2>3, WorkLife DEF Registered
<1>8. CASE Unroute(w) \/ Cleanup(w) \/ DropOverride(w) \/ DropRows(w)
  <2>1. /\ UNCHANGED <<reg, data, lapsed>>
        /\ \E step \in {"cleanup", "override", "rows", "unregister"} : Then(w, step)
    BY <1>8 DEF Unroute, Cleanup, DropOverride, DropRows
  <2>2. /\ \A v \in Workers \ {w} : job'[v] = job[v]
        /\ job'[w] # None /\ job'[w].key = k
        /\ job'[w].at \in {"cleanup", "override", "rows", "unregister"}
        /\ Quiet'
    BY <1>3, <2>1 DEF Steps
  <2>3. Emptying(w, k)'
    BY <2>2 DEF Emptying, Past
  <2> QED  BY <1>1, <2>1, <2>2, <2>3, WorkLife DEF Registered
<1>9. CASE Unregister(w)
  <2>1. /\ UNCHANGED <<data, budget>> /\ Leave(w) /\ lapsed' = lapsed \ {k}
        /\ reg'[k] = None /\ \A j \in Keys \ {k} : reg'[j] = reg[j]
    BY <1>1, <1>9 DEF Unregister, TypeOK
  <2>2. Quiet'
    BY <1>1, <2>1 DEF Quiet
  <2> QED  BY <1>1, <1>4, <2>1, <2>2, WorkLife DEF Registered
<1>10. CASE Unflag(w)
  <2>1. /\ UNCHANGED <<data, lapsed, budget>> /\ Leave(w)
        /\ \A j \in Keys \ {k} : reg'[j] = reg[j]
        /\ reg'[k] = IF Registered(k) THEN [reg[k] EXCEPT !.done = FALSE] ELSE reg[k]
    BY <1>1, <1>10 DEF Unflag, SetDone, TypeOK
  <2>2. /\ Registered(k)' <=> Registered(k)
        /\ Registered(k) => ~reg'[k].done /\ reg'[k].stale = reg[k].stale
    <3>1. Registered(k) => [reg[k] EXCEPT !.done = FALSE] \in Row
      BY <1>5 DEF Row
    <3>2. Registered(k)' <=> Registered(k)
      BY <2>1, <3>1, EnvironmentsAssumption DEF Registered
    <3>3. Registered(k) => reg'[k].done = FALSE /\ reg'[k].stale = reg[k].stale
      BY <1>5, <2>1 DEF Row
    <3> QED  BY <3>2, <3>3
  <2>3. Quiet'
    BY <1>1, <2>1 DEF Quiet
  <2> QED  BY <1>1, <1>4, <2>1, <2>2, <2>3, WorkLife
<1> QED  BY <1>6, <1>7, <1>8, <1>9, <1>10 DEF WorkStep

\* Every step keeps both.
LEMMA NextLife ==
    ASSUME Inv, LifeInv, [Next]_vars
    PROVE  LifeInv'
<1> USE DEF hostVars, sweepVars
<1>1. TypeOK /\ Quiet /\ Reaper \in Workers
  BY DEF Inv, LifeInv, Workers
<1>2. ASSUME NEW k \in Keys, NEW c \in Asks[k], Submit(k, c)
      PROVE  LifeInv'
  <2>1. /\ Quiet' /\ UNCHANGED <<reg, data, job, lapsed>>
        /\ dep'[k] = [at |-> "register", ask |-> c, port |-> None, done |-> FALSE]
        /\ \A j \in Keys \ {k} : dep'[j] = dep[j]
    BY <1>1, <1>2, SpendQuiet DEF Submit, TypeOK
  <2>2. Reaping'
    BY <2>1 DEF LifeInv, Reaping, Registered, Past
  <2>3. ASSUME NEW j \in Envs PROVE Honest(j)'
    <3>1. Honest(j) /\ j \in Keys
      BY EnvironmentsAssumption DEF LifeInv
    <3>2. dep'[k].at = "register" /\ dep'[k].done = FALSE
      BY <2>1
    <3> QED  BY <2>1, <3>1, <3>2 DEF Honest, Registered, Emptying, Past
  <2> QED  BY <2>1, <2>2, <2>3 DEF LifeInv
<1>3. ASSUME NEW k \in Keys, DeployStep(k) \/ Abort(k)
      PROVE  LifeInv'
  BY <1>3, StageLife
<1>4. ASSUME NEW k \in Keys, Age(k)
      PROVE  LifeInv'
  <2>1. /\ Quiet' /\ UNCHANGED <<dep, data, job, lapsed>> /\ Registered(k)
        /\ reg'[k] = [reg[k] EXCEPT !.stale = TRUE]
        /\ \A j \in Keys \ {k} : reg'[j] = reg[j]
    BY <1>1, <1>4, SpendQuiet DEF Age, TypeOK
  <2>2. reg[k] \in Row /\ [reg[k] EXCEPT !.stale = TRUE] \in Row
    BY <1>1, <2>1, RowType DEF Row
  <2>3. reg'[k] # None /\ reg'[k].stale /\ reg'[k].done = reg[k].done
    BY <2>1, <2>2, EnvironmentsAssumption DEF Row
  <2>4. ASSUME NEW j \in Envs PROVE Honest(j)'
    <3>1. Honest(j) /\ j \in Keys
      BY EnvironmentsAssumption DEF LifeInv
    <3> QED  BY <2>1, <2>3, <3>1 DEF Honest, Registered, Emptying, Past
  <2>5. Reaping'
    <3>1. job[Reaper] # None => job[Reaper].key \in Keys
      BY <1>1 DEF TypeOK, Job
    <3>2. \A j \in lapsed : j \in Keys
      BY <1>1, EnvironmentsAssumption DEF TypeOK
    <3> QED  BY <2>1, <2>3, <3>1, <3>2 DEF LifeInv, Reaping, Registered, Past
  <2> QED  BY <2>1, <2>4, <2>5 DEF LifeInv
<1>5. ASSUME NEW w \in Operators, NEW k \in Keys, NEW p \in {"rm", "destroy", "reset"},
             Begin(w, k, p)
      PROVE  LifeInv'
  <2>1. /\ Quiet' /\ UNCHANGED <<reg, dep, data, lapsed>> /\ job[w] = None /\ w # Reaper
        /\ \A v \in Workers \ {w} : job'[v] = job[v]
    BY <1>1, <1>5, SpendQuiet, EnvironmentsAssumption DEF Begin, TypeOK
  <2>2. Reaping'
    BY <1>1, <2>1 DEF LifeInv, Reaping, Registered, Past
  <2>3. ASSUME NEW j \in Envs PROVE Honest(j)'
    BY <2>1 DEF LifeInv, Honest, Registered, Emptying, Past
  <2> QED  BY <2>1, <2>2, <2>3 DEF LifeInv
<1>6. ASSUME NEW w \in Workers, Break(w)
      PROVE  LifeInv'
  BY <1>1, <1>6, SpendQuiet DEF Break
<1>7. ASSUME NEW w \in Workers, WorkStep(w)
      PROVE  LifeInv'
  BY <1>7, WorkStepLife
<1>8. CASE ReaperStep
  <2>1. /\ UNCHANGED <<reg, dep, data, budget>> /\ Quiet'
        /\ \A v \in Workers \ {Reaper} : job'[v] = job[v]
        /\ job[Reaper] = None \/ job[Reaper].at = "look"
    BY <1>1, <1>8 DEF ReaperStep, Sweep, Visit, Look, Doing, Leave, TypeOK, Quiet
  <2>2. ASSUME NEW j \in Envs PROVE Honest(j)'
    BY <2>1 DEF LifeInv, Honest, Registered, Emptying, Past
  <2>3. Reaping'
    <3>1. CASE Sweep
      BY <2>1, <3>1 DEF Sweep, Expired, LifeInv, Reaping, Registered, Past
    <3>2. ASSUME NEW k \in Envs, Visit(k)
          PROVE  Reaping'
      <4>1. /\ lapsed' \subseteq lapsed
            /\ job'[Reaper] = None \/ job'[Reaper].at = "look"
        BY <1>1, <3>2 DEF Visit, TypeOK
      <4> QED  BY <2>1, <4>1 DEF LifeInv, Reaping, Registered, Past
    <3>3. CASE Look
      <4>1. /\ lapsed' \subseteq lapsed /\ job[Reaper] \in Job
            /\ \/ job'[Reaper] = None
               \/ /\ job[Reaper].key \in lapsed
                  /\ job'[Reaper] = [job[Reaper] EXCEPT !.at = "get"]
        BY <1>1, <3>3 DEF Look, Doing, Leave, TypeOK
      <4>2. job'[Reaper] # None => job'[Reaper].key = job[Reaper].key
        BY <4>1 DEF Job
      <4> QED  BY <2>1, <4>1, <4>2 DEF LifeInv, Reaping, Registered, Past
    <3> QED  BY <1>8, <3>1, <3>2, <3>3 DEF ReaperStep
  <2> QED  BY <2>1, <2>2, <2>3 DEF LifeInv
<1>9. CASE Crash
  BY <1>1, <1>9, SpendQuiet DEF Crash
<1>10. CASE UNCHANGED vars
  BY <1>10 DEF vars, LifeInv, Quiet, Honest, Reaping, Registered, Emptying, Past
<1> QED
  BY <1>2, <1>3, <1>4, <1>5, <1>6, <1>7, <1>8, <1>9, <1>10 DEF Next

LEMMA LifeHolds == Unbroken => (Spec => [](Inv /\ LifeInv))
<1> SUFFICES ASSUME Unbroken
             PROVE  Spec => [](Inv /\ LifeInv)
  OBVIOUS
<1>1. Init => Inv /\ LifeInv
  BY InitInv, InitLife DEF Unbroken
<1>2. Inv /\ LifeInv /\ [Next]_vars => (Inv /\ LifeInv)'
  BY NextInv, NextLife DEF Unbroken
<1> QED  BY <1>1, <1>2, PTL DEF Spec

\* Where removals and resets run to their end, a deployment of an environment
\* only succeeds on volumes that its on_create has seeded, for any number of
\* environments, workers and failed deployments.
THEOREM SuccessSeeded == Unbroken => (Spec => []SuccessIsSeeded)
<1>1. Inv /\ LifeInv => SuccessIsSeeded
  BY DEF LifeInv, Honest, SuccessIsSeeded, At
<1> QED  BY <1>1, LifeHolds, PTL

\* There the reaper never takes down an environment that has been deployed
\* again since its sweep began.
THEOREM OnlyExpiredReaped == Unbroken => (Spec => []ReapsOnlyExpired)
<1>1. Inv /\ LifeInv => ReapsOnlyExpired
  BY DEF LifeInv, Reaping, ReapsOnlyExpired, Doing, Past, Steps
<1> QED  BY <1>1, LifeHolds, PTL
=============================================================================
