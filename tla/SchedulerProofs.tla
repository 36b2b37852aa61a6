-------------------------- MODULE SchedulerProofs --------------------------
(***************************************************************************)
(* Proofs about Scheduler, for any deployments, keys and budget.           *)
(*                                                                         *)
(* TypeOK is inductive with VerdictKnown alone.  The safety properties are *)
(* not: that no two runs of a key overlap needs to know where every        *)
(* deployment is that is not running.  Custody is the strengthening: a     *)
(* deployment that has entered the queue is in at most one place, one that *)
(* has not is in none, whoever still has a final status to write finds the *)
(* row without one, and nobody has been told the end of a deployment that  *)
(* may yet start.                                                          *)
(***************************************************************************)
EXTENDS Scheduler, FiniteSetTheorems, TLAPS

\* The deployment's submit handler has been past the lock on the slots.
Entered(d) == req[d] \in {"replacing", "replaced", "answered", "lost"}

\* Its cancel handler has taken it out of the queue.
Taken(d) == cxl[d] \in {"taking", "taken", "detached"}

\* It waits behind the run of its own key, and nobody else has it.
QueueCustody ==
    \A p \in Projects : pending[p] # None =>
        LET d == pending[p] IN
        /\ running[p] # None
        /\ ProjectOf[d] = p
        /\ Entered(d) /\ run[d] = "none" /\ ~Taken(d)
        /\ row[d] \notin Terminal

\* A replaced deployment belongs to the one handler that replaced it.
ReplacedCustody ==
    \A x \in Deploys :
        /\ req[x] = "replacing" => old[x] # None /\ row[old[x]] \notin Terminal
        /\ old[x] # None =>
            LET d == old[x] IN
            /\ req[x] \in {"replacing", "replaced"}
            /\ Entered(d) /\ run[d] = "none" /\ ~Taken(d)
            /\ pending[ProjectOf[d]] # d
            /\ \A y \in Deploys : old[y] = d => y = x

\* A canceled one never ran, and its row is still to be written.
TakenCustody ==
    \A d \in Deploys : Taken(d) =>
        /\ Entered(d) /\ run[d] = "none"
        /\ cxl[d] # "taken" => row[d] \notin Terminal

\* A run holds its key's slot, and until it records its row is not final.
RunCustody ==
    /\ OneRunPerKey
    /\ \A p \in Projects : running[p] # None => ProjectOf[running[p]] = p
    /\ \A d \in Deploys :
        /\ run[d] # "none" => Entered(d)
        /\ run[d] \in {"spawned", "stages", "ended"} => row[d] \notin Terminal

\* Before it enters, a deployment's row is not final, or not there.
NotYetIn ==
    \A d \in Deploys :
        /\ req[d] \in {"idle", "inserting"} => row[d] = "none"
        /\ req[d] = "inserted" => row[d] \notin Terminal

\* A process that is down has nothing in memory.
DownIsEmpty ==
    ~up => \A d \in Deploys :
                /\ run[d] \in {"none", "gone"}
                /\ cxl[d] = "idle"
                /\ old[d] = None
                /\ req[d] \in {"idle", "answered", "rejected", "lost"}
                /\ pending[ProjectOf[d]] # d

\* Until it starts, a deployment's stream is open and no viewer was sent an end.
Unseen ==
    \A d \in Deploys :
        /\ req[d] = "idle" => told[d] = {}
        /\ req[d] \in {"inserting", "inserted"} \/ pending[ProjectOf[d]] = d
              => d \in stream /\ told[d] = {}

Custody == /\ QueueCustody
           /\ ReplacedCustody
           /\ TakenCustody
           /\ RunCustody
           /\ NotYetIn
           /\ DownIsEmpty
           /\ Unseen

\* A run whose stages are over has decided what to record.
VerdictKnown ==
    \A d \in Deploys : run[d] \in {"ended", "recorded"} => verdict[d] # "none"

Types == TypeOK /\ VerdictKnown

Inv == Types /\ Custody
-----------------------------------------------------------------------------
(* What the helpers do, stated once.                                       *)

\* Spending an event leaves a spent.
LEMMA SpendType ==
    ASSUME spent \in [Kinds -> Nat], NEW k \in Kinds, Spend(k)
    PROVE  spent' \in [Kinds -> Nat]
BY DEF Spend

\* Closing a stream keeps the types of the hub and its viewers.
LEMMA CloseType ==
    ASSUME stream \in SUBSET Deploys, told \in [Deploys -> SUBSET Terminal],
           NEW d, NEW status \in Terminal, Close(d, status)
    PROVE  stream' \in SUBSET Deploys /\ told' \in [Deploys -> SUBSET Terminal]
BY DEF Close

\* A final write touches the one row, and only with the final status.
LEMMA WriteFinalEffect ==
    ASSUME RowTypeOK, spent \in [Kinds -> Nat],
           NEW d \in Deploys, NEW status \in Terminal, WriteFinal(d, status)
    PROVE  /\ RowTypeOK'
           /\ spent' \in [Kinds -> Nat]
           /\ row'[d] \in {row[d], status}
           /\ \A x \in Deploys : x # d => row'[x] = row[x]
<1>1. CASE RecordFinished(d, status) /\ UNCHANGED spent
  BY <1>1 DEF RecordFinished, RowTypeOK, Statuses
<1>2. CASE Spend("storage") /\ UNCHANGED row
  BY <1>2, SpendType DEF RowTypeOK, Kinds
<1>3. CASE UNCHANGED <<row, spent>>
  BY <1>3 DEF RowTypeOK
<1>. QED BY <1>1, <1>2, <1>3 DEF WriteFinal

\* Its type, whatever it is asked to write to.
LEMMA WriteFinalType ==
    ASSUME RowTypeOK, spent \in [Kinds -> Nat],
           NEW d, NEW status \in Terminal, WriteFinal(d, status)
    PROVE  RowTypeOK' /\ spent' \in [Kinds -> Nat]
<1>1. CASE RecordFinished(d, status) /\ UNCHANGED spent
  BY <1>1 DEF RecordFinished, RowTypeOK, Statuses
<1>2. CASE Spend("storage") /\ UNCHANGED row
  BY <1>2, SpendType DEF RowTypeOK, Kinds
<1>3. CASE UNCHANGED <<row, spent>>
  BY <1>3 DEF RowTypeOK
<1>. QED BY <1>1, <1>2, <1>3 DEF WriteFinal

\* Queueing a row: the new one says queued, others stay or are pruned.
LEMMA RecordQueuedEffect ==
    ASSUME RowTypeOK, NEW d \in Deploys, RecordQueued(d) \/ InsertOnly(d)
    PROVE  /\ RowTypeOK'
           /\ row'[d] = "queued"
           /\ \A x \in Deploys : x # d => row'[x] \in {row[x], "none"}
<1>1. CASE RecordQueued(d)
  <2>. PICK gone \in Expired(ProjectOf[d]) :
         row' = [x \in Deploys |-> IF x = d THEN "queued"
                                  ELSE IF x \in gone THEN "none" ELSE row[x]]
    BY <1>1 DEF RecordQueued
  <2>. QED BY DEF RowTypeOK, Statuses, Active
<1>2. CASE InsertOnly(d)
  BY <1>2 DEF InsertOnly, RowTypeOK, Statuses, Active
<1>. QED BY <1>1, <1>2
-----------------------------------------------------------------------------
(* Type correctness.                                                       *)

LEMMA TypeInit == Init => Types
BY HistoryAssumption, SchedulerAssumption
   DEF Init, Types, TypeOK, VerdictKnown, HistoryInit, RowTypeOK, ReqStates,
       RunStates, CancelStates

\* The submit handler keeps the types.
LEMMA TypeSubmit ==
    ASSUME Types, NEW d \in Deploys,
           Submit(d) \/ SubmitStep(d) \/ DropSubmit(d)
    PROVE  Types'
<1>. USE HistoryAssumption, SchedulerAssumption
         DEF Types, TypeOK, VerdictKnown, ReqStates, slotVars, runVars, reqVars, hubVars, sysVars
<1>1. CASE Submit(d)
  BY <1>1 DEF Submit, RowTypeOK
<1>2. CASE InsertRow(d)
  <2>1. RowTypeOK'
    BY <1>2, RecordQueuedEffect DEF InsertRow, RowTypeOK
  <2>2. spent' \in [Kinds -> Nat]
    BY <1>2, SpendType DEF InsertRow, Kinds
  <2>. QED BY <1>2, <2>1, <2>2 DEF InsertRow, Resume
<1>3. CASE Refuse(d)
  <2>1. stream' \in SUBSET Deploys /\ told' \in [Deploys -> SUBSET Terminal]
    BY <1>3, CloseType, "failed" \in Terminal DEF Refuse, Terminal
  <2>. QED BY <1>3, <2>1 DEF Refuse, RowTypeOK
<1>4. CASE StartNow(d)
  BY <1>4 DEF StartNow, RowTypeOK, RunStates
<1>5. CASE Replace(d)
  BY <1>5 DEF Replace, RowTypeOK
<1>6. CASE RecordSuperseded(d)
  <2>1. RowTypeOK' /\ spent' \in [Kinds -> Nat]
    BY <1>6, WriteFinalType DEF RecordSuperseded, Terminal
  <2>. QED BY <1>6, <2>1 DEF RecordSuperseded, Resume
<1>7. CASE CloseSuperseded(d)
  <2>1. stream' \in SUBSET Deploys /\ told' \in [Deploys -> SUBSET Terminal]
    BY <1>7, CloseType DEF CloseSuperseded, Terminal
  <2>. QED BY <1>7, <2>1 DEF CloseSuperseded, RowTypeOK
<1>8. CASE DropSubmit(d)
  <2>1. spent' \in [Kinds -> Nat]
    BY <1>8, SpendType DEF DropSubmit, Kinds
  <2>. QED BY <1>8, <2>1 DEF DropSubmit, RowTypeOK
<1>. QED
  BY <1>1, <1>2, <1>3, <1>4, <1>5, <1>6, <1>7, <1>8 DEF SubmitStep

\* The run of a deployment keeps the types.
LEMMA TypeRun ==
    ASSUME Types, NEW d \in Deploys, RunStep(d) \/ Panic(d)
    PROVE  Types'
<1>. USE HistoryAssumption, SchedulerAssumption
         DEF Types, TypeOK, VerdictKnown, RunStates, slotVars, runVars, reqVars, hubVars, sysVars
<1>1. CASE StartRun(d)
  <2>1. RowTypeOK'
    BY <1>1 DEF StartRun, MarkRunning, RowTypeOK, Statuses, Active
  <2>2. spent' \in [Kinds -> Nat]
    BY <1>1, SpendType DEF StartRun, Kinds
  <2>. QED BY <1>1, <2>1, <2>2 DEF StartRun, Verdicts
<1>2. CASE EndStages(d)
  BY <1>2 DEF EndStages, RowTypeOK, Verdicts
<1>3. CASE Panic(d)
  <2>1. spent' \in [Kinds -> Nat]
    BY <1>3, SpendType DEF Panic, Kinds
  <2>2. stream' \in SUBSET Deploys /\ told' \in [Deploys -> SUBSET Terminal]
    BY <1>3, CloseType DEF Panic, Terminal
  <2>. QED BY <1>3, <2>1, <2>2 DEF Panic, RowTypeOK
<1>. Verdicts \subseteq Terminal
  BY DEF Verdicts, Terminal
<1>4. CASE RecordVerdict(d)
  <2>1. verdict[d] \in Terminal
    BY <1>4 DEF RecordVerdict
  <2>2. RowTypeOK' /\ spent' \in [Kinds -> Nat]
    BY <1>4, <2>1, WriteFinalType DEF RecordVerdict
  <2>. QED BY <1>4, <2>2 DEF RecordVerdict
<1>5. CASE CloseRun(d)
  <2>1. verdict[d] \in Terminal
    BY <1>5 DEF CloseRun
  <2>2. stream' \in SUBSET Deploys /\ told' \in [Deploys -> SUBSET Terminal]
    BY <1>5, <2>1, CloseType DEF CloseRun
  <2>. QED BY <1>5, <2>2 DEF CloseRun, RowTypeOK
<1>6. CASE NextInLine(d)
  BY <1>6 DEF NextInLine, RowTypeOK
<1>. QED
  BY <1>1, <1>2, <1>3, <1>4, <1>5, <1>6 DEF RunStep

\* The cancel handler keeps the types.
LEMMA TypeCancel ==
    ASSUME Types, NEW d \in Deploys,
           CancelRead(d) \/ CancelStep(d) \/ DropCancel(d)
    PROVE  Types'
<1>. USE HistoryAssumption, SchedulerAssumption
         DEF Types, TypeOK, VerdictKnown, CancelStates, slotVars, runVars,
             reqVars, hubVars, sysVars
<1>1. CASE CancelRead(d)
  <2>1. spent' \in [Kinds -> Nat]
    BY <1>1, SpendType DEF CancelRead, Kinds
  <2>. QED BY <1>1, <2>1 DEF CancelRead, RowTypeOK
<1>2. CASE CancelQueued(d)
  BY <1>2 DEF CancelQueued, RowTypeOK
<1>3. CASE CancelElse(d)
  BY <1>3 DEF CancelElse, RowTypeOK
<1>4. CASE RecordCanceled(d)
  <2>1. RowTypeOK' /\ spent' \in [Kinds -> Nat]
    BY <1>4, WriteFinalType DEF RecordCanceled, Terminal
  <2>. QED BY <1>4, <2>1 DEF RecordCanceled
<1>5. CASE CloseCanceled(d)
  <2>1. stream' \in SUBSET Deploys /\ told' \in [Deploys -> SUBSET Terminal]
    BY <1>5, CloseType DEF CloseCanceled, Terminal
  <2>. QED BY <1>5, <2>1 DEF CloseCanceled, RowTypeOK
<1>6. CASE DropCancel(d)
  <2>1. spent' \in [Kinds -> Nat]
    BY <1>6, SpendType DEF DropCancel, Kinds
  <2>. QED BY <1>6, <2>1 DEF DropCancel, RowTypeOK
<1>. QED
  BY <1>1, <1>2, <1>3, <1>4, <1>5, <1>6 DEF CancelStep

\* Removals, viewers and the process keep the types.
LEMMA TypeSystem ==
    ASSUME Types,
           \/ \E p \in Projects : RemoveCheck(p) \/ RemoveRows(p)
           \/ \E d \in Deploys : ViewPast(d)
           \/ Crash \/ Startup
    PROVE  Types'
<1>. USE HistoryAssumption, SchedulerAssumption
         DEF Types, TypeOK, VerdictKnown, slotVars, runVars, reqVars, hubVars
<1>1. ASSUME NEW p \in Projects, RemoveCheck(p) PROVE Types'
  <2>1. spent' \in [Kinds -> Nat]
    BY <1>1, SpendType DEF RemoveCheck, Kinds
  <2>. QED BY <1>1, <2>1 DEF RemoveCheck, RowTypeOK
<1>2. ASSUME NEW p \in Projects, RemoveRows(p) PROVE Types'
  BY <1>2 DEF RemoveRows, RowTypeOK
<1>3. ASSUME NEW d \in Deploys, ViewPast(d) PROVE Types'
  <2>1. spent' \in [Kinds -> Nat]
    BY <1>3, SpendType DEF ViewPast, Kinds
  <2>2. told' \in [Deploys -> SUBSET Terminal]
    BY <1>3 DEF ViewPast, Terminal
  <2>. QED BY <1>3, <2>1, <2>2 DEF ViewPast, sysVars, RowTypeOK
<1>4. CASE Crash
  <2>1. spent' \in [Kinds -> Nat]
    BY <1>4, SpendType DEF Crash, Kinds
  <2>. QED
    BY <1>4, <2>1 DEF Crash, RowTypeOK, ReqStates, RunStates, CancelStates
<1>5. CASE Startup
  BY <1>5 DEF Startup, SweepInterrupted, RowTypeOK, Statuses, Active, Terminal
<1>. QED BY <1>1, <1>2, <1>3, <1>4, <1>5

LEMMA TypeNext == Types /\ [Next]_vars => Types'
<1>. SUFFICES ASSUME Types, [Next]_vars PROVE Types'
  OBVIOUS
<1>1. CASE UNCHANGED vars
  BY <1>1 DEF vars, slotVars, runVars, reqVars, hubVars, sysVars, Types,
              TypeOK, VerdictKnown, RowTypeOK
<1>2. CASE Next
  BY <1>2, TypeSubmit, TypeRun, TypeCancel, TypeSystem DEF Next
<1>. QED BY <1>1, <1>2

\* Every variable of the scheduler, its handlers, its runs and the history
\* keeps to the values the code can give it.
THEOREM TypeCorrect == Spec => []TypeOK
<1>1. Types => TypeOK
  BY DEF Types
<1>. QED BY <1>1, TypeInit, TypeNext, PTL DEF Spec
-----------------------------------------------------------------------------
(* Custody is inductive.  Each handler has one lemma and each of its actions *)
(* one step, preceded by what the action does to rows it did not choose.     *)

LEMMA CustodyInit == Init => Custody
BY HistoryAssumption, SchedulerAssumption
   DEF Init, HistoryInit, Custody, QueueCustody, ReplacedCustody, TakenCustody,
       RunCustody, OneRunPerKey, Live, NotYetIn, DownIsEmpty, Unseen, Entered,
       Taken

\* A submit handler: its deployment is in no place until it enters the queue,
\* and the one it replaces passes from the queue to the handler.
LEMMA CustodySubmit ==
    ASSUME Inv, NEW d \in Deploys,
           Submit(d) \/ SubmitStep(d) \/ DropSubmit(d)
    PROVE  Custody'
<1>. USE HistoryAssumption, SchedulerAssumption
         DEF Inv, Types, TypeOK, RowTypeOK, Active, Terminal, Custody,
             QueueCustody, ReplacedCustody, TakenCustody, RunCustody,
             OneRunPerKey, Live, NotYetIn, DownIsEmpty, Unseen, Entered, Taken,
             Close, slotVars, runVars, reqVars, hubVars, sysVars
<1>1. CASE Submit(d)
  BY <1>1 DEF Submit
<1>2. CASE InsertRow(d)
  <2>1. /\ row'[d] \in {row[d], "queued"}
        /\ \A x \in Deploys : x # d => row'[x] \in {row[x], "none"}
    BY <1>2, RecordQueuedEffect DEF InsertRow
  <2>. QED BY <1>2, <2>1 DEF InsertRow, Resume
<1>3. CASE Refuse(d)
  BY <1>3 DEF Refuse
<1>4. CASE StartNow(d)
  BY <1>4 DEF StartNow
<1>5. CASE Replace(d)
  BY <1>5 DEF Replace
<1>6. CASE RecordSuperseded(d)
  <2>1. old[d] \in Deploys
    BY <1>6 DEF RecordSuperseded
  <2>2. /\ row'[old[d]] \in {row[old[d]], "superseded"}
        /\ \A x \in Deploys : x # old[d] => row'[x] = row[x]
    BY <1>6, <2>1, WriteFinalEffect DEF RecordSuperseded
  <2>. QED BY <1>6, <2>1, <2>2 DEF RecordSuperseded, Resume
<1>7. CASE CloseSuperseded(d)
  BY <1>7, SMTT(30) DEF CloseSuperseded
<1>8. CASE DropSubmit(d)
  BY <1>8 DEF DropSubmit
<1>. QED
  BY <1>1, <1>2, <1>3, <1>4, <1>5, <1>6, <1>7, <1>8 DEF SubmitStep

\* A run: it has the slot until the next in line, if any, takes it over.
LEMMA CustodyRun ==
    ASSUME Inv, NEW d \in Deploys, RunStep(d) \/ Panic(d)
    PROVE  Custody'
<1>. USE HistoryAssumption, SchedulerAssumption
         DEF Inv, Types, TypeOK, RowTypeOK, Active, Terminal, Custody,
             QueueCustody, ReplacedCustody, TakenCustody, RunCustody,
             OneRunPerKey, Live, NotYetIn, DownIsEmpty, Unseen, Entered, Taken,
             Close, slotVars, runVars, reqVars, hubVars, sysVars
<1>1. CASE StartRun(d)
  BY <1>1 DEF StartRun, MarkRunning
<1>2. CASE EndStages(d)
  BY <1>2 DEF EndStages
<1>3. CASE Panic(d)
  BY <1>3 DEF Panic
<1>4. CASE RecordVerdict(d)
  <2>1. verdict[d] \in Terminal
    BY <1>4 DEF RecordVerdict, VerdictKnown, Verdicts
  <2>2. /\ row'[d] \in {row[d], verdict[d]}
        /\ \A x \in Deploys : x # d => row'[x] = row[x]
    BY <1>4, <2>1, WriteFinalEffect DEF RecordVerdict
  <2>. QED BY <1>4, <2>1, <2>2 DEF RecordVerdict
<1>5. CASE CloseRun(d)
  BY <1>5 DEF CloseRun
<1>6. CASE NextInLine(d)
  <2>. DEFINE next == pending[ProjectOf[d]]
  <2>1. ProjectOf[d] \in Projects /\ running[ProjectOf[d]] = d
    BY <1>6 DEF NextInLine
  <2>2. next # None => /\ next \in Deploys \ {d}
                       /\ run[next] = "none"
                       /\ ProjectOf[next] = ProjectOf[d]
    BY <1>6, <2>1 DEF NextInLine
  <2>. QED BY <1>6, <2>1, <2>2 DEF NextInLine
<1>. QED
  BY <1>1, <1>2, <1>3, <1>4, <1>5, <1>6 DEF RunStep

\* A cancel handler: what it takes out of the queue it keeps to itself.
LEMMA CustodyCancel ==
    ASSUME Inv, NEW d \in Deploys,
           CancelRead(d) \/ CancelStep(d) \/ DropCancel(d)
    PROVE  Custody'
<1>. USE HistoryAssumption, SchedulerAssumption
         DEF Inv, Types, TypeOK, RowTypeOK, Active, Terminal, Custody,
             QueueCustody, ReplacedCustody, TakenCustody, RunCustody,
             OneRunPerKey, Live, NotYetIn, DownIsEmpty, Unseen, Entered, Taken,
             Close, slotVars, runVars, reqVars, hubVars, sysVars
<1>1. CASE CancelRead(d)
  BY <1>1 DEF CancelRead
<1>2. CASE CancelQueued(d)
  BY <1>2 DEF CancelQueued
<1>3. CASE CancelElse(d)
  BY <1>3 DEF CancelElse
<1>4. CASE RecordCanceled(d)
  <2>1. /\ row'[d] \in {row[d], "canceled"}
        /\ \A x \in Deploys : x # d => row'[x] = row[x]
    BY <1>4, WriteFinalEffect DEF RecordCanceled
  <2>. QED BY <1>4, <2>1 DEF RecordCanceled
<1>5. CASE CloseCanceled(d)
  BY <1>5 DEF CloseCanceled
<1>6. CASE DropCancel(d)
  BY <1>6 DEF DropCancel
<1>. QED
  BY <1>1, <1>2, <1>3, <1>4, <1>5, <1>6 DEF CancelStep

\* Removals only take final rows away, a viewer looks at no open stream, and a
\* dead process owes nothing but the sweep.
LEMMA CustodySystem ==
    ASSUME Inv,
           \/ \E p \in Projects : RemoveCheck(p) \/ RemoveRows(p)
           \/ \E d \in Deploys : ViewPast(d)
           \/ Crash \/ Startup
    PROVE  Custody'
<1>. USE HistoryAssumption, SchedulerAssumption
         DEF Inv, Types, TypeOK, RowTypeOK, Active, Terminal, Custody,
             QueueCustody, ReplacedCustody, TakenCustody, RunCustody,
             OneRunPerKey, Live, NotYetIn, DownIsEmpty, Unseen, Entered, Taken,
             slotVars, runVars, reqVars, hubVars, sysVars
<1>1. ASSUME NEW p \in Projects, RemoveCheck(p) PROVE Custody'
  BY <1>1 DEF RemoveCheck
<1>2. ASSUME NEW p \in Projects, RemoveRows(p) PROVE Custody'
  BY <1>2 DEF RemoveRows
<1>3. ASSUME NEW d \in Deploys, ViewPast(d) PROVE Custody'
  BY <1>3 DEF ViewPast
<1>4. CASE Crash
  BY <1>4 DEF Crash, RunStates
<1>5. CASE Startup
  BY <1>5 DEF Startup, SweepInterrupted
<1>. QED BY <1>1, <1>2, <1>3, <1>4, <1>5

LEMMA CustodyNext == Inv /\ [Next]_vars => Custody'
<1>. SUFFICES ASSUME Inv, [Next]_vars PROVE Custody'
  OBVIOUS
<1>1. CASE UNCHANGED vars
  BY <1>1 DEF vars, slotVars, runVars, reqVars, hubVars, sysVars, Inv, Custody,
              QueueCustody, ReplacedCustody, TakenCustody, RunCustody,
              OneRunPerKey, Live, NotYetIn, DownIsEmpty, Unseen, Entered, Taken
<1>2. CASE Next
  BY <1>2, CustodySubmit, CustodyRun, CustodyCancel, CustodySystem DEF Next
<1>. QED BY <1>1, <1>2

\* The strengthened invariant holds in every state of every behaviour.
THEOREM InvHolds == Spec => []Inv
<1>1. Init => Inv
  BY TypeInit, CustodyInit DEF Inv
<1>2. Inv /\ [Next]_vars => Inv'
  BY TypeNext, CustodyNext DEF Inv
<1>. QED BY <1>1, <1>2, PTL DEF Spec
-----------------------------------------------------------------------------
(* The properties.                                                         *)

\* Two runs of one key never overlap, and its slot outlives its task only when
\* that panicked.
THEOREM OneRunHolds == Spec => []OneRunPerKey
<1>1. Inv => OneRunPerKey
  BY DEF Inv, Custody, RunCustody
<1>. QED BY <1>1, InvHolds, PTL

\* No deployment is ever left waiting behind an idle key.
THEOREM NoneWaitsHolds == Spec => []NoneWaitsForNobody
<1>1. Inv => NoneWaitsForNobody
  BY DEF Inv, Custody, QueueCustody, NoneWaitsForNobody
<1>. QED BY <1>1, InvHolds, PTL

\* The queue, a run, a cancel and a superseding submit never have a deployment's
\* final status to write at once, and none of them has that of a panicked run.
THEOREM OneCustodianHolds == Spec => []OneCustodian
<1>1. ASSUME Inv, NEW d \in Deploys,
             NEW c \in Custodians(d), NEW e \in Custodians(d)
      PROVE  c = e
  <2>. USE <1>1, HistoryAssumption, SchedulerAssumption
           DEF Inv, Types, TypeOK, Custody, Entered, Taken, Live
  <2>1. ProjectOf[d] \in Projects /\ d # None
    OBVIOUS
  <2>2. CASE pending[ProjectOf[d]] = d
    BY <2>1, <2>2 DEF Custodians, QueueCustody, ReplacedCustody
  <2>3. CASE pending[ProjectOf[d]] # d /\ Taken(d)
    BY <2>1, <2>3 DEF Custodians, TakenCustody, ReplacedCustody
  <2>4. CASE pending[ProjectOf[d]] # d /\ ~Taken(d)
    BY <2>1, <2>4 DEF Custodians, ReplacedCustody
  <2>. QED BY <2>2, <2>3, <2>4
<1>2. ASSUME Inv, NEW d \in Deploys, run[d] = "panicked"
      PROVE  Custodians(d) = {}
  <2>. USE <1>2, HistoryAssumption, SchedulerAssumption
           DEF Inv, Types, TypeOK, Custody
  <2>1. pending[ProjectOf[d]] # d /\ ~Taken(d)
    BY DEF QueueCustody, TakenCustody
  <2>2. \A y \in Deploys : old[y] # d
    BY DEF ReplacedCustody
  <2>. QED BY <2>1, <2>2 DEF Custodians, Taken, Live
<1>3. Inv => OneCustodian
  BY <1>1, <1>2 DEF OneCustodian
<1>. QED BY <1>3, InvHolds, PTL

\* A recorded final status is only ever pruned, although record_finished does
\* not look at the status it overwrites.
THEOREM FinalHolds == Spec => FinalStatusStable
<1>1. ASSUME Inv, [Next]_vars, NEW d \in Deploys, row[d] \in Terminal
      PROVE  row'[d] \in {row[d], "none"}
  <2>. USE <1>1, HistoryAssumption, SchedulerAssumption
           DEF Inv, Types, TypeOK, Custody, slotVars, runVars, reqVars, hubVars,
               sysVars
  <2>. row[d] \notin Active
    BY DEF Active, Terminal
  <2>1. ASSUME NEW x \in Deploys, InsertRow(x) PROVE row'[d] \in {row[d], "none"}
    <3>1. x # d
      BY <2>1 DEF InsertRow, NotYetIn, Terminal
    <3>. QED BY <2>1, <3>1, RecordQueuedEffect DEF InsertRow
  <2>2. ASSUME NEW x \in Deploys, RecordSuperseded(x) PROVE row'[d] = row[d]
    <3>1. old[x] \in Deploys \ {d}
      BY <2>2 DEF RecordSuperseded, ReplacedCustody
    <3>. QED BY <2>2, <3>1, WriteFinalEffect DEF RecordSuperseded, Terminal
  <2>3. ASSUME NEW x \in Deploys, RecordVerdict(x) PROVE row'[d] = row[d]
    <3>1. x # d /\ verdict[x] \in Terminal
      BY <2>3 DEF RecordVerdict, RunCustody, VerdictKnown, Verdicts, Terminal
    <3>. QED BY <2>3, <3>1, WriteFinalEffect DEF RecordVerdict
  <2>4. ASSUME NEW x \in Deploys, RecordCanceled(x) PROVE row'[d] = row[d]
    <3>1. x # d
      BY <2>4 DEF RecordCanceled, TakenCustody, Taken
    <3>. QED BY <2>4, <3>1, WriteFinalEffect DEF RecordCanceled, Terminal
  <2>5. ASSUME NEW x \in Deploys, StartRun(x) PROVE row'[d] = row[d]
    BY <2>5 DEF StartRun, MarkRunning, RowTypeOK, Active
  <2>6. ASSUME NEW p \in Projects, RemoveRows(p) PROVE row'[d] \in {row[d], "none"}
    BY <2>6 DEF RemoveRows
  <2>7. CASE Startup
    BY <2>7 DEF Startup, SweepInterrupted
  <2>8. CASE UNCHANGED row
    BY <2>8
  <2>. QED
    BY <2>1, <2>2, <2>3, <2>4, <2>5, <2>6, <2>7, <2>8
       DEF Next, SubmitStep, RunStep, CancelStep, Submit, Refuse, StartNow,
           Replace, CloseSuperseded, DropSubmit, EndStages, Panic, CloseRun,
           NextInLine, CancelRead, CancelQueued, CancelElse, CloseCanceled,
           DropCancel, ViewPast, RemoveCheck, Crash, vars
<1>2. Inv /\ [Next]_vars =>
        [\A d \in Deploys : row[d] \in Terminal => row'[d] \in {row[d], "none"}]_row
  BY <1>1
<1>. QED BY <1>2, InvHolds, PTL DEF Spec, FinalStatusStable

\* A deployment starts once at most, from the queue or on arrival, never after
\* its end was decided by others and never after a viewer was told of one.
THEOREM StartsOnceHolds == Spec => NeverStartsAgain
<1>1. ASSUME Inv, [Next]_vars, NEW d \in Deploys,
             run[d] # "spawned", run'[d] = "spawned"
      PROVE  \/ StartNow(d)
             \/ \E x \in Deploys : NextInLine(x) /\ pending[ProjectOf[x]] = d
  BY <1>1
     DEF Inv, Types, TypeOK, Next, SubmitStep, RunStep, CancelStep, Submit,
         InsertRow, Refuse, StartNow, Replace, RecordSuperseded,
         CloseSuperseded, DropSubmit, StartRun, EndStages, Panic, RecordVerdict,
         CloseRun, NextInLine, CancelRead, CancelQueued, CancelElse,
         RecordCanceled, CloseCanceled, DropCancel, ViewPast, RemoveCheck,
         RemoveRows, Crash, Startup, vars, runVars
<1>2. ASSUME Inv, NEW d \in Deploys, StartNow(d)
      PROVE  /\ run[d] = "none" /\ row[d] \notin Terminal /\ told[d] = {}
             /\ Custodians(d) = {}
  <2>. USE <1>2, HistoryAssumption, SchedulerAssumption
           DEF Inv, Types, TypeOK, Custody, StartNow
  <2>1. ProjectOf[d] \in Projects /\ d # None /\ ~Entered(d)
    BY DEF Entered
  <2>2. run[d] = "none" /\ row[d] \notin Terminal /\ told[d] = {}
    BY <2>1 DEF RunCustody, NotYetIn, Unseen
  <2>3. pending[ProjectOf[d]] # d /\ ~Taken(d)
    BY <2>1 DEF QueueCustody, TakenCustody
  <2>4. \A y \in Deploys : old[y] # d
    BY <2>1 DEF ReplacedCustody
  <2>. QED BY <2>2, <2>3, <2>4 DEF Custodians, Taken, Live
<1>3. ASSUME Inv, NEW d \in Deploys, NEW x \in Deploys, NextInLine(x),
             pending[ProjectOf[x]] = d
      PROVE  /\ run[d] = "none" /\ row[d] \notin Terminal /\ told[d] = {}
             /\ Custodians(d) \subseteq {"queue"}
  <2>. USE <1>3, HistoryAssumption, SchedulerAssumption
           DEF Inv, Types, TypeOK, Custody
  <2>1. ProjectOf[x] \in Projects /\ d # None /\ ProjectOf[d] = ProjectOf[x]
    BY DEF QueueCustody
  <2>2. run[d] = "none" /\ row[d] \notin Terminal /\ told[d] = {}
    BY <2>1 DEF QueueCustody, Unseen
  <2>3. ~Live(d) /\ ~Taken(d) /\ \A y \in Deploys : old[y] # d
    BY <2>1, <2>2 DEF QueueCustody, ReplacedCustody, Live
  <2>. QED BY <2>2, <2>3 DEF Custodians, Taken
<1>4. Inv /\ [Next]_vars =>
        [\A d \in Deploys : run[d] # "spawned" /\ run'[d] = "spawned" =>
            /\ run[d] = "none"
            /\ row[d] \notin Terminal
            /\ told[d] = {}
            /\ Custodians(d) \subseteq {"queue"}]_run
  BY <1>1, <1>2, <1>3
<1>. QED BY <1>4, InvHolds, PTL DEF Spec, NeverStartsAgain
-----------------------------------------------------------------------------
(* What the scheduler promises while storage answers, clients stay and no  *)
(* run panics: rows that are active are owed their end, and all viewers of *)
(* a deployment are sent the same one.  Both need to know what the row     *)
(* says while somebody holds a stream open whose end is decided: Settled,  *)
(* for the row, and Telling, for the viewers.                              *)

Calm == Without({"storage", "disconnect"})

Calmer == Without({"storage", "disconnect", "panic"})

\* Nobody lost interest, and who is done writing has written.
Settled ==
    /\ absent = {}
    /\ \A d \in Deploys :
        /\ cxl[d] # "detached" /\ req[d] # "refused"
        /\ run[d] \in {"recorded", "returned"} => row[d] \notin Active
        /\ cxl[d] = "taken" => row[d] \notin Active
        /\ req[d] = "replaced" /\ old[d] # None => row[old[d]] \notin Active

\* Somebody is to end what the row calls active, unless its run panicked.
SomeoneOwes ==
    up => \A d \in Deploys : row[d] \in Active =>
            Custodians(d) # {} \/ req[d] = "inserted" \/ run[d] = "panicked"

OwedInv == Calm => Settled /\ SomeoneOwes

\* A stream that is open has told nobody the end, one that was told stays as
\* the row says, and it is open as long as somebody is to close it.
Telling ==
    \A d \in Deploys :
        /\ d \in stream => told[d] = {}
        /\ \A s \in told[d] : row[d] \in {s, "none"}
        /\ \A s, t \in told[d] : s = t
        /\ run[d] # "panicked"
        /\ run[d] \in {"spawned", "stages", "ended", "recorded"} => d \in stream
        /\ run[d] = "recorded" => row[d] \in {verdict[d], "none"}
        /\ cxl[d] \in {"taking", "taken"} => d \in stream
        /\ cxl[d] = "taken" => row[d] \in {"canceled", "none"}
        /\ old[d] # None => old[d] \in stream
        /\ req[d] = "replaced" /\ old[d] # None => row[old[d]] \in {"superseded", "none"}

ToldInv == Calmer => Telling

-----------------------------------------------------------------------------
\* What is calm after a step was calm before it, and the step spent nothing of
\* what calm excludes.
LEMMA SpendGrows ==
    ASSUME spent \in [Kinds -> Nat], NEW k \in Kinds, Spend(k)
    PROVE  /\ spent'[k] # 0
           /\ \A j \in Kinds : spent'[j] = 0 => spent[j] = 0
BY DEF Spend

\* Without storage errors a final write lands, or finds no row.
LEMMA WriteFinalCalm ==
    ASSUME RowTypeOK, spent \in [Kinds -> Nat],
           NEW d \in Deploys, NEW status \in Terminal, WriteFinal(d, status),
           spent'["storage"] = 0
    PROVE  /\ spent' = spent
           /\ row'[d] = status \/ (row[d] = "none" /\ row'[d] = "none")
           /\ \A x \in Deploys : x # d => row'[x] = row[x]
<1>1. ~Spend("storage")
  BY SpendGrows DEF Kinds
<1>. QED BY <1>1 DEF WriteFinal, RecordFinished, RowTypeOK

\* No step makes an event unhappen.
LEMMA SpentGrows ==
    ASSUME Inv, [Next]_vars
    PROVE  \A j \in Kinds : spent'[j] = 0 => spent[j] = 0
<1>. USE DEF Inv, Types, TypeOK, vars, reqVars, runVars, slotVars, hubVars, sysVars
<1>1. ASSUME NEW k \in Kinds, Spend(k)
      PROVE  \A j \in Kinds : spent'[j] = 0 => spent[j] = 0
  BY <1>1, SpendGrows
<1>2. CASE UNCHANGED spent
  BY <1>2
<1>3. UNCHANGED spent \/ \E k \in Kinds : Spend(k)
  BY DEF Kinds, Next, SubmitStep, RunStep, CancelStep, Submit, InsertRow, Refuse,
         StartNow, Replace, RecordSuperseded, CloseSuperseded, DropSubmit,
         StartRun, EndStages, Panic, RecordVerdict, CloseRun, NextInLine,
         CancelRead, CancelQueued, CancelElse, RecordCanceled, CloseCanceled,
         DropCancel, RemoveCheck, RemoveRows, ViewPast, Crash, Startup, WriteFinal
<1>. QED BY <1>1, <1>2, <1>3
-----------------------------------------------------------------------------
(* A row that is active is owed its end.                                    *)

LEMMA OwedInit == Init => OwedInv
BY HistoryAssumption, SchedulerAssumption
   DEF Init, HistoryInit, OwedInv, Settled, SomeoneOwes, Custodians, Live, Active

\* The submit handler.
LEMMA OwedSubmit ==
    ASSUME Inv, Calm, Calm', Settled, SomeoneOwes, NEW d \in Deploys,
           Submit(d) \/ SubmitStep(d) \/ DropSubmit(d)
    PROVE  Settled' /\ SomeoneOwes'
<1>. USE HistoryAssumption, SchedulerAssumption
         DEF Inv, Types, TypeOK, RowTypeOK, Active, Terminal, Custody,
             QueueCustody, ReplacedCustody, TakenCustody, RunCustody, NotYetIn,
             DownIsEmpty, Entered, Taken, Custodians, Live, Calm,
             Without, Settled, SomeoneOwes, slotVars, runVars, reqVars,
             hubVars, sysVars
<1>1. CASE Submit(d)
  BY <1>1 DEF Submit
<1>2. CASE InsertRow(d)
  <2>1. ~Spend("storage")
    BY SpendGrows DEF Kinds
  <2>2. row'[d] = "queued" /\ \A x \in Deploys : x # d => row'[x] \in {row[x], "none"}
    BY <1>2, <2>1, RecordQueuedEffect DEF InsertRow
  <2>3. req'[d] = "inserted" /\ \A x \in Deploys : x # d => req'[x] = req[x]
    BY <1>2, <2>1 DEF InsertRow, Resume
  <2>. QED BY <1>2, <2>1, <2>2, <2>3 DEF InsertRow, Resume
<1>3. CASE Refuse(d)
  BY <1>3 DEF Refuse
<1>4. CASE StartNow(d)
  BY <1>4 DEF StartNow
<1>5. CASE Replace(d)
  BY <1>5 DEF Replace
<1>6. CASE RecordSuperseded(d)
  <2>1. old[d] \in Deploys
    BY <1>6 DEF RecordSuperseded
  <2>2. /\ row'[old[d]] \in {"superseded", "none"}
        /\ \A x \in Deploys : x # old[d] => row'[x] = row[x]
        /\ spent' = spent
    BY <1>6, <2>1, WriteFinalCalm DEF RecordSuperseded
  <2>. QED BY <1>6, <2>1, <2>2 DEF RecordSuperseded, Resume
<1>7. CASE CloseSuperseded(d)
  BY <1>7 DEF CloseSuperseded
<1>8. CASE DropSubmit(d)
  BY <1>8, SpendGrows DEF DropSubmit, Kinds
<1>. QED
  BY <1>1, <1>2, <1>3, <1>4, <1>5, <1>6, <1>7, <1>8 DEF SubmitStep

\* The run.
LEMMA OwedRun ==
    ASSUME Inv, Calm, Calm', Settled, SomeoneOwes, NEW d \in Deploys,
           RunStep(d) \/ Panic(d)
    PROVE  Settled' /\ SomeoneOwes'
<1>. USE HistoryAssumption, SchedulerAssumption
         DEF Inv, Types, TypeOK, RowTypeOK, Active, Terminal, Custody,
             QueueCustody, ReplacedCustody, TakenCustody, RunCustody, NotYetIn,
             DownIsEmpty, Entered, Taken, Custodians, Live, Calm, OneRunPerKey,
             Without, Settled, SomeoneOwes, slotVars, runVars, reqVars,
             hubVars, sysVars
<1>1. CASE StartRun(d)
  BY <1>1 DEF StartRun, MarkRunning
<1>2. CASE EndStages(d)
  BY <1>2 DEF EndStages
<1>3. CASE Panic(d)
  BY <1>3 DEF Panic
<1>4. CASE RecordVerdict(d)
  <2>1. verdict[d] \in Terminal
    BY <1>4 DEF RecordVerdict, VerdictKnown, Verdicts
  <2>2. /\ row'[d] \in {verdict[d], "none"}
        /\ \A x \in Deploys : x # d => row'[x] = row[x]
        /\ spent' = spent
    BY <1>4, <2>1, WriteFinalCalm DEF RecordVerdict
  <2>. QED BY <1>4, <2>1, <2>2 DEF RecordVerdict
<1>5. CASE CloseRun(d)
  BY <1>5 DEF CloseRun
<1>6. CASE NextInLine(d)
  <2>. DEFINE next == pending[ProjectOf[d]]
  <2>1. ProjectOf[d] \in Projects /\ running[ProjectOf[d]] = d
    BY <1>6 DEF NextInLine
  <2>2. next # None => /\ next \in Deploys \ {d}
                       /\ run[next] = "none"
                       /\ ProjectOf[next] = ProjectOf[d]
    BY <1>6, <2>1 DEF NextInLine
  <2>. QED BY <1>6, <2>1, <2>2 DEF NextInLine
<1>. QED
  BY <1>1, <1>2, <1>3, <1>4, <1>5, <1>6 DEF RunStep

\* The cancel handler.
LEMMA OwedCancel ==
    ASSUME Inv, Calm, Calm', Settled, SomeoneOwes, NEW d \in Deploys,
           CancelRead(d) \/ CancelStep(d) \/ DropCancel(d)
    PROVE  Settled' /\ SomeoneOwes'
<1>. USE HistoryAssumption, SchedulerAssumption
         DEF Inv, Types, TypeOK, RowTypeOK, Active, Terminal, Custody,
             QueueCustody, ReplacedCustody, TakenCustody, RunCustody, NotYetIn,
             DownIsEmpty, Entered, Taken, Custodians, Live, Calm,
             Without, Settled, SomeoneOwes, slotVars, runVars, reqVars,
             hubVars, sysVars
<1>1. CASE CancelRead(d)
  BY <1>1 DEF CancelRead
<1>2. CASE CancelQueued(d)
  BY <1>2 DEF CancelQueued
<1>3. CASE CancelElse(d)
  BY <1>3 DEF CancelElse
<1>4. CASE RecordCanceled(d)
  <2>1. /\ row'[d] \in {"canceled", "none"}
        /\ \A x \in Deploys : x # d => row'[x] = row[x]
        /\ spent' = spent
    BY <1>4, WriteFinalCalm DEF RecordCanceled
  <2>. QED BY <1>4, <2>1 DEF RecordCanceled
<1>5. CASE CloseCanceled(d)
  BY <1>5 DEF CloseCanceled
<1>6. CASE DropCancel(d)
  BY <1>6, SpendGrows DEF DropCancel, Kinds
<1>. QED
  BY <1>1, <1>2, <1>3, <1>4, <1>5, <1>6 DEF CancelStep

\* Removals and viewers change no active row; a sweep ends them all.
LEMMA OwedSystem ==
    ASSUME Inv, Calm, Settled, SomeoneOwes,
           \/ \E p \in Projects : RemoveCheck(p) \/ RemoveRows(p)
           \/ \E d \in Deploys : ViewPast(d)
           \/ Crash \/ Startup
    PROVE  Settled' /\ SomeoneOwes'
<1>. USE HistoryAssumption, SchedulerAssumption
         DEF Inv, Types, TypeOK, RowTypeOK, Active, Terminal, Custody,
             RunCustody, DownIsEmpty, Custodians, Live, Calm,
             Without, Settled, SomeoneOwes, slotVars, runVars, reqVars,
             hubVars, sysVars
<1>1. ASSUME NEW p \in Projects, RemoveCheck(p) PROVE Settled' /\ SomeoneOwes'
  BY <1>1, SpendGrows DEF RemoveCheck, Kinds
<1>2. ASSUME NEW p \in Projects, RemoveRows(p) PROVE Settled' /\ SomeoneOwes'
  BY <1>2 DEF RemoveRows
<1>3. ASSUME NEW d \in Deploys, ViewPast(d) PROVE Settled' /\ SomeoneOwes'
  BY <1>3, SpendGrows DEF ViewPast, Kinds
<1>4. CASE Crash
  BY <1>4 DEF Crash
<1>5. CASE Startup
  BY <1>5 DEF Startup, SweepInterrupted
<1>. QED BY <1>1, <1>2, <1>3, <1>4, <1>5

LEMMA OwedNext == Inv /\ OwedInv /\ [Next]_vars => OwedInv'
<1>. SUFFICES ASSUME Inv, OwedInv, [Next]_vars, Calm'
              PROVE  Settled' /\ SomeoneOwes'
  BY DEF OwedInv
<1>1. Calm
  BY SpentGrows DEF Calm, Without, Kinds
<1>2. Settled /\ SomeoneOwes
  BY <1>1 DEF OwedInv
<1>3. CASE UNCHANGED vars
  BY <1>2, <1>3 DEF vars, slotVars, runVars, reqVars, hubVars, sysVars, Settled,
                    SomeoneOwes, Custodians, Live, Without
<1>4. CASE Next
  BY <1>1, <1>2, <1>4, OwedSubmit, OwedRun, OwedCancel, OwedSystem DEF Next
<1>. QED BY <1>3, <1>4

\* While storage answers and clients stay, every row that says queued or running
\* has somebody alive who is to end it, or a panic of that very key stranded it.
THEOREM OwedHolds == Spec => []ActiveRowIsOwed
<1>1. ASSUME Inv, OwedInv, up, Calm, NEW d \in Deploys, row[d] \in Active
      PROVE  \/ req[d] = "inserted"
             \/ Stranded(d)
             \/ /\ Custodians(d) # {}
                /\ pending[ProjectOf[d]] = d => Live(running[ProjectOf[d]])
  <2>. USE <1>1, HistoryAssumption, SchedulerAssumption
           DEF Inv, Types, TypeOK, Custody
  <2>. DEFINE p == ProjectOf[d]
  <2>1. p \in Projects /\ d # None
    OBVIOUS
  <2>2. CASE run[d] = "panicked"
    BY <2>1, <2>2 DEF RunCustody, OneRunPerKey, Stranded, Wedged
  <2>3. CASE pending[p] = d
    <3>1. running[p] \in Deploys /\ ProjectOf[running[p]] = p
      BY <2>1, <2>3 DEF QueueCustody, RunCustody
    <3>2. Live(running[p]) \/ run[running[p]] = "panicked"
      BY <3>1 DEF RunCustody, OneRunPerKey
    <3>3. Custodians(d) # {}
      BY <2>3 DEF Custodians
    <3>. QED BY <2>1, <2>3, <3>1, <3>2, <3>3 DEF Stranded, Wedged
  <2>4. CASE pending[p] # d /\ run[d] # "panicked"
    BY <2>4 DEF OwedInv, SomeoneOwes
  <2>. QED BY <2>2, <2>3, <2>4
<1>2. Inv /\ OwedInv => ActiveRowIsOwed
  BY <1>1 DEF ActiveRowIsOwed, Calm
<1>. QED BY <1>2, OwedInit, OwedNext, InvHolds, PTL DEF Spec
-----------------------------------------------------------------------------
(* All viewers of a deployment are sent the same end.                       *)

LEMMA ToldInit == Init => ToldInv
BY HistoryAssumption, SchedulerAssumption
   DEF Init, HistoryInit, ToldInv, Telling

\* The submit handler tells the viewers of the deployment it replaced.
LEMMA ToldSubmit ==
    ASSUME Inv, Calmer, Calmer', Settled, Telling, NEW d \in Deploys,
           Submit(d) \/ SubmitStep(d) \/ DropSubmit(d)
    PROVE  Telling'
<1>. USE HistoryAssumption, SchedulerAssumption
         DEF Inv, Types, TypeOK, RowTypeOK, Active, Terminal, Custody,
             QueueCustody, ReplacedCustody, TakenCustody, RunCustody, NotYetIn,
             DownIsEmpty, Unseen, Entered, Taken, Calmer, Without, Settled,
             Telling, Close, slotVars, runVars, reqVars, hubVars, sysVars
<1>1. CASE Submit(d)
  BY <1>1 DEF Submit
<1>2. CASE InsertRow(d)
  <2>1. ~Spend("storage")
    BY SpendGrows DEF Kinds
  <2>2. row'[d] = "queued" /\ \A x \in Deploys : x # d => row'[x] \in {row[x], "none"}
    BY <1>2, <2>1, RecordQueuedEffect DEF InsertRow
  <2>3. req'[d] = "inserted" /\ \A x \in Deploys : x # d => req'[x] = req[x]
    BY <1>2, <2>1 DEF InsertRow, Resume
  <2>4. told[d] = {} /\ run[d] = "none" /\ cxl[d] \notin {"taken", "taking"}
    BY <1>2 DEF InsertRow
  <2>5. \A x \in Deploys : old[x] # d
    BY <1>2 DEF InsertRow
  <2>. QED BY <1>2, <2>2, <2>3, <2>4, <2>5 DEF InsertRow
<1>3. CASE Refuse(d)
  BY <1>3 DEF Refuse
<1>4. CASE StartNow(d)
  BY <1>4 DEF StartNow
<1>5. CASE Replace(d)
  BY <1>5 DEF Replace
<1>6. CASE RecordSuperseded(d)
  <2>1. old[d] \in Deploys
    BY <1>6 DEF RecordSuperseded
  <2>2. /\ row'[old[d]] \in {"superseded", "none"}
        /\ \A x \in Deploys : x # old[d] => row'[x] = row[x]
        /\ spent' = spent
    BY <1>6, <2>1, WriteFinalCalm DEF RecordSuperseded
  <2>. QED BY <1>6, <2>1, <2>2 DEF RecordSuperseded, Resume
<1>7. CASE CloseSuperseded(d)
  BY <1>7 DEF CloseSuperseded
<1>8. CASE DropSubmit(d)
  BY <1>8, SpendGrows DEF DropSubmit, Kinds
<1>. QED
  BY <1>1, <1>2, <1>3, <1>4, <1>5, <1>6, <1>7, <1>8 DEF SubmitStep

\* The run tells its own, after its row.
LEMMA ToldRun ==
    ASSUME Inv, Calmer, Calmer', Settled, Telling, NEW d \in Deploys,
           RunStep(d) \/ Panic(d)
    PROVE  Telling'
<1>. USE HistoryAssumption, SchedulerAssumption
         DEF Inv, Types, TypeOK, RowTypeOK, Active, Terminal, Custody,
             QueueCustody, ReplacedCustody, TakenCustody, RunCustody, NotYetIn,
             DownIsEmpty, Unseen, Entered, Taken, Calmer, Without, Settled,
             Telling, Close, slotVars, runVars, reqVars, hubVars, sysVars
<1>1. CASE StartRun(d)
  BY <1>1 DEF StartRun, MarkRunning
<1>2. CASE EndStages(d)
  BY <1>2 DEF EndStages
<1>3. CASE Panic(d)
  BY <1>3, SpendGrows DEF Panic, Kinds
<1>4. CASE RecordVerdict(d)
  <2>1. verdict[d] \in Terminal
    BY <1>4 DEF RecordVerdict, VerdictKnown, Verdicts
  <2>2. /\ row'[d] \in {verdict[d], "none"}
        /\ \A x \in Deploys : x # d => row'[x] = row[x]
        /\ spent' = spent
    BY <1>4, <2>1, WriteFinalCalm DEF RecordVerdict
  <2>. QED BY <1>4, <2>1, <2>2 DEF RecordVerdict
<1>5. CASE CloseRun(d)
  BY <1>5 DEF CloseRun
<1>6. CASE NextInLine(d)
  <2>. DEFINE next == pending[ProjectOf[d]]
  <2>1. ProjectOf[d] \in Projects
    BY <1>6 DEF NextInLine
  <2>2. next # None => /\ next \in Deploys \ {d}
                       /\ run[next] = "none"
                       /\ ProjectOf[next] = ProjectOf[d]
    BY <1>6, <2>1 DEF NextInLine, OneRunPerKey, Live
  <2>. QED BY <1>6, <2>1, <2>2 DEF NextInLine
<1>. QED
  BY <1>1, <1>2, <1>3, <1>4, <1>5, <1>6 DEF RunStep

\* The cancel handler tells the viewers of what it took out of the queue.
LEMMA ToldCancel ==
    ASSUME Inv, Calmer, Calmer', Settled, Telling, NEW d \in Deploys,
           CancelRead(d) \/ CancelStep(d) \/ DropCancel(d)
    PROVE  Telling'
<1>. USE HistoryAssumption, SchedulerAssumption
         DEF Inv, Types, TypeOK, RowTypeOK, Active, Terminal, Custody,
             QueueCustody, ReplacedCustody, TakenCustody, RunCustody, NotYetIn,
             DownIsEmpty, Unseen, Entered, Taken, Calmer, Without, Settled,
             Telling, Close, slotVars, runVars, reqVars, hubVars, sysVars
<1>1. CASE CancelRead(d)
  BY <1>1 DEF CancelRead
<1>2. CASE CancelQueued(d)
  BY <1>2 DEF CancelQueued
<1>3. CASE CancelElse(d)
  BY <1>3 DEF CancelElse
<1>4. CASE RecordCanceled(d)
  <2>1. /\ row'[d] \in {"canceled", "none"}
        /\ \A x \in Deploys : x # d => row'[x] = row[x]
        /\ spent' = spent
    BY <1>4, WriteFinalCalm DEF RecordCanceled
  <2>. QED BY <1>4, <2>1 DEF RecordCanceled
<1>5. CASE CloseCanceled(d)
  BY <1>5 DEF CloseCanceled
<1>6. CASE DropCancel(d)
  BY <1>6, SpendGrows DEF DropCancel, Kinds
<1>. QED
  BY <1>1, <1>2, <1>3, <1>4, <1>5, <1>6 DEF CancelStep

\* A viewer who comes when the stream is gone reads an end from the row: what
\* is active has its stream, as somebody owes it the end.
LEMMA ToldSystem ==
    ASSUME Inv, Calmer, Calmer', Settled, SomeoneOwes, Telling,
           \/ \E p \in Projects : RemoveCheck(p) \/ RemoveRows(p)
           \/ \E d \in Deploys : ViewPast(d)
           \/ Crash \/ Startup
    PROVE  Telling'
<1>. USE HistoryAssumption, SchedulerAssumption
         DEF Inv, Types, TypeOK, RowTypeOK, Active, Terminal, Custody,
             QueueCustody, ReplacedCustody, TakenCustody, RunCustody, NotYetIn,
             DownIsEmpty, Unseen, Entered, Taken, Calmer, Without, Settled,
             Telling, Close, slotVars, runVars, reqVars, hubVars, sysVars
<1>1. ASSUME NEW p \in Projects, RemoveCheck(p) PROVE Telling'
  BY <1>1 DEF RemoveCheck
<1>2. ASSUME NEW p \in Projects, RemoveRows(p) PROVE Telling'
  BY <1>2 DEF RemoveRows
<1>3. ASSUME NEW d \in Deploys, ViewPast(d) PROVE Telling'
  <2>1. row[d] \notin Active
    <3>1. SUFFICES ASSUME row[d] \in Active PROVE FALSE
      OBVIOUS
    <3>2. Custodians(d) # {} \/ req[d] = "inserted"
      BY <1>3, <3>1 DEF ViewPast, SomeoneOwes
    <3>3. \A y \in Deploys : old[y] # d
      BY <1>3 DEF ViewPast
    <3>4. pending[ProjectOf[d]] # d /\ req[d] # "inserted"
      BY <1>3 DEF ViewPast
    <3>5. cxl[d] \notin {"taking", "taken", "detached"}
      BY <1>3 DEF ViewPast
    <3>6. ~Live(d)
      BY <1>3, <3>1 DEF ViewPast, Live, RunStates
    <3>. QED BY <3>2, <3>3, <3>4, <3>5, <3>6 DEF Custodians
  <2>2. /\ told'[d] = told[d] \cup {row[d]}
        /\ \A x \in Deploys : x # d => told'[x] = told[x]
    <3>1. row[d] \in Terminal
      BY <1>3, <2>1 DEF ViewPast, Statuses
    <3>2. told' = [told EXCEPT ![d] = @ \cup {row[d]}]
      BY <1>3, <3>1 DEF ViewPast
    <3>. QED BY <3>2
  <2>3. \A s \in told[d] : s = row[d]
    BY <1>3 DEF ViewPast
  <2>. QED BY <1>3, <2>2, <2>3 DEF ViewPast
<1>4. CASE Crash
  BY <1>4 DEF Crash
<1>5. CASE Startup
  BY <1>5 DEF Startup, SweepInterrupted
<1>. QED BY <1>1, <1>2, <1>3, <1>4, <1>5

LEMMA ToldNext == Inv /\ OwedInv /\ ToldInv /\ [Next]_vars => ToldInv'
<1>. SUFFICES ASSUME Inv, OwedInv, ToldInv, [Next]_vars, Calmer' PROVE Telling'
  BY DEF ToldInv
<1>1. Calmer /\ Calm
  BY SpentGrows DEF Calm, Calmer, Without, Kinds
<1>2. Settled /\ SomeoneOwes /\ Telling
  BY <1>1 DEF OwedInv, ToldInv
<1>3. CASE UNCHANGED vars
  BY <1>2, <1>3 DEF vars, slotVars, runVars, reqVars, hubVars, sysVars, Telling
<1>4. CASE Next
  BY <1>1, <1>2, <1>4, ToldSubmit, ToldRun, ToldCancel, ToldSystem DEF Next
<1>. QED BY <1>3, <1>4

\* While no run panics either, live viewers, late ones and those who come after
\* a restart are sent one and the same final status, and the row keeps it.
THEOREM ViewersHolds == Spec => []ViewersAgree
<1>1. Inv /\ ToldInv => ViewersAgree
  <2>. SUFFICES ASSUME Inv, ToldInv, Calmer, NEW d \in Deploys
                PROVE  Cardinality(told[d] \cup ({row[d]} \cap Terminal)) <= 1
    BY DEF ViewersAgree, Calmer
  <2>. DEFINE ends == told[d] \cup ({row[d]} \cap Terminal)
  <2>1. \A s, t \in ends : s = t
    BY DEF ToldInv, Telling, Terminal
  <2>2. CASE ends = {}
    BY <2>2, FS_EmptySet
  <2>3. CASE ends # {}
    <3>1. PICK s : s \in ends
      BY <2>3
    <3>2. ends = {s}
      BY <2>1, <3>1
    <3>3. Cardinality({s}) = 1
      BY FS_Singleton
    <3>. QED BY <3>2, <3>3
  <2>. QED BY <2>2, <2>3
<1>. QED BY <1>1, OwedInit, OwedNext, ToldInit, ToldNext, InvHolds, PTL DEF Spec

-----------------------------------------------------------------------------
(* The scheduler implements DeployQueue.  Most steps stutter: a write, a    *)
(* verdict, a stream that closes are no business of the queue.  The others  *)
(* map to one of its actions, and Inv tells that the deployment is where    *)
(* that action wants it: one that is Fresh is in no slot, the one that ends *)
(* has the slot, the one it is followed by is not over.                     *)

\* The initial states are those of an empty queue.
LEMMA QueueInit == Init => Queue!Init
BY HistoryAssumption, SchedulerAssumption
   DEF Init, Queue!Init, Over, Outgoing

\* A deployment whose request is on its way is Fresh.
LEMMA OnItsWayIsFresh ==
    ASSUME Inv, NEW d \in Deploys,
           req[d] \in {"inserting", "inserted", "refused"}
    PROVE  Queue!Fresh(d)
<1>. USE HistoryAssumption, SchedulerAssumption
         DEF Inv, Types, TypeOK, Custody, Entered, Live
<1>1. d \notin Over
  BY DEF Over
<1>2. pending[ProjectOf[d]] # d
  BY DEF QueueCustody
<1>3. running[ProjectOf[d]] # d
  BY DEF RunCustody, OneRunPerKey
<1>4. up
  BY DEF DownIsEmpty
<1>. QED BY <1>1, <1>2, <1>3, <1>4 DEF Queue!Fresh

\* Only one handler has a replaced deployment: when it lets go, it is told.
LEMMA LetGoIsDismiss ==
    ASSUME Inv, NEW d \in Deploys, old[d] # None,
           old' = [old EXCEPT ![d] = None],
           UNCHANGED <<running, pending, up>>, Over' = Over
    PROVE  Queue!Next
<1>. USE HistoryAssumption, SchedulerAssumption DEF Inv, Types, TypeOK
<1>1. old[d] \in Deploys
  OBVIOUS
<1>2. \A x \in Deploys : old[x] = old[d] => x = d
  BY DEF Custody, ReplacedCustody
<1>3. old[d] \in Outgoing /\ Outgoing' = Outgoing \ {old[d]}
  BY <1>1, <1>2 DEF Outgoing
<1>4. Queue!Dismiss(old[d])
  BY <1>3 DEF Queue!Dismiss
<1>. QED BY <1>1, <1>4 DEF Queue!Next

\* A handler that replaced nobody, or is past it, has nobody to let go.
LEMMA NobodyReplaced ==
    ASSUME Inv, NEW d \in Deploys, req[d] \notin {"replacing", "replaced"}
    PROVE  old[d] = None
BY SchedulerAssumption DEF Inv, Types, TypeOK, Custody, ReplacedCustody

\* A submit handler queues its deployment, lets it wait or turns it away.
LEMMA QueueSubmit ==
    ASSUME Inv, NEW d \in Deploys,
           Submit(d) \/ SubmitStep(d) \/ DropSubmit(d)
    PROVE  [Queue!Next]_Queue!vars
<1>. USE HistoryAssumption, SchedulerAssumption
         DEF Inv, Types, TypeOK, Over, Queue!vars, slotVars, runVars, reqVars,
             sysVars
<1>1. CASE Submit(d)
  BY <1>1 DEF Submit, Outgoing
<1>2. CASE InsertRow(d)
  <2>1. Queue!Fresh(d)
    BY <1>2, OnItsWayIsFresh DEF InsertRow
  <2>2. CASE d \in absent
    BY <1>2, <2>1, <2>2
       DEF InsertRow, Resume, Outgoing, Queue!Fresh, Queue!TurnAway, Queue!Next
  <2>3. CASE d \notin absent
    BY <1>2, <2>3 DEF InsertRow, Resume, Outgoing
  <2>. QED BY <2>2, <2>3
<1>3. CASE Refuse(d)
  <2>1. Queue!Fresh(d)
    BY <1>3, OnItsWayIsFresh DEF Refuse
  <2>. QED
    BY <1>3, <2>1
       DEF Refuse, Outgoing, Queue!Fresh, Queue!TurnAway, Queue!Next
<1>4. CASE StartNow(d)
  <2>1. Queue!Fresh(d)
    BY <1>4, OnItsWayIsFresh DEF StartNow
  <2>2. Over' = Over
    BY <1>4 DEF StartNow
  <2>3. Queue!Start(d)
    BY <1>4, <2>1, <2>2 DEF StartNow, Outgoing, Queue!Start
  <2>. QED BY <2>3 DEF Queue!Next
<1>5. CASE Replace(d)
  <2>1. Queue!Fresh(d)
    BY <1>5, OnItsWayIsFresh DEF Replace
  <2>. DEFINE out == pending[ProjectOf[d]]
  <2>2. out # None => /\ out \in Deploys \ {d} /\ ProjectOf[out] = ProjectOf[d]
                      /\ Entered(out) /\ run[out] = "none"
    BY <1>5 DEF Replace, Custody, QueueCustody, Entered
  <2>3. out # None => running[ProjectOf[d]] # out
    BY <2>2 DEF Custody, RunCustody, OneRunPerKey, Live
  <2>4. Over' = Over \cup ({out} \ {None})
    <3>1. ASSUME NEW x \in Deploys PROVE x \in Over' <=> x \in Over \/ x = out
      <4>1. CASE x = d
        BY <1>5, <2>2, <4>1 DEF Replace
      <4>2. CASE x # d
        BY <1>5, <2>2, <2>3, <4>2 DEF Replace, Entered
      <4>. QED BY <4>1, <4>2
    <3>. QED BY <3>1, <2>2
  <2>5. Outgoing' = Outgoing \cup ({out} \ {None})
    <3>1. old[d] = None
      BY <1>5, NobodyReplaced DEF Replace
    <3>. QED BY <1>5, <3>1 DEF Replace, Outgoing
  <2>6. Queue!Line(d)
    BY <1>5, <2>1, <2>4, <2>5 DEF Replace, Queue!Fresh, Queue!Line
  <2>. QED BY <2>6 DEF Queue!Next
<1>6. CASE RecordSuperseded(d)
  <2>1. old[d] # None
    BY <1>6 DEF RecordSuperseded, Custody, ReplacedCustody
  <2>2. Over' = Over
    BY <1>6 DEF RecordSuperseded, Resume
  <2>3. CASE d \in absent
    BY <1>6, <2>1, <2>2, <2>3, LetGoIsDismiss DEF RecordSuperseded
  <2>4. CASE d \notin absent
    BY <1>6, <2>2, <2>4 DEF RecordSuperseded, Outgoing
  <2>. QED BY <2>3, <2>4
<1>7. CASE CloseSuperseded(d)
  <2>1. Over' = Over
    BY <1>7 DEF CloseSuperseded
  <2>2. CASE old[d] # None
    BY <1>7, <2>1, <2>2, LetGoIsDismiss DEF CloseSuperseded
  <2>3. CASE old[d] = None
    <3>1. old' = old
      BY <1>7, <2>3 DEF CloseSuperseded
    <3>. QED BY <1>7, <2>1, <3>1 DEF CloseSuperseded, Outgoing
  <2>. QED BY <2>2, <2>3
<1>8. CASE DropSubmit(d)
  <2>1. CASE req[d] \in {"inserted", "refused"}
    <3>1. Queue!Fresh(d)
      BY <2>1, OnItsWayIsFresh
    <3>2. old' = old
      BY <1>8, <2>1, NobodyReplaced DEF DropSubmit
    <3>. QED
      BY <1>8, <2>1, <3>1, <3>2
         DEF DropSubmit, Outgoing, Queue!Fresh, Queue!TurnAway, Queue!Next
  <2>2. CASE req[d] = "replaced"
    <3>1. Over' = Over
      BY <1>8, <2>2 DEF DropSubmit
    <3>2. CASE old[d] # None
      BY <1>8, <2>2, <3>1, <3>2, LetGoIsDismiss DEF DropSubmit
    <3>3. CASE old[d] = None
      <4>1. old' = old
        BY <1>8, <2>2, <3>3 DEF DropSubmit
      <4>. QED BY <1>8, <3>1, <4>1 DEF DropSubmit, Outgoing
    <3>. QED BY <3>2, <3>3
  <2>3. CASE req[d] \in {"inserting", "replacing"}
    BY <1>8, <2>3 DEF DropSubmit, Outgoing
  <2>. QED BY <1>8, <2>1, <2>2, <2>3 DEF DropSubmit
<1>. QED
  BY <1>1, <1>2, <1>3, <1>4, <1>5, <1>6, <1>7, <1>8 DEF SubmitStep

\* A run has the key, and its end hands it on.
LEMMA QueueRun ==
    ASSUME Inv, NEW d \in Deploys, RunStep(d) \/ Panic(d)
    PROVE  [Queue!Next]_Queue!vars
<1>. USE HistoryAssumption, SchedulerAssumption
         DEF Inv, Types, TypeOK, Over, Outgoing, Queue!vars, slotVars, runVars,
             reqVars, sysVars
<1>1. CASE NextInLine(d)
  <2>1. running[ProjectOf[d]] = d /\ ProjectOf[d] \in Projects /\ Entered(d)
    BY <1>1 DEF NextInLine, Custody, RunCustody, OneRunPerKey, Live
  <2>2. \A x \in Deploys : pending[ProjectOf[x]] = x => x # d
    BY <1>1 DEF NextInLine, Custody, QueueCustody
  <2>3. Queue!Finish(d)
    BY <1>1, <2>1, <2>2
       DEF NextInLine, Queue!Finish, Entered, Custody, QueueCustody
  <2>. QED BY <2>3 DEF Queue!Next
<1>2. CASE StartRun(d) \/ EndStages(d) \/ Panic(d) \/ RecordVerdict(d) \/ CloseRun(d)
  BY <1>2 DEF StartRun, EndStages, Panic, RecordVerdict, CloseRun
<1>. QED BY <1>1, <1>2 DEF RunStep

\* A cancel takes the one who waits out of the queue, and does nothing else to it.
LEMMA QueueCancel ==
    ASSUME Inv, NEW d \in Deploys,
           CancelRead(d) \/ CancelStep(d) \/ DropCancel(d)
    PROVE  [Queue!Next]_Queue!vars
<1>. USE HistoryAssumption, SchedulerAssumption
         DEF Inv, Types, TypeOK, Over, Outgoing, Queue!vars, slotVars, runVars,
             reqVars, sysVars
<1>1. CASE CancelQueued(d)
  <2>1. Entered(d) /\ running[ProjectOf[d]] # d
    BY <1>1
       DEF CancelQueued, Custody, QueueCustody, RunCustody, OneRunPerKey, Live
  <2>2. Queue!Withdraw(d)
    BY <1>1, <2>1 DEF CancelQueued, Queue!Withdraw, Entered
  <2>. QED BY <2>2 DEF Queue!Next
<1>2. CASE CancelRead(d) \/ CancelElse(d) \/ RecordCanceled(d)
           \/ CloseCanceled(d) \/ DropCancel(d)
  BY <1>2 DEF CancelRead, CancelElse, RecordCanceled, CloseCanceled, DropCancel
<1>. QED BY <1>1, <1>2 DEF CancelStep

\* A crash ends the queue, and nothing else outside it touches it.
LEMMA QueueSystem ==
    ASSUME Inv,
           \/ \E p \in Projects : RemoveCheck(p) \/ RemoveRows(p)
           \/ \E d \in Deploys : ViewPast(d)
           \/ Crash \/ Startup
    PROVE  [Queue!Next]_Queue!vars
<1>. USE HistoryAssumption, SchedulerAssumption
         DEF Inv, Types, TypeOK, Over, Outgoing, Queue!vars, slotVars, runVars,
             reqVars, sysVars
<1>1. CASE Crash
  <2>1. \A p \in Projects : {running[p], pending[p]} \ {None} \subseteq Over'
    BY <1>1 DEF Crash, Custody, QueueCustody, RunCustody, OneRunPerKey, Live,
                Entered
  <2>2. Over \subseteq Over'
    BY <1>1 DEF Crash
  <2>3. Outgoing' = {}
    BY <1>1 DEF Crash
  <2>4. Over' \in SUBSET Deploys
    OBVIOUS
  <2>. HIDE DEF Over, Outgoing
  <2>5. Queue!Stop(Over')
    BY <1>1, <2>1, <2>2, <2>3 DEF Crash, Queue!Stop
  <2>. QED BY <2>4, <2>5 DEF Queue!Next
<1>2. ASSUME NEW p \in Projects, RemoveCheck(p) \/ RemoveRows(p)
      PROVE  UNCHANGED Queue!vars
  BY <1>2 DEF RemoveCheck, RemoveRows
<1>3. ASSUME NEW d \in Deploys, ViewPast(d) PROVE UNCHANGED Queue!vars
  BY <1>3 DEF ViewPast
<1>4. CASE Startup
  <2>1. Over' = Over /\ Outgoing' = Outgoing
    BY <1>4 DEF Startup
  <2>. HIDE DEF Over, Outgoing
  <2>. QED BY <1>4, <2>1 DEF Startup, Queue!Return, Queue!Next
<1>. QED BY <1>1, <1>2, <1>3, <1>4

LEMMA QueueNext == Inv /\ [Next]_vars => [Queue!Next]_Queue!vars
<1>. SUFFICES ASSUME Inv, [Next]_vars PROVE [Queue!Next]_Queue!vars
  OBVIOUS
<1>1. CASE UNCHANGED vars
  BY <1>1 DEF vars, slotVars, reqVars, sysVars, Over, Outgoing, Queue!vars
<1>2. CASE Next
  BY <1>2, QueueSubmit, QueueRun, QueueCancel, QueueSystem DEF Next
<1>. QED BY <1>1, <1>2

\* Every behaviour of the scheduler is one of the promised latest-wins queue,
\* whatever its clients, its storage and its process do.
THEOREM QueueImplemented == Spec => ImplementsQueue
BY QueueInit, QueueNext, InvHolds, PTL DEF Spec, ImplementsQueue, Queue!Spec
=============================================================================
