--------------------------- MODULE RoutingProofs ---------------------------
(***************************************************************************)
(* Proofs about Ingress, for any hostnames, ports and budgets of troubles, *)
(* and about Addressing, for any documents, requests, rows and lists that  *)
(* were there before, and port ranges.                                     *)
(*                                                                         *)
(* Ingress.  Unmet says that an operation that met no other has the file   *)
(* for itself and that what it answered is in every text others hold; it   *)
(* carries OthersUntouched through every overlap and trouble.  With        *)
(* operations one at a time, Snapshot says how the file relates to the     *)
(* text the operation under way has read.  Until one of them is dropped or *)
(* cut short, Consistent says that cloudflared and DNS know the table      *)
(* callers rely on, Routes, even in the middle of an operation;            *)
(* AnswersHold and the refinement follow from it.                          *)
(*                                                                         *)
(* Addressing.  A key says what it is made of (KeysDiffer), so what is     *)
(* registered under it is what was asked for (Identity).  The rule list    *)
(* stays one in which a host has one rule and the catch-all is last        *)
(* (Listed), and an edit replaces a rule or puts one in (Spliced).  What   *)
(* loops compute is bounded by a set that each step stays in               *)
(* (Recursively gives the function, Inductively what holds all along it):  *)
(* the candidate port, the slug, the text with its references read off.    *)
(***************************************************************************)
EXTENDS Ingress, Addressing, SequenceTheorems, WellFoundedInduction, TLAPS

-----------------------------------------------------------------------------
(* Ingress.                                                                 *)

UndecidedStages == {"fill", "name", "restart", "undo", "refill"}

\* One operation runs at a time, and a running one has answered nothing.
Alone ==
    /\ \A g, h \in Hosts : at[g] # "idle" /\ at[h] # "idle" => g = h
    /\ \A h \in Hosts : at[h] # "idle" => answer[h] = Unknown

\* Every answer is in the text an operation goes by, and between its write and
\* its decision the file is that text with its own line changed.
Snapshot ==
    \A h \in Hosts :
        /\ at[h] = "write" \/ at[h] \in UndecidedStages =>
             \A g \in Hosts : answer[g] # Unknown => text[h][g] = answer[g]
        /\ at[h] = "write" => config = text[h]
        /\ at[h] \in {"name", "restart"} => config = Edited(h)
        /\ at[h] = "unname" => goal[h] = Off /\ config # Torn /\ config[h] = Off
        /\ at[h] = "name" => goal[h] # Off

Kept == \A h \in Hosts : answer[h] # Unknown => config = Torn \/ config[h] = answer[h]

OneInv == TypeOK /\ (spent["overlap"] = 0 => Alone /\ Snapshot /\ Kept)

Quiet == \A h \in Hosts : at[h] \notin UndecidedStages

\* A table is the one callers rely on.
Settled(table) == /\ loaded \in {table, Down}
                  /\ \A g \in Hosts : table[g] # Off => g \in dns

Consistent ==
    /\ Quiet => config # Torn /\ Settled(config)
    /\ \A h \in Hosts :
        /\ at[h] \in UndecidedStages => Settled(text[h])
        /\ at[h] = "unname" => loaded \in {config, Down}
        /\ at[h] = "restart" /\ goal[h] # Off => h \in dns

Named == \A h \in Hosts : answer[h] # Unknown => (h \in dns <=> answer[h] # Off)

CalmInv == /\ OneInv
           /\ Undisturbed => gone = {} /\ Consistent /\ Named
-----------------------------------------------------------------------------
LEMMA BlankIsTable == Blank \in Table
BY DEF Blank, Table

\* What an operation writes is a table that differs in its own line.
LEMMA EditedIs ==
    ASSUME NEW h \in Hosts, TypeOK
    PROVE  /\ Edited(h) \in Table
           /\ Edited(h)[h] = goal[h]
           /\ \A g \in Hosts : g # h => Edited(h)[g] = text[h][g]
BY DEF Edited, TypeOK, Table

OpTypes ==
    /\ at \in [Hosts -> Stages]
    /\ goal \in [Hosts -> Ports \cup {Off}]
    /\ text \in [Hosts -> Table]
    /\ gone \in SUBSET Hosts
    /\ answer \in [Hosts -> Ports \cup {Off, Unknown}]

LEMMA ReturnTypes ==
    ASSUME NEW h \in Hosts, TypeOK, Fail(h) \/ Succeed(h)
    PROVE  OpTypes'
BY BlankIsTable DEF TypeOK, OpTypes, Fail, Succeed, Return, Stages

LEMMA MoveTypes ==
    ASSUME NEW h \in Hosts, NEW stage \in Stages, TypeOK,
           MoveTo(h, stage) \/ Resume(h, stage)
    PROVE  OpTypes'
BY ReturnTypes DEF TypeOK, OpTypes, MoveTo, Resume

LEMMA SpendTypes ==
    ASSUME NEW kind \in Kinds, TypeOK, Spend(kind)
    PROVE  spent' \in [Kinds -> Nat]
BY DEF TypeOK, Spend

LEMMA InitTypes == Init => TypeOK
BY IngressAssumption, BlankIsTable DEF Init, TypeOK, Table, Stages

\* Any step keeps the types.
LEMMA StepTypes == TypeOK /\ [Next]_vars => TypeOK'
<1> SUFFICES ASSUME TypeOK, [Next]_vars PROVE TypeOK'
    OBVIOUS
<1> DEFINE Goal == /\ OpTypes'
                   /\ config' \in Table \cup {Torn}
                   /\ loaded' \in Table \cup {Down}
                   /\ dns' \in SUBSET Hosts
                   /\ met' \in SUBSET Hosts
                   /\ spent' \in [Kinds -> Nat]
<1> \A kind \in Kinds : Spend(kind) => spent' \in [Kinds -> Nat]
    BY SpendTypes
<1> \A h \in Hosts : Fail(h) \/ Succeed(h) => OpTypes'
    BY ReturnTypes
<1> \A h \in Hosts, stage \in Stages : MoveTo(h, stage) \/ Resume(h, stage) => OpTypes'
    BY MoveTypes
<1> {"overlap", "file", "disk", "dns", "restart", "drop", "crash"} \subseteq Kinds
    BY DEF Kinds
<1> {"read", "write", "fill", "name", "restart", "undo", "refill", "unname"} \subseteq Stages
    BY DEF Stages
<1> USE DEF TypeOK
<1>1. ASSUME NEW h \in Hosts, NEW g \in Ports \cup {Off}, Begin(h, g)
      PROVE Goal
    BY <1>1 DEF Begin, OpTypes
<1>2. ASSUME NEW h \in Hosts, Read(h) PROVE Goal
  <2>1. OpTypes'
      BY <1>2 DEF Read, OpTypes
  <2>2. spent' \in [Kinds -> Nat]
      BY <1>2 DEF Read
  <2>3. met' \in SUBSET Hosts
      BY <1>2 DEF Read, Meet, Holding
  <2> QED
      BY <1>2, <2>1, <2>2, <2>3 DEF Read
<1>3. ASSUME NEW h \in Hosts, Truncate(h) PROVE Goal
    BY <1>3 DEF Truncate
<1>4. ASSUME NEW h \in Hosts, Fill(h) PROVE Goal
    BY <1>4, EditedIs DEF Fill
<1>5. ASSUME NEW h \in Hosts, Name(h) PROVE Goal
    BY <1>5 DEF Name
<1>6. ASSUME NEW h \in Hosts, Restart(h) PROVE Goal
    BY <1>6 DEF Restart
<1>7. ASSUME NEW h \in Hosts, Refill(h) PROVE Goal
    BY <1>7 DEF Refill
<1>8. ASSUME NEW h \in Hosts, Unname(h) PROVE Goal
    BY <1>8 DEF Unname
<1>9. ASSUME NEW h \in Hosts, Drop(h) PROVE Goal
  <2>1. OpTypes'
      BY <1>9 DEF Drop, OpTypes
  <2> QED
      BY <1>9, <2>1 DEF Drop
<1>10. ASSUME Crash PROVE Goal
    BY <1>10, BlankIsTable DEF Crash, OpTypes, Stages
<1>11. ASSUME UNCHANGED vars PROVE Goal
    BY <1>11 DEF vars, opVars, OpTypes
<1>12. Goal
    BY <1>1, <1>2, <1>3, <1>4, <1>5, <1>6, <1>7, <1>8, <1>9, <1>10, <1>11
    DEF Next, Step
<1> QED
    BY <1>12 DEF OpTypes

\* Every variable keeps to the values the code can give it.
THEOREM TypeCorrect == Spec => []TypeOK
BY InitTypes, StepTypes, PTL DEF Spec
-----------------------------------------------------------------------------
\* With a text that it may still write.
Holders == {"write", "fill", "name", "restart", "undo", "refill"}

\* What the caller of an operation relies on; a removal that is at its DNS call
\* has taken its rule out.
Relied(h) == IF at[h] = "unname" THEN Off ELSE answer[h]

\* An operation that met no other has the file for itself, and what it answered
\* is in the file and in every text that others hold.
Unmet ==
    \A h \in Hosts :
        /\ at[h] # "idle" => answer[h] = Unknown
        /\ at[h] = "unname" => goal[h] = Off
        /\ h \notin met =>
             /\ at[h] \in Holders => \A g \in Hosts : at[g] \in Holders => g = h
             /\ at[h] = "write" => config = text[h]
             /\ at[h] \in {"name", "restart"} => config = Edited(h)
             /\ Relied(h) # Unknown =>
                  /\ config = Torn \/ config[h] = Relied(h)
                  /\ \A g \in Hosts \ {h} : at[g] \in Holders => text[g][h] = Relied(h)

LEMMA InitUnmet == Init => Unmet
BY DEF Init, Unmet, Holders, Relied

\* Any step keeps it.
LEMMA StepUnmet == TypeOK /\ Unmet /\ [Next]_vars => Unmet'
<1> SUFFICES ASSUME TypeOK, Unmet, [Next]_vars PROVE Unmet'
    OBVIOUS
<1> TypeOK'
    BY StepTypes
<1> \A h \in Hosts : /\ Edited(h) \in Table
                     /\ Edited(h)[h] = goal[h]
                     /\ \A g \in Hosts : g # h => Edited(h)[g] = text[h][g]
    BY EditedIs
<1> \A h \in Hosts : text'[h] = text[h] /\ goal'[h] = goal[h] => Edited(h)' = Edited(h)
    BY DEF Edited
<1> Torn \notin Table /\ Off # Unknown
    BY IngressAssumption
<1> USE DEF TypeOK, Unmet, Holders, Relied, MoveTo, Return, Fail, Succeed, Resume
<1>1. ASSUME NEW h \in Hosts, NEW g \in Ports \cup {Off}, Begin(h, g)
      PROVE Unmet'
    BY <1>1 DEF Begin
<1>2. ASSUME NEW h \in Hosts, Read(h) PROVE Unmet'
  <2>1. CASE Holding = {}
      BY <1>2, <2>1 DEF Read, Meet, Holding
  <2>2. CASE Holding # {}
      BY <1>2, <2>2 DEF Read, Meet, Holding
  <2> QED
      BY <2>1, <2>2
<1>3. ASSUME NEW h \in Hosts, Truncate(h) PROVE Unmet'
    BY <1>3 DEF Truncate
<1>4. ASSUME NEW h \in Hosts, Fill(h) PROVE Unmet'
    BY <1>4 DEF Fill
<1>5. ASSUME NEW h \in Hosts, Name(h) PROVE Unmet'
    BY <1>5 DEF Name
<1>6. ASSUME NEW h \in Hosts, Restart(h) PROVE Unmet'
    BY <1>6 DEF Restart
<1>7. ASSUME NEW h \in Hosts, Refill(h) PROVE Unmet'
    BY <1>7 DEF Refill
<1>8. ASSUME NEW h \in Hosts, Unname(h) PROVE Unmet'
  <2>1. CASE Succeed(h)
    <3>1. /\ answer' = [answer EXCEPT ![h] = Off] /\ at' = [at EXCEPT ![h] = "idle"]
          /\ text' = [text EXCEPT ![h] = Blank] /\ goal' = [goal EXCEPT ![h] = Off]
          /\ config' = config /\ met' = met /\ at[h] = "unname"
        BY <1>8, <2>1 DEF Unname
    <3> QED
        BY <3>1
  <2>2. CASE Fail(h)
      BY <1>8, <2>2 DEF Unname
  <2> QED
      BY <1>8, <2>1, <2>2 DEF Unname
<1>9. ASSUME NEW h \in Hosts, Drop(h) PROVE Unmet'
    BY <1>9 DEF Drop
<1>10. CASE Crash
    BY <1>10 DEF Crash
<1>11. CASE UNCHANGED vars
    BY <1>11 DEF vars, opVars
<1> QED
    BY <1>1, <1>2, <1>3, <1>4, <1>5, <1>6, <1>7, <1>8, <1>9, <1>10, <1>11
    DEF Next, Step

\* Operations leave each other's rules alone, whatever overlaps, is dropped, cut
\* short by a crash or rolled back; only those that met may lose their own.
THEOREM OthersHold == Spec => []OthersUntouched
<1>1. Unmet => OthersUntouched
    BY DEF Unmet, OthersUntouched, Relied
<1> QED
    BY InitTypes, StepTypes, InitUnmet, StepUnmet, <1>1, PTL DEF Spec
-----------------------------------------------------------------------------
LEMMA InitOne == Init => OneInv
BY InitTypes DEF Init, OneInv, Alone, Snapshot, Kept, UndecidedStages

\* What has not happened after a step had not before, and is not the step.
LEMMA StepSpends ==
    ASSUME TypeOK, [Next]_vars
    PROVE  \A kind \in Kinds : spent'[kind] = 0 => spent[kind] = 0 /\ ~Spend(kind)
<1>1. (\E kind \in Kinds : Spend(kind)) \/ UNCHANGED spent
    BY DEF Next, Step, Begin, Read, Truncate, Fill, Name, Restart, Refill,
       Unname, Drop, Crash, Kinds, vars
<1>2. ASSUME NEW kind \in Kinds, Spend(kind), NEW k \in Kinds
      PROVE  spent'[k] = (IF k = kind THEN spent[k] + 1 ELSE spent[k])
    BY <1>2 DEF Spend, TypeOK
<1>3. \A k \in Kinds : spent[k] \in Nat
    BY DEF TypeOK
<1> QED
    BY <1>1, <1>2, <1>3

\* A step after which no operation is disturbed is no trouble.
LEMMA StepUndisturbed ==
    ASSUME TypeOK, [Next]_vars, Undisturbed'
    PROVE  /\ Undisturbed /\ spent["overlap"] = 0 /\ spent'["overlap"] = 0
           /\ ~Spend("overlap") /\ ~Spend("disk") /\ ~Spend("drop") /\ ~Spend("crash")
BY StepSpends DEF Undisturbed, Kinds

\* With operations one at a time, any step keeps what they rely on.
LEMMA StepOne == OneInv /\ [Next]_vars => OneInv'
<1> SUFFICES ASSUME OneInv, [Next]_vars, spent'["overlap"] = 0
             PROVE (Alone /\ Snapshot /\ Kept)'
    BY StepTypes DEF OneInv
<1> spent["overlap"] = 0 /\ ~Spend("overlap")
    BY StepSpends DEF OneInv, Kinds
<1> TypeOK /\ Alone /\ Snapshot /\ Kept
    BY DEF OneInv
<1> TypeOK'
    BY StepTypes
<1> \A h \in Hosts : /\ Edited(h) \in Table
                     /\ Edited(h)[h] = goal[h]
                     /\ \A g \in Hosts : g # h => Edited(h)[g] = text[h][g]
    BY EditedIs
<1> \A h \in Hosts : text'[h] = text[h] /\ goal'[h] = goal[h] => Edited(h)' = Edited(h)
    BY DEF Edited
<1> Torn \notin Table
    BY IngressAssumption
<1> USE DEF TypeOK, UndecidedStages, Alone, Snapshot, Kept, MoveTo,
            Return, Fail, Succeed, Resume
<1> DEFINE Goal == (Alone /\ Snapshot /\ Kept)'
<1>1. ASSUME NEW h \in Hosts, NEW g \in Ports \cup {Off}, Begin(h, g)
      PROVE Goal
    BY <1>1 DEF Begin
<1>2. ASSUME NEW h \in Hosts, Read(h) PROVE Goal
    BY <1>2 DEF Read
<1>3. ASSUME NEW h \in Hosts, Truncate(h) PROVE Goal
    BY <1>3 DEF Truncate
<1>4. ASSUME NEW h \in Hosts, Fill(h) PROVE Goal
    BY <1>4 DEF Fill
<1>5. ASSUME NEW h \in Hosts, Name(h) PROVE Goal
    BY <1>5 DEF Name
<1>6. ASSUME NEW h \in Hosts, Restart(h) PROVE Goal
    BY <1>6 DEF Restart
<1>7. ASSUME NEW h \in Hosts, Refill(h) PROVE Goal
    BY <1>7 DEF Refill
<1>8. ASSUME NEW h \in Hosts, Unname(h) PROVE Goal
    BY <1>8 DEF Unname
<1>9. ASSUME NEW h \in Hosts, Drop(h) PROVE Goal
    BY <1>9 DEF Drop
<1>10. CASE Crash
    BY <1>10 DEF Crash
<1>11. CASE UNCHANGED vars
    BY <1>11 DEF vars, opVars
<1> QED
    BY <1>1, <1>2, <1>3, <1>4, <1>5, <1>6, <1>7, <1>8, <1>9, <1>10, <1>11
    DEF Next, Step

-----------------------------------------------------------------------------
LEMMA InitCalm == Init => CalmInv
<1> SUFFICES ASSUME Init PROVE CalmInv
    OBVIOUS
<1>1. OneInv
    BY InitOne
<1>2. Consistent
    BY IngressAssumption, <1>1 DEF Init, Consistent, Quiet, Settled, UndecidedStages,
       OneInv, TypeOK
<1>3. Named /\ gone = {}
    BY IngressAssumption DEF Init, Named
<1> QED
    BY <1>1, <1>2, <1>3 DEF CalmInv

\* Until an operation is disturbed, any step leaves cloudflared and DNS at the
\* table.
LEMMA StepCalm == CalmInv /\ [Next]_vars => CalmInv'
<1> SUFFICES ASSUME CalmInv, [Next]_vars, Undisturbed'
             PROVE (gone = {} /\ Consistent /\ Named)'
    BY StepOne DEF CalmInv
<1>1. /\ Undisturbed /\ spent["overlap"] = 0 /\ spent'["overlap"] = 0
      /\ ~Spend("overlap") /\ ~Spend("disk") /\ ~Spend("drop") /\ ~Spend("crash")
    BY StepUndisturbed DEF CalmInv, OneInv
<1> /\ TypeOK /\ Alone /\ Snapshot /\ Kept
    /\ Consistent /\ Named /\ gone = {}
    BY <1>1 DEF CalmInv, OneInv
<1> TypeOK' /\ Alone' /\ Snapshot' /\ Kept'
    BY <1>1, StepOne DEF CalmInv, OneInv
<1>2. \A h \in Hosts : ~Drop(h)
    BY <1>1 DEF Drop
<1>3. ~Crash
    BY <1>1 DEF Crash
<1>4. gone' = {}
    BY <1>2, <1>3 DEF Next, Step, Begin, Read, Truncate, Fill, Name, Restart,
       Refill, Unname, MoveTo, Return, Fail, Succeed, Resume, vars, opVars
<1>5. \A h \in Hosts : /\ Edited(h) \in Table
                        /\ Edited(h)[h] = goal[h]
                        /\ \A g \in Hosts : g # h => Edited(h)[g] = text[h][g]
    BY EditedIs
<1>6. Torn \notin Table /\ Down \notin Table
    BY IngressAssumption
<1> USE <1>1, <1>5, <1>6
<1> USE DEF TypeOK, UndecidedStages, Alone, Snapshot, Kept, Consistent,
            Settled, Quiet, Named, MoveTo, Return, Fail, Succeed, Resume
<1> DEFINE Goal == (Consistent /\ Named)'
<1>7. ASSUME NEW h \in Hosts, NEW g \in Ports \cup {Off}, Begin(h, g)
      PROVE Goal
    BY <1>7 DEF Begin
<1>8. ASSUME NEW h \in Hosts, Read(h) PROVE Goal
    BY <1>8 DEF Read
<1>9. ASSUME NEW h \in Hosts, Truncate(h) PROVE Goal
    BY <1>9 DEF Truncate
<1>10. ASSUME NEW h \in Hosts, Fill(h) PROVE Goal
    BY <1>10 DEF Fill
<1>11. ASSUME NEW h \in Hosts, Name(h) PROVE Goal
    BY <1>11 DEF Name
<1>12. ASSUME NEW h \in Hosts, Restart(h) PROVE Goal
    BY <1>12 DEF Restart
<1>13. ASSUME NEW h \in Hosts, Refill(h) PROVE Goal
    BY <1>13 DEF Refill
<1>14. ASSUME NEW h \in Hosts, Unname(h) PROVE Goal
    BY <1>14 DEF Unname
<1>15. ASSUME UNCHANGED vars PROVE Goal
    BY <1>15 DEF vars, opVars
<1> QED
    BY <1>2, <1>3, <1>4, <1>7, <1>8, <1>9, <1>10, <1>11, <1>12, <1>13, <1>14, <1>15
    DEF Next, Step

\* Until two meet or one is disturbed, what an operation answered is
\* what DNS and the running cloudflared do.
THEOREM AnswersTrue == Spec => []AnswersHold
<1>1. Init => CalmInv
    BY InitCalm
<1>2. CalmInv /\ [Next]_vars => CalmInv'
    BY StepCalm
<1>3. CalmInv => AnswersHold
  <2> SUFFICES ASSUME CalmInv, Undisturbed, NEW h \in Hosts, answer[h] # Unknown
               PROVE  /\ h \in dns <=> answer[h] # Off
                      /\ loaded # Down => loaded[h] = answer[h]
      BY DEF AnswersHold
  <2> spent["overlap"] = 0
      BY DEF Undisturbed
  <2> USE DEF CalmInv, OneInv, Consistent, Settled, Quiet, Named, Snapshot, Kept
  <2>1. CASE Quiet
      BY <2>1
  <2>2. CASE ~Quiet
      BY <2>2
  <2> QED
      BY <2>1, <2>2
<1> QED
    BY <1>1, <1>2, <1>3, PTL DEF Spec
-----------------------------------------------------------------------------
\* Until two meet or one is disturbed, operations implement the table of
\* their contract.
THEOREM TableImplemented == Spec => ImplementsTable
<1>1. Init => Promise!Init
  <2> SUFFICES ASSUME Init PROVE Promise!Init
      OBVIOUS
  <2>1. Routes = config
      BY DEF Init, Routes, Undecided
  <2> QED
      BY <2>1 DEF Init, Promise!Init, Table
<1>2. CalmInv /\ CalmInv' /\ [Next]_vars =>
          [Undisturbed' => Promise!Next]_(Promise!vars)
  <2> SUFFICES ASSUME CalmInv, CalmInv', [Next]_vars, Undisturbed'
               PROVE  Promise!Next \/ UNCHANGED <<Routes, answer>>
      BY DEF Promise!vars
  <2> USE DEF CalmInv, OneInv
  <2>1. /\ TypeOK /\ Alone /\ Snapshot /\ Kept /\ Consistent
        /\ gone = {} /\ TypeOK' /\ Alone'
      BY StepUndisturbed
  <2>2. /\ \A h \in Hosts : ~Drop(h)
        /\ ~Crash
        /\ ~Spend("disk") /\ ~Spend("overlap")
      BY StepUndisturbed DEF Drop, Crash
  <2>3. Quiet => Routes = config
      BY DEF Quiet, Routes, Undecided, UndecidedStages
  <2>4. ASSUME NEW h \in Hosts, at[h] \in UndecidedStages PROVE Routes = text[h]
    <3>1. Undecided = {h}
        BY <2>4, <2>1 DEF Alone, Undecided, UndecidedStages
    <3> QED
        BY <3>1 DEF Routes
  <2>5. Quiet' => Routes' = config'
      BY DEF Quiet, Routes, Undecided, UndecidedStages
  <2>6. ASSUME NEW h \in Hosts, at'[h] \in UndecidedStages PROVE Routes' = text'[h]
    <3>1. Undecided' = {h}
        BY <2>6, <2>1 DEF Alone, Undecided, UndecidedStages
    <3> QED
        BY <3>1 DEF Routes
  <2>7. \A h \in Hosts : /\ Edited(h)[h] = goal[h]
                         /\ \A g \in Hosts : g # h => Edited(h)[g] = text[h][g]
                         /\ Edited(h) = [text[h] EXCEPT ![h] = goal[h]]
      BY EditedIs, <2>1 DEF Edited
  <2> HIDE DEF Routes, CalmInv, OneInv
  <2> USE <2>1, <2>2
  <2> USE DEF TypeOK, UndecidedStages, Alone, Snapshot, Consistent, Quiet,
              MoveTo, Return, Fail, Succeed, Resume
  <2> DEFINE Goal == Promise!Next \/ UNCHANGED <<Routes, answer>>
  <2>8. ASSUME NEW h \in Hosts, NEW g \in Ports \cup {Off}, Begin(h, g)
        PROVE Goal
    <3>1. Quiet /\ Quiet'
        BY <2>8 DEF Begin
    <3> QED
        BY <2>8, <3>1, <2>3, <2>5 DEF Begin, Promise!Next, Promise!Ask
  <2>9. ASSUME NEW h \in Hosts, Read(h) PROVE Goal
    <3>1. Quiet /\ Quiet' /\ answer[h] = Unknown /\ config' = config
        BY <2>9 DEF Read
    <3>2. answer' = answer \/ (answer' = [answer EXCEPT ![h] = goal[h]] /\ config[h] = goal[h])
        BY <2>9, <3>1 DEF Read
    <3> QED
        BY <3>1, <3>2, <2>3, <2>5 DEF Promise!Next, Promise!Answer
  <2>10. ASSUME NEW h \in Hosts, Truncate(h) PROVE Goal
    <3>1. answer' = answer /\ text'[h] = IF at'[h] = "idle" THEN Blank ELSE text[h]
        BY <2>10 DEF Truncate
    <3>2. CASE at[h] = "write" /\ at'[h] = "fill"
        BY <2>10, <2>3, <2>6, <3>1, <3>2
    <3>3. CASE at[h] = "write" /\ at'[h] = "idle"
      <4>1. Quiet /\ Quiet' /\ config' = config
          BY <2>10, <3>3 DEF Truncate
      <4> QED
          BY <4>1, <2>3, <2>5, <3>1
    <3>4. CASE at[h] = "undo"
      <4>1. at'[h] = "refill"
          BY <2>10, <3>4 DEF Truncate
      <4> QED
          BY <4>1, <2>4, <2>6, <3>1, <3>4
    <3> QED
        BY <2>10, <3>2, <3>3, <3>4 DEF Truncate
  <2>11. ASSUME NEW h \in Hosts, Fill(h) PROVE Goal
    <3>1. at'[h] \in UndecidedStages /\ text' = text /\ answer' = answer
        BY <2>11 DEF Fill
    <3> QED
        BY <2>11, <3>1, <2>4, <2>6 DEF Fill
  <2>12. ASSUME NEW h \in Hosts, Name(h) PROVE Goal
    <3>1. at'[h] \in UndecidedStages /\ text' = text /\ answer' = answer
        BY <2>12 DEF Name
    <3> QED
        BY <2>12, <3>1, <2>4, <2>6 DEF Name
  <2>13. ASSUME NEW h \in Hosts, Restart(h) PROVE Goal
    <3>1. /\ answer[h] = Unknown
          /\ config = [text[h] EXCEPT ![h] = goal[h]]
          /\ Routes = text[h]
        BY <2>13, <2>4, <2>7 DEF Restart
    <3>2. CASE at'[h] = "undo"
        BY <2>13, <3>1, <3>2, <2>6 DEF Restart
    <3>3. CASE at'[h] = "unname"
      <4>1. Quiet' /\ config' = config /\ answer' = answer /\ goal[h] = Off
          BY <2>13, <3>3 DEF Restart
      <4> QED
          BY <4>1, <3>1, <2>5 DEF Promise!Next, Promise!Withdraw
    <3>4. CASE at'[h] = "idle"
      <4>1. Quiet' /\ config' = config /\ answer' = [answer EXCEPT ![h] = goal[h]]
          BY <2>13, <3>4 DEF Restart
      <4> QED
          BY <4>1, <3>1, <2>5 DEF Promise!Next, Promise!Settle
    <3> QED
        BY <2>13, <3>2, <3>3, <3>4 DEF Restart
  <2>14. ASSUME NEW h \in Hosts, Refill(h) PROVE Goal
    <3>1. Quiet' /\ config' = text[h] /\ answer' = answer
        BY <2>14 DEF Refill
    <3> QED
        BY <2>14, <3>1, <2>4, <2>5 DEF Refill
  <2>15. ASSUME NEW h \in Hosts, Unname(h) PROVE Goal
    <3>1. /\ Quiet /\ Quiet' /\ config' = config /\ config[h] = goal[h]
          /\ answer[h] = Unknown
        BY <2>15 DEF Unname
    <3>2. answer' = answer \/ answer' = [answer EXCEPT ![h] = goal[h]]
        BY <2>15, <3>1 DEF Unname
    <3> QED
        BY <3>1, <3>2, <2>3, <2>5 DEF Promise!Next, Promise!Answer
  <2>16. ASSUME UNCHANGED vars PROVE Goal
    <3>1. UNCHANGED <<Routes, answer>>
        BY <2>16 DEF vars, opVars, Routes, Undecided
    <3> QED
        BY <3>1
  <2> QED
      BY <2>8, <2>9, <2>10, <2>11, <2>12, <2>13, <2>14, <2>15, <2>16 DEF Next, Step
<1>3. Init => CalmInv
    BY InitCalm
<1>4. CalmInv /\ [Next]_vars => CalmInv'
    BY StepCalm
<1> QED
    BY <1>1, <1>2, <1>3, <1>4, PTL DEF Spec, ImplementsTable

-----------------------------------------------------------------------------
(* Keys.                                                                    *)

\* u is s and then t.
Joins(S, u, s, t) ==
    /\ u \in Seq(S) /\ Len(u) = Len(s) + Len(t)
    /\ \A i \in 1..Len(s) : u[i] = s[i]
    /\ \A i \in 1..Len(t) : u[Len(s) + i] = t[i]

\* Every concatenation is a join.
LEMMA Joined ==
    ASSUME NEW S, NEW s \in Seq(S), NEW t \in Seq(S)
    PROVE  Joins(S, s \o t, s, t)
<1>1. Len(s) \in Nat /\ Len(t) \in Nat
  OBVIOUS
<1>2. \A i \in 1..Len(t) : Len(s) + i \in 1..(Len(s) + Len(t)) /\ ~(Len(s) + i <= Len(s))
                           /\ (Len(s) + i) - Len(s) = i
  BY <1>1
<1> QED  BY <1>1, <1>2, ConcatProperties DEF Joins

\* A base without two dashes, an environment, and what comes after it.
Chain(base, env, rest) == base \o <<"-", "-">> \o env \o rest

Chained(S, k, base, env, rest) ==
    /\ k \in Seq(S) /\ Len(k) = Len(base) + 2 + Len(env) + Len(rest)
    /\ \A i \in 1..Len(base) : k[i] = base[i]
    /\ k[Len(base) + 1] = "-" /\ k[Len(base) + 2] = "-"
    /\ \A i \in 1..Len(env) : k[Len(base) + 2 + i] = env[i]
    /\ \A i \in 1..Len(rest) : k[Len(base) + 2 + Len(env) + i] = rest[i]

\* What stands where in a chain.
LEMMA ChainIs ==
    ASSUME NEW S, "-" \in S, NEW base \in Seq(S), NEW env \in Seq(S), NEW rest \in Seq(S)
    PROVE  Chained(S, Chain(base, env, rest), base, env, rest)
<1> DEFINE dd == <<"-", "-">>
           x == base \o dd
           y == x \o env
           k == y \o rest
           b == Len(base)
           e == Len(env)
<1>1. dd \in Seq(S) /\ Len(dd) = 2 /\ dd[1] = "-" /\ dd[2] = "-"
  OBVIOUS
<1>2. b \in Nat /\ e \in Nat /\ Len(rest) \in Nat
  OBVIOUS
<1> HIDE DEF dd
<1>3. Joins(S, x, base, dd)
  BY <1>1, Joined, Zenon
<1> HIDE DEF x
<1>4. x \in Seq(S)
  BY <1>3 DEF Joins
<1>5. Joins(S, y, x, env)
  BY <1>4, Joined, Zenon
<1> HIDE DEF y
<1>6. y \in Seq(S)
  BY <1>5 DEF Joins
<1>7. Joins(S, k, y, rest)
  BY <1>6, Joined, Zenon
<1> HIDE DEF k
<1>8. /\ Len(x) = b + 2 /\ \A i \in 1..b : x[i] = base[i]
      /\ x[b + 1] = "-" /\ x[b + 2] = "-"
  <2>1. 1 \in 1..2 /\ 2 \in 1..2
    OBVIOUS
  <2> QED  BY <1>1, <1>3, <2>1 DEF Joins
<1>9. /\ Len(y) = b + 2 + e /\ \A i \in 1..(b + 2) : y[i] = x[i]
      /\ \A i \in 1..e : y[b + 2 + i] = env[i]
  BY <1>5, <1>8 DEF Joins
<1>10. /\ k \in Seq(S) /\ Len(k) = b + 2 + e + Len(rest)
       /\ \A i \in 1..(b + 2 + e) : k[i] = y[i]
       /\ \A i \in 1..Len(rest) : k[b + 2 + e + i] = rest[i]
  BY <1>7, <1>9 DEF Joins
<1> HIDE DEF b, e
<1>11. /\ \A i \in 1..(b + 2) : i \in 1..(b + 2 + e)
       /\ \A i \in 1..b : i \in 1..(b + 2)
       /\ b + 1 \in 1..(b + 2) /\ b + 2 \in 1..(b + 2)
       /\ \A i \in 1..e : b + 2 + i \in 1..(b + 2 + e)
  BY <1>2
<1>12. /\ \A i \in 1..b : k[i] = base[i]
       /\ k[b + 1] = "-" /\ k[b + 2] = "-"
       /\ \A i \in 1..e : k[b + 2 + i] = env[i]
  BY <1>8, <1>9, <1>10, <1>11
<1>13. Chained(S, k, base, env, rest)
  BY <1>10, <1>12 DEF Chained, b, e
<1> QED  BY <1>13 DEF k, y, x, dd, Chain

\* Of two equal chains no base is the shorter: the dashes that follow it would
\* be in the other, or its environment would begin with one.
LEMMA BasesAgree ==
    ASSUME NEW S, "-" \in S,
           NEW b1 \in Seq(S), NEW e1 \in Seq(S), NEW r1 \in Seq(S),
           NEW b2 \in Seq(S), NEW e2 \in Seq(S), NEW r2 \in Seq(S),
           Chain(b1, e1, r1) = Chain(b2, e2, r2),
           Len(e1) # 0, e1[1] # "-", ~TwoDashes(b2)
    PROVE  ~(Len(b1) < Len(b2))
<1> SUFFICES ASSUME Len(b1) < Len(b2)
             PROVE  FALSE
  OBVIOUS
<1> DEFINE k == Chain(b1, e1, r1)
           b == Len(b1)
           c == Len(b2)
<1>1. b \in Nat /\ c \in Nat /\ b < c /\ Len(e1) \in Nat \ {0} /\ Len(r1) \in Nat
      /\ Len(e2) \in Nat /\ Len(r2) \in Nat
  OBVIOUS
<1>0. Chained(S, k, b1, e1, r1) /\ Chained(S, k, b2, e2, r2)
  BY ChainIs, Zenon
<1> HIDE DEF k
<1>2. k[b + 1] = "-" /\ k[b + 2] = "-" /\ \A i \in 1..Len(e1) : k[b + 2 + i] = e1[i]
  BY <1>0 DEF Chained
<1>3. (\A i \in 1..c : k[i] = b2[i]) /\ k[c + 1] = "-" /\ k[c + 2] = "-"
  BY <1>0 DEF Chained
<1>4. k[b + 3] # "-"
  <2>1. 1 \in 1..Len(e1) /\ b + 2 + 1 = b + 3
    BY <1>1
  <2> QED  BY <1>2, <2>1
<1>5. CASE c = b + 1
  <2>1. c + 2 = b + 3
    BY <1>1, <1>5
  <2> QED  BY <1>3, <1>4, <2>1
<1>6. CASE c >= b + 2
  <2>1. b + 1 \in 1..(c - 1) /\ b + 1 \in 1..c /\ b + 2 \in 1..c /\ (b + 1) + 1 = b + 2
    BY <1>1, <1>6
  <2>2. b2[b + 1] = "-" /\ b2[b + 2] = "-"
    BY <1>2, <1>3, <2>1
  <2> QED  BY <2>1, <2>2 DEF TwoDashes
<1> QED  BY <1>1, <1>5, <1>6

\* Nor is an environment, if the bases are of one length.
LEMMA EnvsAgree ==
    ASSUME NEW S, "-" \in S,
           NEW b1 \in Seq(S), NEW e1 \in Seq(S), NEW r1 \in Seq(S),
           NEW b2 \in Seq(S), NEW e2 \in Seq(S), NEW r2 \in Seq(S),
           Chain(b1, e1, r1) = Chain(b2, e2, r2), Len(b1) = Len(b2),
           Len(r1) = 0 \/ (Len(r1) >= 2 /\ r1[1] = "-" /\ r1[2] = "-"),
           ~TwoDashes(e2), Last(e2) # "-"
    PROVE  ~(Len(e1) < Len(e2))
<1> SUFFICES ASSUME Len(e1) < Len(e2)
             PROVE  FALSE
  OBVIOUS
<1> DEFINE k == Chain(b1, e1, r1)
           b == Len(b1)
           d == Len(e1)
           e == Len(e2)
<1>1. b \in Nat /\ d \in Nat /\ e \in Nat /\ d < e /\ Len(r1) \in Nat /\ Len(r2) \in Nat
  OBVIOUS
<1>0. Chained(S, k, b1, e1, r1) /\ Chained(S, k, b2, e2, r2)
  BY ChainIs, Zenon
<1> HIDE DEF k
<1>2. Len(k) = b + 2 + d + Len(r1) /\ \A i \in 1..Len(r1) : k[b + 2 + d + i] = r1[i]
  BY <1>0 DEF Chained
<1>3. Len(k) = b + 2 + e + Len(r2) /\ \A i \in 1..e : k[b + 2 + i] = e2[i]
  BY <1>0 DEF Chained
<1>4. e2[e] # "-"
  BY DEF Last
<1> HIDE DEF b, d, e
<1>5. 1 \in 1..Len(r1) /\ 2 \in 1..Len(r1) /\ r1[1] = "-" /\ r1[2] = "-"
  BY <1>1, <1>2, <1>3
<1>6. k[b + 2 + d + 1] = "-" /\ k[b + 2 + d + 2] = "-"
  BY <1>2, <1>5
<1>7. /\ b + 2 + d + 1 = b + 2 + (d + 1) /\ b + 2 + d + 2 = b + 2 + (d + 2)
      /\ d + 1 \in 1..e
  BY <1>1
<1>8. e2[d + 1] = "-"
  BY <1>3, <1>6, <1>7
<1>9. CASE e = d + 1
  BY <1>4, <1>8, <1>9
<1>10. CASE e >= d + 2
  <2>1. d + 1 \in 1..(e - 1) /\ d + 2 \in 1..e /\ (d + 1) + 1 = d + 2
    BY <1>1, <1>10
  <2>2. e2[d + 2] = "-"
    BY <1>3, <1>6, <1>7, <2>1
  <2> QED  BY <1>8, <2>1, <2>2 DEF TwoDashes, e
<1> QED  BY <1>1, <1>9, <1>10

\* What the parts of a chain must be to be told apart.
Parts(S, base, env, rest) ==
    /\ base \in Seq(S) /\ ~TwoDashes(base)
    /\ env \in Seq(S) /\ ~TwoDashes(env)
    /\ Len(env) # 0 /\ env[1] # "-" /\ Last(env) # "-"
    /\ rest \in Seq(S)
    /\ Len(rest) = 0 \/ (Len(rest) >= 2 /\ rest[1] = "-" /\ rest[2] = "-")

\* A chain has one base, one environment and one rest.
LEMMA ChainsDiffer ==
    ASSUME NEW S, "-" \in S, NEW b1, NEW e1, NEW r1, NEW b2, NEW e2, NEW r2,
           Parts(S, b1, e1, r1), Parts(S, b2, e2, r2),
           Chain(b1, e1, r1) = Chain(b2, e2, r2)
    PROVE  b1 = b2 /\ e1 = e2 /\ r1 = r2
<1>1. /\ b1 \in Seq(S) /\ ~TwoDashes(b1) /\ b2 \in Seq(S) /\ ~TwoDashes(b2)
      /\ e1 \in Seq(S) /\ ~TwoDashes(e1) /\ e2 \in Seq(S) /\ ~TwoDashes(e2)
      /\ Len(e1) # 0 /\ e1[1] # "-" /\ Last(e1) # "-"
      /\ Len(e2) # 0 /\ e2[1] # "-" /\ Last(e2) # "-"
      /\ r1 \in Seq(S) /\ r2 \in Seq(S)
      /\ Len(r1) = 0 \/ (Len(r1) >= 2 /\ r1[1] = "-" /\ r1[2] = "-")
      /\ Len(r2) = 0 \/ (Len(r2) >= 2 /\ r2[1] = "-" /\ r2[2] = "-")
  BY DEF Parts
<1> DEFINE k == Chain(b1, e1, r1)
           b == Len(b1)
           e == Len(e1)
           r == Len(r1)
<1>2. b \in Nat /\ e \in Nat /\ r \in Nat /\ Len(b2) \in Nat /\ Len(e2) \in Nat /\ Len(r2) \in Nat
  BY <1>1
<1>3. Len(b2) = b
  <2>1. ~(Len(b1) < Len(b2)) /\ ~(Len(b2) < Len(b1))
    BY <1>1, BasesAgree
  <2> QED  BY <1>2, <2>1
<1>4. Len(e2) = e
  <2>1. ~(Len(e1) < Len(e2)) /\ ~(Len(e2) < Len(e1))
    BY <1>1, <1>3, EnvsAgree
  <2> QED  BY <1>2, <2>1
<1>0. Chained(S, k, b1, e1, r1) /\ Chained(S, k, b2, e2, r2)
  BY <1>1, ChainIs, Zenon
<1> HIDE DEF k
<1>5. /\ Len(k) = b + 2 + e + r
      /\ \A i \in 1..b : k[i] = b1[i]
      /\ \A i \in 1..e : k[b + 2 + i] = e1[i]
      /\ \A i \in 1..r : k[b + 2 + e + i] = r1[i]
  BY <1>0 DEF Chained
<1>6. /\ Len(k) = b + 2 + e + Len(r2)
      /\ \A i \in 1..b : k[i] = b2[i]
      /\ \A i \in 1..e : k[b + 2 + i] = e2[i]
      /\ \A i \in 1..Len(r2) : k[b + 2 + e + i] = r2[i]
  <2>1. /\ Len(k) = Len(b2) + 2 + Len(e2) + Len(r2)
        /\ \A i \in 1..Len(b2) : k[i] = b2[i]
        /\ \A i \in 1..Len(e2) : k[Len(b2) + 2 + i] = e2[i]
        /\ \A i \in 1..Len(r2) : k[Len(b2) + 2 + Len(e2) + i] = r2[i]
    BY <1>0 DEF Chained
  <2> HIDE DEF b, e
  <2> QED  BY <1>3, <1>4, <2>1
<1>7. Len(r2) = r
  BY <1>2, <1>5, <1>6
<1>8. b1 = b2
  BY <1>3, <1>5, <1>6, <1>1, SeqEqual
<1>9. e1 = e2
  BY <1>4, <1>5, <1>6, <1>1, SeqEqual
<1>10. r1 = r2
  BY <1>7, <1>5, <1>6, <1>1, SeqEqual
<1> QED  BY <1>8, <1>9, <1>10

Rest(slug) == IF slug = Absent THEN <<>> ELSE <<"-", "-">> \o slug

\* A key is a chain.
LEMMA KeyIsChain ==
    ASSUME NEW base, NEW env, NEW slug
    PROVE  Key(base, env, slug) = Chain(base, env, Rest(slug))
BY DEF Key, Chain, Rest

\* The alphabet of names.
LEMMA CharFacts ==
    /\ "-" \in NameChars /\ "-" \notin Small /\ "-" \notin Alnum
    /\ Small \subseteq NameChars
    /\ \A s : s \in Seq(PartChars) => s \in Seq(NameChars)
<1>1. "-" \in NameChars /\ PartChars \subseteq NameChars /\ Small \subseteq NameChars
  <2>1. "-" \in PartChars /\ Small \subseteq PartChars
    BY DEF PartChars, Alnum
  <2> QED  BY <2>1, Zenon DEF NameChars
<1>2. "-" \notin Small /\ "-" \notin Alnum
  BY DEF Small, Digits, Alnum
<1>3. \A s : s \in Seq(PartChars) => s \in Seq(NameChars)
  BY <1>1, SeqMonotonic
<1> QED  BY <1>1, <1>2, <1>3

\* What follows the environment: nothing, or two dashes and the slug.
LEMMA RestIs ==
    ASSUME NEW slug, slug # Absent => slug \in Seq(NameChars)
    PROVE  /\ Rest(slug) \in Seq(NameChars)
           /\ IF slug = Absent THEN Len(Rest(slug)) = 0
              ELSE /\ Len(Rest(slug)) = Len(slug) + 2
                   /\ Rest(slug)[1] = "-" /\ Rest(slug)[2] = "-"
                   /\ \A i \in 1..Len(slug) : Rest(slug)[2 + i] = slug[i]
<1>1. CASE slug = Absent
  BY <1>1 DEF Rest
<1>2. CASE slug # Absent
  <2> DEFINE dd == <<"-", "-">>
  <2>1. dd \in Seq(NameChars) /\ Len(dd) = 2 /\ dd[1] = "-" /\ dd[2] = "-"
    BY CharFacts
  <2>2. slug \in Seq(NameChars) /\ Rest(slug) = dd \o slug /\ Len(slug) \in Nat
    BY <1>2 DEF Rest
  <2> HIDE DEF dd
  <2>3. 1 \in 1..2 /\ 2 \in 1..2
    OBVIOUS
  <2>4. Joins(NameChars, Rest(slug), dd, slug)
    BY <2>1, <2>2, Joined, Zenon
  <2> QED  BY <1>2, <2>1, <2>2, <2>3, <2>4 DEF Joins
<1> QED  BY <1>1, <1>2

\* What the agent accepts is made of parts that a chain can be taken apart into.
LEMMA MetaParts ==
    ASSUME NEW m, ValidMeta(m)
    PROVE  /\ m.base \in Seq(NameChars) /\ ~TwoDashes(m.base)
           /\ m.env \in Seq(NameChars) /\ ~TwoDashes(m.env)
           /\ Len(m.env) # 0 /\ m.env[1] # "-" /\ Last(m.env) # "-"
           /\ m.slug # Absent => m.slug \in Seq(NameChars)
<1>1. m.env \in Seq(PartChars) /\ m.env # <<>>
  BY DEF ValidMeta, ValidPart
<1>2. Len(m.env) # 0
  BY <1>1, EmptySeq
<1>3. m.slug # Absent => m.slug \in Seq(PartChars)
  BY DEF ValidMeta, ValidPart
<1> QED  BY <1>1, <1>2, <1>3, CharFacts DEF ValidMeta, ValidName, ValidPart

\* A key is the key of one environment.
LEMMA KeysDiffer ==
    ASSUME NEW m, NEW n, ValidMeta(m), ValidMeta(n),
           Key(m.base, m.env, m.slug) = Key(n.base, n.env, n.slug)
    PROVE  m.base = n.base /\ m.env = n.env /\ m.slug = n.slug
<1> DEFINE r == Rest(m.slug)
           s == Rest(n.slug)
<1>1. Chain(m.base, m.env, r) = Chain(n.base, n.env, s)
  BY KeyIsChain
<1>2. /\ r \in Seq(NameChars) /\ s \in Seq(NameChars)
      /\ Len(r) = 0 \/ (Len(r) >= 2 /\ r[1] = "-" /\ r[2] = "-")
      /\ Len(s) = 0 \/ (Len(s) >= 2 /\ s[1] = "-" /\ s[2] = "-")
  <2>1. \A t \in Seq(NameChars) : Len(t) \in Nat /\ Len(t) + 2 >= 2
    OBVIOUS
  <2>2. r \in Seq(NameChars) /\ s \in Seq(NameChars)
    BY MetaParts, RestIs
  <2>3. Len(r) = 0 \/ (Len(r) >= 2 /\ r[1] = "-" /\ r[2] = "-")
    BY <2>1, MetaParts, RestIs
  <2>4. Len(s) = 0 \/ (Len(s) >= 2 /\ s[1] = "-" /\ s[2] = "-")
    BY <2>1, MetaParts, RestIs
  <2> QED  BY <2>2, <2>3, <2>4
<1> HIDE DEF r, s
<1>3. m.base = n.base /\ m.env = n.env /\ r = s
  <2> DEFINE b1 == m.base
             b2 == n.base
             e1 == m.env
             e2 == n.env
  <2>1. /\ b1 \in Seq(NameChars) /\ ~TwoDashes(b1)
        /\ e1 \in Seq(NameChars) /\ ~TwoDashes(e1)
        /\ Len(e1) # 0 /\ e1[1] # "-" /\ Last(e1) # "-"
    BY MetaParts
  <2>2. /\ b2 \in Seq(NameChars) /\ ~TwoDashes(b2)
        /\ e2 \in Seq(NameChars) /\ ~TwoDashes(e2)
        /\ Len(e2) # 0 /\ e2[1] # "-" /\ Last(e2) # "-"
    BY MetaParts
  <2>3. "-" \in NameChars
    BY CharFacts
  <2> HIDE DEF b1, b2, e1, e2
  <2>4. b1 = b2 /\ e1 = e2 /\ r = s
    <3>1. Chain(b1, e1, r) = Chain(b2, e2, s)
      BY <1>1 DEF b1, b2, e1, e2
    <3>2. Parts(NameChars, b1, e1, r) /\ Parts(NameChars, b2, e2, s)
      BY <1>2, <2>1, <2>2 DEF Parts
    <3> QED  BY <2>3, <3>1, <3>2, ChainsDiffer, Zenon
  <2> QED  BY <2>4 DEF b1, b2, e1, e2
<1>4. m.slug = n.slug
  <2>1. \A t \in Seq(NameChars) : Len(t) \in Nat /\ Len(t) + 2 # 0
    OBVIOUS
  <2>2. (m.slug # Absent => m.slug \in Seq(NameChars)) /\ (n.slug # Absent => n.slug \in Seq(NameChars))
    BY MetaParts
  <2>3. CASE m.slug = Absent \/ n.slug = Absent
    BY <1>3, <2>1, <2>2, <2>3, RestIs DEF r, s
  <2>4. CASE m.slug # Absent /\ n.slug # Absent
    <3> DEFINE a == m.slug
               c == n.slug
    <3>1. a \in Seq(NameChars) /\ c \in Seq(NameChars)
      BY <2>2, <2>4
    <3>2. /\ Len(r) = Len(a) + 2 /\ \A i \in 1..Len(a) : r[2 + i] = a[i]
          /\ Len(s) = Len(c) + 2 /\ \A i \in 1..Len(c) : s[2 + i] = c[i]
      BY <2>2, <2>4, RestIs DEF r, s
    <3> HIDE DEF a, c
    <3>3. Len(a) = Len(c) /\ \A i \in 1..Len(a) : a[i] = c[i]
      BY <1>3, <3>1, <3>2
    <3>4. a = c
      BY <3>1, <3>3, SeqEqual
    <3> QED  BY <3>4 DEF a, c
  <2> QED  BY <2>3, <2>4
<1> QED  BY <1>3, <1>4

\* The key of an environment has two dashes, so no project has it.
LEMMA KeyHasDashes ==
    ASSUME NEW m, ValidMeta(m)
    PROVE  TwoDashes(Key(m.base, m.env, m.slug))
<1> DEFINE base == m.base
           env  == m.env
           rest == Rest(m.slug)
           k    == Key(m.base, m.env, m.slug)
<1>1. /\ base \in Seq(NameChars) /\ env \in Seq(NameChars) /\ rest \in Seq(NameChars)
      /\ "-" \in NameChars
  BY MetaParts, RestIs, CharFacts
<1>2. k = Chain(base, env, rest)
  BY KeyIsChain
<1> HIDE DEF base, env, rest, k
<1> DEFINE b == Len(base)
<1>3. b \in Nat /\ Len(env) \in Nat /\ Len(rest) \in Nat
  BY <1>1
<1>8. Chained(NameChars, k, base, env, rest)
  BY <1>1, <1>2, ChainIs, Zenon
<1>4. k[b + 1] = "-" /\ k[b + 2] = "-" /\ Len(k) = b + 2 + Len(env) + Len(rest)
  BY <1>8 DEF Chained
<1> HIDE DEF b
<1>5. b + 1 \in 1..(Len(k) - 1) /\ (b + 1) + 1 = b + 2
  BY <1>3, <1>4
<1>6. TwoDashes(k)
  BY <1>4, <1>5 DEF TwoDashes
<1> QED  BY <1>6 DEF k

-----------------------------------------------------------------------------
(* Induction over the numbers up to N, for a set; a function by recursion.  *)

\* A set that has 0 and with a number the next one has all of them.
LEMMA Inductively ==
    ASSUME NEW N \in Nat, NEW T, 0 \in T, \A n \in 1..N : n - 1 \in T => n \in T
    PROVE  \A n \in 0..N : n \in T
<1> SUFFICES ASSUME NEW z \in 0..N, z \notin T
             PROVE  FALSE
  OBVIOUS
<1> DEFINE Less == {ss \in Nat \X Nat : ss[1] < ss[2]}
           Bad  == {n \in 0..N : n \notin T}
<1>1. OpToRel(<, Nat) = Less
  BY DEF OpToRel
<1>2. IsWellFoundedOn(Less, Nat)
  BY <1>1, NatLessThanWellFounded
<1>3. Bad \subseteq Nat /\ Bad # {}
  OBVIOUS
<1>4. PICK x \in Bad : \A y \in Bad : <<y, x>> \notin Less
  <2> HIDE DEF Less, Bad
  <2> QED  BY <1>2, <1>3, WFMin
<1>5. x # 0 /\ x \in 1..N
  OBVIOUS
<1>6. x - 1 \in Bad /\ x - 1 < x
  BY <1>5
<1>7. <<x - 1, x>> \in Less
  BY <1>5
<1> QED  BY <1>4, <1>6, <1>7

Recurs(g, N, base, step) == g[0] = base /\ \A n \in 1..N : g[n] = step[n][g[n - 1]]

\* A function by recursion exists.
LEMMA Recursively ==
    ASSUME NEW N \in Nat, NEW S, NEW base \in S, NEW step \in [1..N -> [S -> S]]
    PROVE  \E g \in [0..N -> S] : Recurs(g, N, base, step)
<1> DEFINE Upto(m, g) == /\ g[0] = base
                         /\ \A n \in 1..m : g[n] = step[n][g[n - 1]]
           T == {m \in 0..N : \E g \in [0..m -> S] : Upto(m, g)}
<1>1. 0 \in T
  <2> DEFINE h == [n \in 0..0 |-> base]
  <2>1. h \in [0..0 -> S] /\ Upto(0, h)
    OBVIOUS
  <2> HIDE DEF h
  <2> QED  BY <2>1
<1>2. ASSUME NEW m \in 1..N, m - 1 \in T
      PROVE  m \in T
  <2>1. PICK g \in [0..(m - 1) -> S] : Upto(m - 1, g)
    BY <1>2
  <2> DEFINE h == [n \in 0..m |-> IF n = m THEN step[m][g[m - 1]] ELSE g[n]]
  <2>2. g[m - 1] \in S /\ step[m][g[m - 1]] \in S
    OBVIOUS
  <2>3. h \in [0..m -> S]
    BY <2>2
  <2>4. h[0] = base
    BY <2>1
  <2>5. ASSUME NEW n \in 1..m
        PROVE  h[n] = step[n][h[n - 1]]
    <3>1. h[n - 1] = g[n - 1]
      OBVIOUS
    <3>2. CASE n = m
      BY <3>1, <3>2
    <3>3. CASE n # m
      <4>1. n \in 1..(m - 1)
        BY <3>3
      <4> QED  BY <3>1, <3>3, <4>1, <2>1
    <3> QED  BY <3>2, <3>3
  <2> HIDE DEF h
  <2> QED  BY <2>3, <2>4, <2>5
<1>3. N \in T
  <2> HIDE DEF T
  <2>1. \A m \in 0..N : m \in T
    BY <1>1, <1>2, Inductively, Zenon
  <2> QED  BY <2>1
<1> QED  BY <1>3 DEF Recurs

-----------------------------------------------------------------------------
(* Ports.                                                                   *)

\* The loop ends at a port below which all are used; it may be used itself only
\* if it is the last.
LEMMA LoopFinds ==
    ASSUME range \in Ranges
    PROVE  /\ AllocatePort \in range[1]..Top
           /\ range[1]..(AllocatePort - 1) \subseteq Used
           /\ AllocatePort \in Used => AllocatePort = Top
<1> DEFINE low == range[1]
           Bump(c, p) == IF p \in Used /\ p = c THEN (IF p < Top THEN p + 1 ELSE Top) ELSE c
           S == low..Top
           F(g) == [p \in 0..Top |-> IF p = 0 THEN low ELSE Bump(g[p - 1], p)]
           f == CHOOSE g : g = F(g)
<1>1. Top \in Nat /\ low \in 1..Top /\ low \in S
  BY AddressingAssumption
<1> HIDE DEF low
<1>2. \E g : g = F(g)
  <2> DEFINE step == [p \in 1..Top |-> [c \in S |-> Bump(c, p)]]
  <2>1. step \in [1..Top -> [S -> S]]
    BY <1>1
  <2>2. PICK g \in [0..Top -> S] : Recurs(g, Top, low, step)
    <3> HIDE DEF step, S
    <3>1. Top \in Nat
      BY <1>1
    <3>2. low \in S
      BY <1>1
    <3> QED  BY <2>1, <3>1, <3>2, Recursively
  <2>3. g[0] = low /\ \A n \in 1..Top : g[n] = step[n][g[n - 1]]
    <3> HIDE DEF step
    <3> QED  BY <2>2 DEF Recurs
  <2>4. ASSUME NEW n \in 1..Top
        PROVE  g[n] = Bump(g[n - 1], n)
    <3>1. n - 1 \in 0..Top /\ g[n - 1] \in S
      <4> HIDE DEF S
      <4> QED  BY <1>1
    <3>2. step[n][g[n - 1]] = Bump(g[n - 1], n)
      BY <3>1
    <3> QED  BY <2>3, <3>2
  <2>5. g = F(g)
    <3> HIDE DEF Bump, S, step
    <3>1. ASSUME NEW p \in 0..Top
          PROVE  g[p] = F(g)[p]
      BY <1>1, <2>3, <2>4
    <3> QED  BY <3>1
  <2> QED  BY <2>5
<1>3. f = F(f)
  BY <1>2
<1> HIDE DEF f
<1>4. f[0] = low /\ \A p \in 1..Top : f[p] = Bump(f[p - 1], p)
  <2>1. \A p \in 0..Top : f[p] = F(f)[p]
    BY <1>3
  <2> HIDE DEF Bump
  <2>2. 0 \in 0..Top /\ \A p \in 1..Top : p \in 0..Top /\ p # 0
    BY <1>1
  <2> QED  BY <2>1, <2>2
<1> DEFINE Good(p) == /\ f[p] \in S /\ low..(f[p] - 1) \subseteq Used
                      /\ f[p] <= p /\ f[p] \in Used => f[p] = Top
           T == {p \in 0..Top : Good(p)}
<1>5. 0 \in T
  BY <1>1, <1>4
<1>6. ASSUME NEW p \in 1..Top, p - 1 \in T
      PROVE  p \in T
  <2>1. Good(p - 1) /\ f[p] = Bump(f[p - 1], p)
    BY <1>4, <1>6
  <2> DEFINE c == f[p - 1]
  <2>2. CASE p \in Used /\ p = c /\ p < Top
    BY <1>1, <2>1, <2>2
  <2>3. CASE p \in Used /\ p = c /\ ~(p < Top)
    BY <1>1, <2>1, <2>3
  <2>4. CASE ~(p \in Used /\ p = c)
    BY <1>1, <2>1, <2>4
  <2> QED  BY <2>2, <2>3, <2>4
<1>7. Top \in T
  <2> HIDE DEF T
  <2>1. Top \in Nat
    BY <1>1
  <2>2. \A p \in 0..Top : p \in T
    BY <1>5, <1>6, <2>1, Inductively, Zenon
  <2> QED  BY <2>1, <2>2
<1>8. AllocatePort = f[Top]
  BY DEF AllocatePort, f, low
<1> QED  BY <1>1, <1>7, <1>8 DEF low

\* The least number of a set is in it.
LEMMA MinIsLeast ==
    ASSUME NEW S \in SUBSET Nat, S # {}
    PROVE  Min(S) \in S /\ \A x \in S : Min(S) <= x
<1> DEFINE Less == {ss \in Nat \X Nat : ss[1] < ss[2]}
<1>1. OpToRel(<, Nat) = Less
  BY DEF OpToRel
<1>2. IsWellFoundedOn(Less, Nat)
  BY <1>1, NatLessThanWellFounded
<1>3. PICK x \in S : \A y \in S : <<y, x>> \notin Less
  <2> HIDE DEF Less
  <2> QED  BY <1>2, WFMin
<1>4. ASSUME NEW y \in S
      PROVE  x =< y
  <2>1. x \in Nat /\ y \in Nat
    OBVIOUS
  <2>2. y < x => <<y, x>> \in Less
    BY <2>1
  <2> QED  BY <1>3, <2>1, <2>2
<1> QED  BY <1>4 DEF Min

-----------------------------------------------------------------------------
(* Rule lists.                                                              *)

\* Where the rule of h is, and where cloudflared stops.
LEMMA FindIs ==
    ASSUME NEW R, NEW doc \in Seq(R), NEW h
    PROVE  LET f == List!Find(doc, h) IN
           \/ f = 0 /\ \A i \in 1..Len(doc) : doc[i].host # h
           \/ f \in 1..Len(doc) /\ doc[f].host = h
<1> DEFINE I == {i \in 1..Len(doc) : doc[i].host = h}
<1>1. List!Find(doc, h) = IF I # {} THEN Min(I) ELSE 0
  BY DEF List!Find, List!SelectInSeq, List!Min, Min
<1>2. CASE I = {}
  BY <1>1, <1>2
<1>3. CASE I # {}
  <2>1. I \in SUBSET Nat
    OBVIOUS
  <2>2. Min(I) \in I
    <3> HIDE DEF I
    <3> QED  BY <1>3, <2>1, MinIsLeast
  <2> QED  BY <1>1, <1>3, <2>2
<1> QED  BY <1>2, <1>3

\* The lists there are: a host is in it once, the catch-all is last.
Listed(R, doc) ==
    /\ doc \in Seq(R)
    /\ \A i, j \in 1..Len(doc) : doc[i].host = doc[j].host => i = j
    /\ Len(doc) # 0 => doc[Len(doc)].host = NoHost

\* It is what the agent can come to.
LEMMA ListedIs ==
    ASSUME NEW R, NEW doc
    PROVE  Listed(R, doc) <=> doc \in Seq(R) /\ List!WellFormed(doc)
<1>1. SUFFICES ASSUME doc \in Seq(R)
               PROVE  Listed(R, doc) <=> List!WellFormed(doc)
  BY DEF Listed
<1>2. DOMAIN doc = 1..Len(doc) /\ (doc = <<>> <=> Len(doc) = 0)
  BY <1>1, EmptySeq, LenProperties
<1> QED  BY <1>1, <1>2 DEF Listed, List!WellFormed, List!Last

\* Where cloudflared sends a request for h.
LEMMA LeadsIs ==
    ASSUME NEW R, NEW doc, Listed(R, doc), NEW h
    PROVE  /\ Len(doc) = 0 => List!Leads(doc, h) = NotFound
           /\ \A i \in 1..Len(doc) : doc[i].host = h => List!Leads(doc, h) = doc[i].to
           /\ (Len(doc) # 0 /\ \A i \in 1..Len(doc) : doc[i].host # h)
                 => List!Leads(doc, h) = doc[Len(doc)].to
<1> DEFINE n == Len(doc)
           I == {i \in 1..n : doc[i].host \in {h, NoHost}}
           L == List!Leads(doc, h)
<1>1. n \in Nat
  BY LenProperties DEF Listed
<1>2. L = LET i == IF I # {} THEN Min(I) ELSE 0 IN IF i = 0 THEN NotFound ELSE doc[i].to
  BY DEF List!Leads, List!SelectInSeq, List!Min, Min
<1>3. n = 0 => L = NotFound
  BY <1>2
<1> HIDE DEF L
<1>4. ASSUME n # 0
      PROVE  /\ \A i \in 1..n : doc[i].host = h => L = doc[i].to
             /\ (\A i \in 1..n : doc[i].host # h) => L = doc[n].to
  <2> DEFINE m == Min(I)
  <2>1. n \in I /\ doc[n].host = NoHost
    BY <1>1, <1>4 DEF Listed
  <2>2. I \in SUBSET Nat /\ I # {}
    BY <2>1
  <2>3. m \in I /\ \A x \in I : m <= x
    <3> HIDE DEF I
    <3> QED  BY <2>2, MinIsLeast
  <2>4. L = doc[m].to
    BY <1>2, <2>2, <2>3
  <2> HIDE DEF m
  <2>5. ASSUME NEW i \in 1..n, doc[i].host = h
        PROVE  L = doc[i].to
    <3>1. i \in I /\ m <= i /\ i <= n
      BY <2>3, <2>5
    <3>2. CASE doc[m].host = h
      <4>1. m = i
        BY <2>3, <2>5, <3>2 DEF Listed
      <4> QED  BY <2>4, <4>1
    <3>3. CASE doc[m].host = NoHost
      <4>1. m = n
        BY <2>1, <2>3, <3>3 DEF Listed
      <4>2. i = n
        BY <1>1, <3>1, <4>1
      <4> QED  BY <2>4, <4>1, <4>2
    <3> QED  BY <2>3, <3>2, <3>3
  <2>6. ASSUME \A i \in 1..n : doc[i].host # h
        PROVE  L = doc[n].to
    <3>1. m = n
      BY <2>1, <2>3, <2>6 DEF Listed
    <3> QED  BY <2>4, <3>1
  <2> QED  BY <2>5, <2>6
<1> QED  BY <1>3, <1>4 DEF L

\* big is small with e put in at i.
Inserted(big, small, i, e) ==
    /\ Len(big) = Len(small) + 1
    /\ big[i] = e
    /\ \A j \in 1..(i - 1) : big[j] = small[j]
    /\ \A j \in i..Len(small) : big[j + 1] = small[j]

\* An insertion puts in.
LEMMA InsertIs ==
    ASSUME NEW R, NEW doc \in Seq(R), NEW e \in R, NEW i \in 1..(Len(doc) + 1)
    PROVE  /\ List!InsertAt(doc, i, e) \in Seq(R)
           /\ Inserted(List!InsertAt(doc, i, e), doc, i, e)
<1> DEFINE n == Len(doc)
           a == SubSeq(doc, 1, i - 1)
           b == SubSeq(doc, i, n)
           one == <<e>>
           x == a \o one
<1>1. n \in Nat
  OBVIOUS
<1>2. a \in Seq(R) /\ Len(a) = i - 1 /\ \A j \in 1..(i - 1) : a[j] = doc[j]
  BY <1>1, SubSeqProperties
<1>3. b \in Seq(R) /\ Len(b) = n + 1 - i /\ \A j \in 1..(n + 1 - i) : b[j] = doc[i + j - 1]
  BY <1>1, SubSeqProperties
<1>4. one \in Seq(R) /\ Len(one) = 1 /\ one[1] = e
  OBVIOUS
<1> HIDE DEF a, b, one
<1>5. Joins(R, x, a, one)
  BY <1>2, <1>4, Joined, Zenon
<1>6. /\ x \in Seq(R) /\ Len(x) = i
      /\ \A j \in 1..(i - 1) : x[j] = doc[j]
      /\ x[i] = e
  <2> HIDE DEF x
  <2>1. Len(x) = i /\ x \in Seq(R)
    BY <1>1, <1>2, <1>4, <1>5 DEF Joins
  <2>2. x[Len(a) + 1] = one[1]
    BY <1>4, <1>5 DEF Joins
  <2> QED  BY <1>1, <1>2, <1>4, <1>5, <2>1, <2>2 DEF Joins
<1> HIDE DEF x
<1>7. List!InsertAt(doc, i, e) = x \o b
  BY DEF List!InsertAt, x, a, b, one
<1> DEFINE y == x \o b
<1>8. Joins(R, y, x, b)
  BY <1>3, <1>6, Joined, Zenon
<1> HIDE DEF y
<1>9. y \in Seq(R) /\ Len(y) = n + 1
  BY <1>1, <1>3, <1>6, <1>8 DEF Joins
<1>10. y[i] = e /\ \A j \in 1..(i - 1) : y[j] = doc[j]
  BY <1>1, <1>6, <1>8 DEF Joins
<1>11. ASSUME NEW j \in i..n
      PROVE  y[j + 1] = doc[j]
  <2>1. j + 1 - i \in 1..(n + 1 - i) /\ i + (j + 1 - i) = j + 1 /\ i + (j + 1 - i) - 1 = j
    BY <1>1
  <2>2. y[i + (j + 1 - i)] = b[j + 1 - i]
    BY <1>3, <1>6, <1>8, <2>1 DEF Joins
  <2> QED  BY <1>3, <2>1, <2>2
<1> QED  BY <1>7, <1>9, <1>10, <1>11 DEF Inserted, y

\* A removal takes out.
LEMMA RemoveIs ==
    ASSUME NEW R, NEW doc \in Seq(R), NEW i \in 1..Len(doc)
    PROVE  /\ List!RemoveAt(doc, i) \in Seq(R)
           /\ Inserted(doc, List!RemoveAt(doc, i), i, doc[i])
<1> DEFINE n == Len(doc)
           a == SubSeq(doc, 1, i - 1)
           b == SubSeq(doc, i + 1, n)
           y == a \o b
<1>1. n \in Nat
  OBVIOUS
<1>2. a \in Seq(R) /\ Len(a) = i - 1 /\ \A j \in 1..(i - 1) : a[j] = doc[j]
  BY <1>1, SubSeqProperties
<1>3. b \in Seq(R) /\ Len(b) = n - i /\ \A j \in 1..(n - i) : b[j] = doc[(i + 1) + j - 1]
  BY <1>1, SubSeqProperties
<1> HIDE DEF a, b
<1>4. Joins(R, y, a, b)
  BY <1>2, <1>3, Joined, Zenon
<1>5. List!RemoveAt(doc, i) = y
  BY DEF List!RemoveAt, y, a, b
<1> HIDE DEF y
<1>6. y \in Seq(R) /\ Len(y) = n - 1
  BY <1>1, <1>2, <1>3, <1>4 DEF Joins
<1>7. \A j \in 1..(i - 1) : doc[j] = y[j]
  BY <1>1, <1>2, <1>4 DEF Joins
<1>8. ASSUME NEW j \in i..Len(y)
      PROVE  doc[j + 1] = y[j]
  <2>1. j - i + 1 \in 1..(n - i) /\ (i - 1) + (j - i + 1) = j /\ (i + 1) + (j - i + 1) - 1 = j + 1
    BY <1>1, <1>6
  <2>2. y[(i - 1) + (j - i + 1)] = b[j - i + 1]
    BY <1>1, <1>2, <1>3, <1>4, <2>1 DEF Joins
  <2> QED  BY <1>3, <2>1, <2>2
<1> QED  BY <1>1, <1>6, <1>5, <1>7, <1>8 DEF Inserted

\* What an insertion in front of the catch-all keeps: tables, ways, the
\* hand-written rules.
Spliced(R, big, small, i, e) ==
    /\ small \in Seq(R) /\ big \in Seq(R)
    /\ i \in 1..Len(small) /\ Inserted(big, small, i, e)

\* The place in the longer list of what stands at j in the shorter one.
Place(i, j) == IF j < i THEN j ELSE j + 1

\* Where everything stands after an insertion.
LEMMA SplicedIs ==
    ASSUME NEW R, NEW big, NEW small, NEW i, NEW e, Spliced(R, big, small, i, e)
    PROVE  /\ Len(small) \in Nat /\ Len(big) = Len(small) + 1 /\ i \in 1..Len(small) /\ big[i] = e
           /\ \A j \in 1..Len(small) : Place(i, j) \in 1..Len(big) /\ Place(i, j) # i
                                       /\ big[Place(i, j)] = small[j]
           /\ \A m \in 1..Len(big) : m # i => \E j \in 1..Len(small) : m = Place(i, j)
           /\ \A j, m \in 1..Len(small) : (j <= m <=> Place(i, j) <= Place(i, m))
                                          /\ (Place(i, j) = Place(i, m) => j = m)
           /\ Place(i, Len(small)) = Len(big)
<1> DEFINE n == Len(small)
<1>1. n \in Nat /\ Len(big) = n + 1 /\ i \in 1..n /\ big[i] = e
  BY LenProperties DEF Spliced, Inserted
<1>2. ASSUME NEW j \in 1..n
      PROVE  Place(i, j) \in 1..Len(big) /\ Place(i, j) # i /\ big[Place(i, j)] = small[j]
  <2>1. CASE j < i
    BY <1>1, <2>1 DEF Spliced, Inserted, Place
  <2>2. CASE ~(j < i)
    BY <1>1, <2>2 DEF Spliced, Inserted, Place
  <2> QED  BY <2>1, <2>2
<1>3. ASSUME NEW m \in 1..Len(big), m # i
      PROVE  \E j \in 1..n : m = Place(i, j)
  <2>1. CASE m < i
    <3>1. m \in 1..n /\ m = Place(i, m)
      BY <1>1, <2>1 DEF Place
    <3> QED  BY <3>1
  <2>2. CASE ~(m < i)
    <3>1. m - 1 \in 1..n /\ m = Place(i, m - 1)
      BY <1>1, <1>3, <2>2 DEF Place
    <3> QED  BY <3>1
  <2> QED  BY <2>1, <2>2
<1>4. \A j, m \in 1..n : (j <= m <=> Place(i, j) <= Place(i, m)) /\ (Place(i, j) = Place(i, m) => j = m)
  BY <1>1 DEF Place
<1>5. Place(i, n) = Len(big)
  BY <1>1 DEF Place
<1> QED  BY <1>1, <1>2, <1>3, <1>4, <1>5

\* A table stays one, unless its hosts had the new one.
LEMMA SplicedTable ==
    ASSUME NEW R, NEW big, NEW small, NEW i, NEW e, Spliced(R, big, small, i, e)
    PROVE  /\ Listed(R, small) /\ (\A j \in 1..Len(small) : small[j].host # e.host) => Listed(R, big)
           /\ Listed(R, big) => Listed(R, small)
<1>1. ASSUME Listed(R, small), \A j \in 1..Len(small) : small[j].host # e.host
      PROVE  Listed(R, big)
  <2>1. ASSUME NEW m \in 1..Len(big), NEW k \in 1..Len(big), big[m].host = big[k].host
        PROVE  m = k
    <3>1. CASE m = i /\ k = i
      BY <3>1
    <3>2. CASE m = i /\ k # i
      <4>1. PICK j \in 1..Len(small) : k = Place(i, j)
        BY <3>2, SplicedIs
      <4>2. big[k] = small[j] /\ big[m] = e
        BY <3>2, <4>1, SplicedIs
      <4> QED  BY <1>1, <2>1, <4>2
    <3>3. CASE m # i /\ k = i
      <4>1. PICK j \in 1..Len(small) : m = Place(i, j)
        BY <3>3, SplicedIs
      <4>2. big[m] = small[j] /\ big[k] = e
        BY <3>3, <4>1, SplicedIs
      <4> QED  BY <1>1, <2>1, <4>2
    <3>4. CASE m # i /\ k # i
      <4>1. PICK j \in 1..Len(small) : m = Place(i, j)
        BY <3>4, SplicedIs
      <4>2. PICK l \in 1..Len(small) : k = Place(i, l)
        BY <3>4, SplicedIs
      <4>3. small[j].host = small[l].host
        BY <2>1, <4>1, <4>2, SplicedIs
      <4> QED  BY <1>1, <4>1, <4>2, <4>3 DEF Listed
    <3> QED  BY <3>1, <3>2, <3>3, <3>4
  <2>2. big[Len(big)].host = NoHost
    <3>1. Len(small) \in 1..Len(small) /\ Len(small) # 0
      BY SplicedIs
    <3>2. small[Len(small)].host = NoHost
      BY <1>1, <3>1 DEF Listed
    <3> QED  BY <3>1, <3>2, SplicedIs
  <2> QED  BY <2>1, <2>2 DEF Listed, Spliced
<1>2. ASSUME Listed(R, big)
      PROVE  Listed(R, small)
  <2>1. ASSUME NEW m \in 1..Len(small), NEW k \in 1..Len(small), small[m].host = small[k].host
        PROVE  m = k
    <3>1. big[Place(i, m)].host = big[Place(i, k)].host
      BY <2>1, SplicedIs
    <3>2. Place(i, m) = Place(i, k)
      BY <1>2, <3>1, SplicedIs DEF Listed
    <3> QED  BY <3>2, SplicedIs
  <2>2. small[Len(small)].host = NoHost
    <3>1. Len(small) \in 1..Len(small) /\ Len(big) # 0
      BY SplicedIs
    <3>2. big[Len(big)].host = NoHost
      BY <1>2, <3>1 DEF Listed
    <3> QED  BY <3>1, <3>2, SplicedIs
  <2> QED  BY <2>1, <2>2 DEF Listed, Spliced
<1> QED  BY <1>1, <1>2

\* Only the way of the host of e changes.
LEMMA SplicedLeads ==
    ASSUME NEW R, NEW big, NEW small, NEW i, NEW e, Spliced(R, big, small, i, e),
           Listed(R, big), Listed(R, small), NEW g, g # e.host
    PROVE  List!Leads(big, g) = List!Leads(small, g)
<1>1. Len(small) \in Nat /\ Len(small) # 0 /\ Len(big) # 0 /\ Len(small) \in 1..Len(small)
  BY SplicedIs
<1>2. CASE \E j \in 1..Len(small) : small[j].host = g
  <2>1. PICK j \in 1..Len(small) : small[j].host = g
    BY <1>2
  <2>2. Place(i, j) \in 1..Len(big) /\ big[Place(i, j)] = small[j]
    BY SplicedIs
  <2>3. List!Leads(small, g) = small[j].to
    BY <2>1, LeadsIs
  <2>4. List!Leads(big, g) = big[Place(i, j)].to
    BY <2>1, <2>2, LeadsIs
  <2> QED  BY <2>2, <2>3, <2>4
<1>3. CASE \A j \in 1..Len(small) : small[j].host # g
  <2>1. ASSUME NEW m \in 1..Len(big)
        PROVE  big[m].host # g
    <3>1. CASE m = i
      BY <3>1, SplicedIs
    <3>2. CASE m # i
      <4>1. PICK j \in 1..Len(small) : m = Place(i, j)
        BY <3>2, SplicedIs
      <4> QED  BY <1>3, <4>1, SplicedIs
    <3> QED  BY <3>1, <3>2
  <2>2. List!Leads(small, g) = small[Len(small)].to
    BY <1>1, <1>3, LeadsIs
  <2>3. List!Leads(big, g) = big[Len(big)].to
    BY <1>1, <2>1, LeadsIs
  <2>4. big[Len(big)] = small[Len(small)]
    BY <1>1, SplicedIs
  <2> QED  BY <2>2, <2>3, <2>4
<1> QED  BY <1>2, <1>3

\* The same over positions.
HandIs(doc, r) == \E i \in 1..Len(doc) : doc[i] = r

Ahead(doc, r, s) == \E i, j \in 1..Len(doc) : i <= j /\ doc[i] = r /\ doc[j] = s

\* Hand-written rules by their positions.
LEMMA ByHandIs ==
    ASSUME NEW R, NEW new \in Seq(R), NEW old \in Seq(R),
           \A r : r.host \notin Hostnames => (HandIs(new, r) <=> HandIs(old, r)),
           \A r, s : r.host \notin Hostnames /\ s.host \notin Hostnames =>
                        (Ahead(new, r, s) <=> Ahead(old, r, s))
    PROVE  List!SameByHand(new, old)
<1>1. DOMAIN new = 1..Len(new) /\ DOMAIN old = 1..Len(old)
  BY LenProperties
<1>2. ASSUME NEW r
      PROVE  r \in List!ByHand(new) <=> r \in List!ByHand(old)
  <2>1. r \in List!ByHand(new) <=> r.host \notin Hostnames /\ HandIs(new, r)
    BY <1>1 DEF List!ByHand, HandIs
  <2>2. r \in List!ByHand(old) <=> r.host \notin Hostnames /\ HandIs(old, r)
    BY <1>1 DEF List!ByHand, HandIs
  <2> QED  BY <2>1, <2>2
<1>3. List!ByHand(new) = List!ByHand(old)
  BY <1>2
<1>4. ASSUME NEW r \in List!ByHand(old), NEW s \in List!ByHand(old)
      PROVE  List!Before(new, r, s) <=> List!Before(old, r, s)
  <2>1. r.host \notin Hostnames /\ s.host \notin Hostnames
    BY DEF List!ByHand
  <2>2. (List!Before(new, r, s) <=> Ahead(new, r, s)) /\ (List!Before(old, r, s) <=> Ahead(old, r, s))
    BY <1>1 DEF List!Before, Ahead
  <2> QED  BY <2>1, <2>2
<1> QED  BY <1>3, <1>4 DEF List!SameByHand

\* Hand-written rules keep their order when another is put in or taken out.
LEMMA SplicedByHand ==
    ASSUME NEW R, NEW big, NEW small, NEW i, NEW e, Spliced(R, big, small, i, e),
           e.host \in Hostnames
    PROVE  List!SameByHand(big, small) /\ List!SameByHand(small, big)
<1>1. ASSUME NEW r, r.host \notin Hostnames
      PROVE  HandIs(big, r) <=> HandIs(small, r)
  <2>1. ASSUME HandIs(big, r) PROVE HandIs(small, r)
    <3>1. PICK m \in 1..Len(big) : big[m] = r
      BY <2>1 DEF HandIs
    <3>2. m # i
      BY <1>1, <3>1, SplicedIs
    <3>3. PICK j \in 1..Len(small) : m = Place(i, j)
      BY <3>2, SplicedIs
    <3> QED  BY <3>1, <3>3, SplicedIs DEF HandIs
  <2>2. ASSUME HandIs(small, r) PROVE HandIs(big, r)
    BY <2>2, SplicedIs DEF HandIs
  <2> QED  BY <2>1, <2>2
<1>2. ASSUME NEW r, NEW s, r.host \notin Hostnames, s.host \notin Hostnames
      PROVE  Ahead(big, r, s) <=> Ahead(small, r, s)
  <2>1. ASSUME Ahead(big, r, s) PROVE Ahead(small, r, s)
    <3>1. PICK m \in 1..Len(big), k \in 1..Len(big) : m <= k /\ big[m] = r /\ big[k] = s
      BY <2>1 DEF Ahead
    <3>2. m # i /\ k # i
      BY <1>2, <3>1, SplicedIs
    <3>3. PICK j \in 1..Len(small) : m = Place(i, j)
      BY <3>2, SplicedIs
    <3>4. PICK l \in 1..Len(small) : k = Place(i, l)
      BY <3>2, SplicedIs
    <3>5. j <= l /\ small[j] = r /\ small[l] = s
      BY <3>1, <3>3, <3>4, SplicedIs
    <3> QED  BY <3>5 DEF Ahead
  <2>2. ASSUME Ahead(small, r, s) PROVE Ahead(big, r, s)
    <3>1. PICK j \in 1..Len(small), l \in 1..Len(small) : j <= l /\ small[j] = r /\ small[l] = s
      BY <2>2 DEF Ahead
    <3>2. Place(i, j) \in 1..Len(big) /\ Place(i, l) \in 1..Len(big) /\ Place(i, j) <= Place(i, l)
          /\ big[Place(i, j)] = r /\ big[Place(i, l)] = s
      BY <3>1, SplicedIs
    <3> QED  BY <3>2 DEF Ahead
  <2> QED  BY <2>1, <2>2
<1>3. small \in Seq(R) /\ big \in Seq(R)
  BY DEF Spliced
<1> QED  BY <1>1, <1>2, <1>3, ByHandIs

\* What is left when the rule at i is taken out does not depend on it.
LEMMA SplicedSmall ==
    ASSUME NEW R, NEW i, NEW e1, NEW e2, NEW big1, NEW small1, NEW big2, NEW small2,
           Spliced(R, big1, small1, i, e1), Spliced(R, big2, small2, i, e2),
           Len(big1) = Len(big2), \A m \in 1..Len(big1) : m # i => big1[m] = big2[m]
    PROVE  small1 = small2
<1>1. small1 \in Seq(R) /\ small2 \in Seq(R)
  BY DEF Spliced
<1>2. Len(small1) \in Nat /\ Len(small2) \in Nat /\ Len(small1) = Len(small2)
  <2> DEFINE a == Len(small1)  b == Len(small2)
  <2>3. Len(big1) = Len(big2)
    OBVIOUS
  <2>1. Len(small1) \in Nat /\ Len(big1) = Len(small1) + 1
    BY SplicedIs
  <2>2. Len(small2) \in Nat /\ Len(big2) = Len(small2) + 1
    BY SplicedIs
  <2>4. a \in Nat /\ b \in Nat /\ a + 1 = b + 1
    BY <2>1, <2>2, <2>3
  <2> HIDE DEF a, b
  <2>5. a \in Nat /\ b \in Nat /\ a = b
    BY <2>4
  <2> QED  BY <2>5 DEF a, b
<1>3. ASSUME NEW j \in 1..Len(small1)
      PROVE  small1[j] = small2[j]
  <2>1. Place(i, j) \in 1..Len(big1) /\ Place(i, j) # i /\ big1[Place(i, j)] = small1[j]
    BY SplicedIs
  <2>2. big2[Place(i, j)] = small2[j]
    BY <1>2, SplicedIs
  <2> QED  BY <2>1, <2>2
<1> QED  BY <1>1, <1>2, <1>3, SeqEqual

\* Another rule for the host of the one at f.
Replaced(R, new, old, f, e) ==
    /\ new \in Seq(R) /\ Len(new) = Len(old)
    /\ f \in 1..Len(old) /\ f # Len(old)
    /\ old[f].host = e.host /\ new[f] = e
    /\ \A i \in 1..Len(old) : i # f => new[i] = old[i]

\* A removal leaves the list alone or takes out the rule of h.
LEMMA RemoveRuleIs ==
    ASSUME NEW R, NEW doc, Listed(R, doc), NEW h \in Hostnames
    PROVE  LET new == List!RemoveRule(doc, h) IN
           \/ new = doc /\ \A i \in 1..Len(doc) : doc[i].host # h
           \/ \E f \in 1..Len(doc) : /\ doc[f].host = h
                                     /\ new = List!RemoveAt(doc, f)
                                     /\ Spliced(R, doc, new, f, doc[f])
<1> DEFINE f == List!Find(doc, h)
           new == List!RemoveRule(doc, h)
           small == List!RemoveAt(doc, f)
           n == Len(doc)
<1>1. doc \in Seq(R) /\ n \in Nat
  BY LenProperties DEF Listed
<1>2. \/ f = 0 /\ \A i \in 1..n : doc[i].host # h
      \/ f \in 1..n /\ doc[f].host = h
  BY <1>1, FindIs
<1>3. new = IF \E i \in 1..n : doc[i].host = h THEN small ELSE doc
  BY DEF List!RemoveRule, List!RemoveFirstMatch, List!Find
<1> HIDE DEF f, new
<1>4. CASE f \in 1..n /\ doc[f].host = h
  <2>1. new = small
    BY <1>3, <1>4
  <2>2. f # n
    BY <1>1, <1>4, AddressingAssumption DEF Listed
  <2>3. small \in Seq(R) /\ Inserted(doc, small, f, doc[f])
    BY <1>1, <1>4, RemoveIs
  <2>4. f \in 1..Len(small)
    <3> DEFINE m == Len(small)
    <3>1. m \in Nat /\ n = m + 1
      BY <2>3, LenProperties DEF Inserted
    <3> HIDE DEF m
    <3>2. f \in 1..m
      BY <1>1, <1>4, <2>2, <3>1
    <3> QED  BY <3>2 DEF m
  <2>5. Spliced(R, doc, small, f, doc[f])
    BY <1>1, <2>3, <2>4 DEF Spliced
  <2> QED  BY <1>4, <2>1, <2>5 DEF new
<1> QED  BY <1>2, <1>3, <1>4 DEF new

\* An upsert replaces the rule of h, puts one before the catch-all or begins a list.
LEMMA UpsertRuleIs ==
    ASSUME NEW R, NEW doc, Listed(R, doc), NEW h \in Hostnames, NEW to,
           List!Of(h, to) \in R, List!Of(NoHost, NotFound) \in R
    PROVE  LET new == List!UpsertRule(doc, h, to) IN
           \/ \E f \in 1..Len(doc) : Replaced(R, new, doc, f, List!Of(h, to))
           \/ /\ \A i \in 1..Len(doc) : doc[i].host # h
              /\ Spliced(R, new, doc, Len(doc), List!Of(h, to))
           \/ Len(doc) = 0 /\ new = <<List!Of(h, to), List!Of(NoHost, NotFound)>>
<1> DEFINE e == List!Of(h, to)
           f == List!Find(doc, h)
           c == List!Find(doc, NoHost)
           new == List!UpsertRule(doc, h, to)
           n == Len(doc)
<1>1. doc \in Seq(R) /\ n \in Nat
  BY LenProperties DEF Listed
<1>2. \/ f = 0 /\ \A i \in 1..n : doc[i].host # h
      \/ f \in 1..n /\ doc[f].host = h
  BY <1>1, FindIs
<1>3. \/ c = 0 /\ \A i \in 1..n : doc[i].host # NoHost
      \/ c \in 1..n /\ doc[c].host = NoHost
  BY <1>1, FindIs
<1>4. new = IF f # 0 THEN [doc EXCEPT ![f] = e]
            ELSE IF c # 0 THEN List!InsertAt(doc, c, e)
            ELSE doc \o <<e, List!Of(NoHost, NotFound)>>
  BY DEF List!UpsertRule, List!ReplaceAt
<1>5. e.host = h
  BY DEF List!Of
<1> HIDE DEF f, c, new, e
<1>6. CASE f # 0
  <2>1. f \in 1..n /\ doc[f].host = h
    BY <1>2, <1>6
  <2>2. f # n
    BY <1>1, <2>1, AddressingAssumption DEF Listed
  <2>3. new = [doc EXCEPT ![f] = e]
    BY <1>4, <1>6
  <2>4. e \in R
    BY DEF e
  <2>5. Replaced(R, new, doc, f, e)
    BY <1>1, <1>5, <2>1, <2>2, <2>3, <2>4, ExceptSeq DEF Replaced
  <2> QED  BY <2>1, <2>5 DEF new, e
<1>7. CASE f = 0 /\ n # 0
  <2>1. n \in 1..n /\ doc[n].host = NoHost
    BY <1>1, <1>7 DEF Listed
  <2>2. c # 0 /\ c \in 1..n /\ doc[c].host = NoHost
    BY <1>1, <1>3, <2>1
  <2>3. c = n
    BY <2>1, <2>2 DEF Listed
  <2>4. new = List!InsertAt(doc, n, e)
    BY <1>4, <1>7, <2>2, <2>3
  <2>5. e \in R /\ n \in 1..(n + 1)
    BY <1>1, <1>7 DEF e
  <2>6. new \in Seq(R) /\ Inserted(new, doc, n, e)
    BY <1>1, <2>4, <2>5, InsertIs
  <2>7. Spliced(R, new, doc, n, e)
    BY <1>1, <2>1, <2>6 DEF Spliced
  <2>8. \A i \in 1..n : doc[i].host # h
    BY <1>1, <1>2, <1>7
  <2> QED  BY <2>7, <2>8 DEF new, e
<1>8. CASE f = 0 /\ n = 0
  <2>1. doc = <<>>
    BY <1>1, <1>8, EmptySeq
  <2>2. c = 0
    BY <1>1, <1>3, <1>8
  <2>3. new = <<>> \o <<e, List!Of(NoHost, NotFound)>>
    BY <1>4, <1>8, <2>1, <2>2
  <2>4. new = <<e, List!Of(NoHost, NotFound)>>
    BY <2>3
  <2> QED  BY <1>8, <2>4 DEF new, e
<1> QED  BY <1>1, <1>2, <1>6, <1>7, <1>8

\* A rule in the place of another of its host.
LEMMA ReplacedKeeps ==
    ASSUME NEW R, NEW new, NEW old, Listed(R, old), NEW f, NEW e,
           Replaced(R, new, old, f, e), e.host \in Hostnames
    PROVE  /\ Listed(R, new)
           /\ \A g : g # e.host => List!Leads(new, g) = List!Leads(old, g)
           /\ List!SameByHand(new, old)
<1> DEFINE n == Len(old)
<1>1. n \in Nat /\ old \in Seq(R) /\ new \in Seq(R) /\ Len(new) = n /\ n # 0
  BY LenProperties DEF Listed, Replaced
<1>2. \A i \in 1..n : new[i].host = old[i].host
  BY DEF Replaced
<1>3. Listed(R, new)
  BY <1>1, <1>2 DEF Listed
<1>4. ASSUME NEW g, g # e.host
      PROVE  List!Leads(new, g) = List!Leads(old, g)
  <2>1. CASE \E i \in 1..n : old[i].host = g
    <3>1. PICK i \in 1..n : old[i].host = g
      BY <2>1
    <3>2. i # f /\ new[i] = old[i]
      BY <1>4, <3>1 DEF Replaced
    <3>3. List!Leads(old, g) = old[i].to
      BY <3>1, LeadsIs
    <3>4. List!Leads(new, g) = new[i].to
      BY <1>1, <1>3, <3>1, <3>2, LeadsIs
    <3> QED  BY <3>2, <3>3, <3>4
  <2>2. CASE \A i \in 1..n : old[i].host # g
    <3>1. List!Leads(old, g) = old[n].to
      BY <1>1, <2>2, LeadsIs
    <3>2. \A i \in 1..n : new[i].host # g
      BY <1>2, <2>2
    <3>3. List!Leads(new, g) = new[n].to
      BY <1>1, <1>3, <3>2, LeadsIs
    <3>4. new[n] = old[n]
      BY <1>1 DEF Replaced
    <3> QED  BY <3>1, <3>3, <3>4
  <2> QED  BY <2>1, <2>2
<1>5. \A i \in 1..n : i = f \/ new[i] = old[i]
  BY DEF Replaced
<1>6. new[f].host \in Hostnames /\ old[f].host \in Hostnames
  BY DEF Replaced
<1>7. \A r : r.host \notin Hostnames => (HandIs(new, r) <=> HandIs(old, r))
  BY <1>1, <1>5, <1>6 DEF HandIs
<1>8. \A r, s : r.host \notin Hostnames /\ s.host \notin Hostnames =>
                        (Ahead(new, r, s) <=> Ahead(old, r, s))
  BY <1>1, <1>5, <1>6 DEF Ahead
<1>9. List!SameByHand(new, old)
  BY <1>1, <1>7, <1>8, ByHandIs
<1> QED  BY <1>3, <1>4, <1>9

\* The rules that can be there.
Rule == Rules(1..Top \cup {Other, NotFound})

\* The rules the agent writes.
LEMMA RuleIs ==
    /\ \A h \in Hostnames, to \in 1..Top : List!Of(h, to) \in Rule /\ List!Of(h, to).host = h
    /\ List!Of(NoHost, NotFound) \in Rule /\ List!Of(NoHost, NotFound).host = NoHost
BY DEF Rule, Rules, List!Of

\* An upsert does what UpsertRoutesOne says of it.
LEMMA UpsertKeeps ==
    ASSUME NEW doc, Listed(Rule, doc), NEW h \in Hostnames, NEW to \in 1..Top
    PROVE  LET new == List!UpsertRule(doc, h, to) IN
           /\ Listed(Rule, new)
           /\ List!Leads(new, h) = to
           /\ \A g \in (Hostnames \cup Guests) \ {h} : List!Leads(new, g) = List!Leads(doc, g)
           /\ Len(doc) # 0 => List!SameByHand(new, doc)
<1> DEFINE e == List!Of(h, to)
           new == List!UpsertRule(doc, h, to)
           n == Len(doc)
<1>1. e \in Rule /\ e.host = h /\ List!Of(NoHost, NotFound) \in Rule
  BY RuleIs
<1>2. e.to = to /\ List!Of(NoHost, NotFound).to = NotFound /\ List!Of(NoHost, NotFound).host = NoHost
  BY DEF List!Of
<1>3. \/ \E f \in 1..n : Replaced(Rule, new, doc, f, e)
      \/ (\A i \in 1..n : doc[i].host # h) /\ Spliced(Rule, new, doc, n, e)
      \/ n = 0 /\ new = <<e, List!Of(NoHost, NotFound)>>
  BY <1>1, UpsertRuleIs
<1> HIDE DEF new, e
<1>4. CASE \E f \in 1..n : Replaced(Rule, new, doc, f, e)
  <2>1. PICK f \in 1..n : Replaced(Rule, new, doc, f, e)
    BY <1>4
  <2>2. e.host \in Hostnames
    BY <1>1
  <2>3. /\ Listed(Rule, new)
        /\ \A g : g # e.host => List!Leads(new, g) = List!Leads(doc, g)
        /\ List!SameByHand(new, doc)
    BY <2>1, <2>2, ReplacedKeeps, Zenon
  <2>4. /\ Listed(Rule, new)
        /\ \A g : g # h => List!Leads(new, g) = List!Leads(doc, g)
        /\ List!SameByHand(new, doc)
    BY <1>1, <2>3
  <2>5. f \in 1..Len(new) /\ new[f] = e
    BY <2>1 DEF Replaced
  <2>6. List!Leads(new, h) = to
    BY <1>1, <1>2, <2>4, <2>5, LeadsIs
  <2> QED  BY <2>4, <2>6 DEF new
<1>5. CASE (\A i \in 1..n : doc[i].host # h) /\ Spliced(Rule, new, doc, n, e)
  <2>1. Listed(Rule, new)
    BY <1>1, <1>5, SplicedTable
  <2>2. \A g : g # h => List!Leads(new, g) = List!Leads(doc, g)
    BY <1>1, <1>5, <2>1, SplicedLeads
  <2>3. List!SameByHand(new, doc)
    BY <1>1, <1>5, SplicedByHand
  <2>4. n \in 1..Len(new) /\ new[n] = e
    <3>1. n \in Nat /\ Len(new) = n + 1 /\ n \in 1..n /\ new[n] = e
      BY <1>5, SplicedIs
    <3> QED  BY <3>1
  <2>5. List!Leads(new, h) = to
    BY <1>1, <1>2, <2>1, <2>4, LeadsIs
  <2> QED  BY <2>1, <2>2, <2>3, <2>5 DEF new
<1>6. CASE n = 0 /\ new = <<e, List!Of(NoHost, NotFound)>>
  <2> DEFINE last == List!Of(NoHost, NotFound)
  <2>1. new \in Seq(Rule) /\ Len(new) = 2 /\ new[1] = e /\ new[2] = last
    BY <1>1, <1>6
  <2>2. last.host = NoHost /\ last.to = NotFound /\ h # NoHost
    BY <1>2, AddressingAssumption
  <2> HIDE DEF last
  <2>3. \A i \in 1..2 : i = 1 \/ i = 2
    OBVIOUS
  <2>4. Listed(Rule, new)
    BY <1>1, <2>1, <2>2, <2>3 DEF Listed
  <2>5. 1 \in 1..Len(new) /\ List!Leads(new, h) = to
    BY <1>1, <1>2, <2>1, <2>4, LeadsIs
  <2>6. ASSUME NEW g \in (Hostnames \cup Guests) \ {h}
        PROVE  List!Leads(new, g) = List!Leads(doc, g)
    <3>1. List!Leads(doc, g) = NotFound
      BY <1>6, LeadsIs
    <3>2. \A i \in 1..Len(new) : new[i].host # g
      BY <1>1, <2>1, <2>2, <2>3, AddressingAssumption
    <3>3. List!Leads(new, g) = new[Len(new)].to
      BY <2>1, <2>4, <3>2, LeadsIs
    <3> QED  BY <2>1, <2>2, <3>1, <3>3
  <2> QED  BY <1>6, <2>4, <2>5, <2>6 DEF new
<1> QED  BY <1>3, <1>4, <1>5, <1>6

\* A removal does what RemoveUndoesOne says of it.
LEMMA RemoveKeeps ==
    ASSUME NEW doc, Listed(Rule, doc), NEW h \in Hostnames
    PROVE  LET new == List!RemoveRule(doc, h) IN
           /\ Listed(Rule, new)
           /\ \A i \in 1..Len(new) : new[i].host # h
           /\ \A g : g # h => List!Leads(new, g) = List!Leads(doc, g)
           /\ List!SameByHand(new, doc)
<1> DEFINE new == List!RemoveRule(doc, h)
<1>1. \/ new = doc /\ \A i \in 1..Len(doc) : doc[i].host # h
      \/ \E f \in 1..Len(doc) : /\ doc[f].host = h
                                /\ new = List!RemoveAt(doc, f)
                                /\ Spliced(Rule, doc, new, f, doc[f])
  BY RemoveRuleIs
<1> HIDE DEF new
<1>2. CASE new = doc /\ \A i \in 1..Len(doc) : doc[i].host # h
  <2>1. doc \in Seq(Rule)
    BY DEF Listed
  <2>2. List!SameByHand(doc, doc)
    BY <2>1, ByHandIs
  <2> QED  BY <1>2, <2>2 DEF new
<1>3. CASE \E f \in 1..Len(doc) : doc[f].host = h /\ Spliced(Rule, doc, new, f, doc[f])
  <2>1. PICK f \in 1..Len(doc) : doc[f].host = h /\ Spliced(Rule, doc, new, f, doc[f])
    BY <1>3
  <2> DEFINE e == doc[f]
  <2>2. e.host = h /\ e.host \in Hostnames /\ Spliced(Rule, doc, new, f, e)
    BY <2>1
  <2> HIDE DEF e
  <2>3. Listed(Rule, new)
    BY <2>2, SplicedTable
  <2>4. List!SameByHand(new, doc)
    BY <2>2, SplicedByHand
  <2>5. ASSUME NEW g, g # h
        PROVE  List!Leads(new, g) = List!Leads(doc, g)
    BY <2>2, <2>3, <2>5, SplicedLeads
  <2>6. ASSUME NEW i \in 1..Len(new)
        PROVE  new[i].host # h
    <3>1. Place(f, i) \in 1..Len(doc) /\ Place(f, i) # f /\ doc[Place(f, i)] = new[i]
      BY <2>2, SplicedIs
    <3> QED  BY <2>1, <3>1 DEF Listed
  <2> QED  BY <2>3, <2>4, <2>5, <2>6 DEF new
<1> QED  BY <1>1, <1>2, <1>3

\* A removal takes out what an upsert put in.
LEMMA RemoveUndoes ==
    ASSUME NEW doc, Listed(Rule, doc), Len(doc) # 0, NEW h \in Hostnames, NEW to \in 1..Top
    PROVE  List!RemoveRule(List!UpsertRule(doc, h, to), h) = List!RemoveRule(doc, h)
<1> DEFINE e == List!Of(h, to)
           new == List!UpsertRule(doc, h, to)
           left == List!RemoveRule(doc, h)
           back == List!RemoveRule(new, h)
           n == Len(doc)
<1>1. e \in Rule /\ e.host = h /\ List!Of(NoHost, NotFound) \in Rule
  BY RuleIs
<1>2. \/ \E f \in 1..n : Replaced(Rule, new, doc, f, e)
      \/ (\A i \in 1..n : doc[i].host # h) /\ Spliced(Rule, new, doc, n, e)
  BY <1>1, UpsertRuleIs
<1>3. Listed(Rule, new)
  BY UpsertKeeps
<1>4. \/ left = doc /\ \A i \in 1..n : doc[i].host # h
      \/ \E f \in 1..n : doc[f].host = h /\ Spliced(Rule, doc, left, f, doc[f])
  BY RemoveRuleIs
<1>5. \/ back = new /\ \A i \in 1..Len(new) : new[i].host # h
      \/ \E f \in 1..Len(new) : new[f].host = h /\ Spliced(Rule, new, back, f, new[f])
  <2> HIDE DEF new
  <2> QED  BY <1>3, RemoveRuleIs
<1>6. SUFFICES back = left
  OBVIOUS
<1> HIDE DEF new, left, back, e
<1>7. CASE \E f \in 1..n : Replaced(Rule, new, doc, f, e)
  <2>1. PICK f \in 1..n : Replaced(Rule, new, doc, f, e)
    BY <1>7
  <2>2. f \in 1..Len(new) /\ Len(new) = n /\ doc[f].host = h /\ new[f].host = h
    BY <1>1, <2>1 DEF Replaced
  <2>3. PICK i \in 1..n : doc[i].host = h /\ Spliced(Rule, doc, left, i, doc[i])
    BY <1>4, <2>2
  <2>4. PICK j \in 1..Len(new) : new[j].host = h /\ Spliced(Rule, new, back, j, new[j])
    BY <1>5, <2>2
  <2>5. i = f
    BY <2>2, <2>3 DEF Listed
  <2>6. j = f
    BY <1>3, <2>2, <2>4 DEF Listed
  <2>7. \A m \in 1..Len(new) : m # f => new[m] = doc[m]
    BY <2>1, <2>2 DEF Replaced
  <2> DEFINE a == new[f]  b == doc[f]
  <2>8. Spliced(Rule, new, back, f, a) /\ Spliced(Rule, doc, left, f, b)
    BY <2>3, <2>4, <2>5, <2>6
  <2> HIDE DEF a, b
  <2> QED  BY <2>2, <2>7, <2>8, SplicedSmall
<1>8. CASE (\A i \in 1..n : doc[i].host # h) /\ Spliced(Rule, new, doc, n, e)
  <2>1. left = doc
    BY <1>4, <1>8
  <2>2. n \in 1..Len(new) /\ new[n] = e
    <3>1. n \in Nat /\ Len(new) = n + 1 /\ n \in 1..n /\ new[n] = e
      BY <1>8, SplicedIs
    <3> QED  BY <3>1
  <2>3. PICK j \in 1..Len(new) : new[j].host = h /\ Spliced(Rule, new, back, j, new[j])
    BY <1>1, <1>5, <2>2
  <2>4. j = n
    BY <1>1, <1>3, <2>2, <2>3 DEF Listed
  <2> DEFINE a == new[j]
  <2>5. Spliced(Rule, new, back, n, a)
    BY <2>3, <2>4
  <2> HIDE DEF a
  <2> QED  BY <1>8, <2>1, <2>5, SplicedSmall
<1> QED  BY <1>2, <1>7, <1>8

\* Every edit of a table is as it is meant.
LEMMA TableEdits == Listed(Rule, rules) => RoutesKept
<1> SUFFICES ASSUME Listed(Rule, rules)
             PROVE  List!UpsertRoutesOne /\ List!RemoveUndoesOne
  BY DEF RoutesKept, List!RoutesKept
<1>1. rules \in Seq(Rule) /\ (rules # <<>> <=> Len(rules) # 0)
  BY EmptySeq DEF Listed
<1>2. ASSUME NEW h \in Hostnames, NEW to \in 1..Top
      PROVE  LET new == List!UpsertRule(rules, h, to) IN
             /\ List!WellFormed(new)
             /\ List!Leads(new, h) = to
             /\ \A g \in (Hostnames \cup Guests) \ {h} : List!Leads(new, g) = List!Leads(rules, g)
             /\ rules # <<>> => List!SameByHand(new, rules)
  <2> DEFINE new == List!UpsertRule(rules, h, to)
  <2>1. /\ Listed(Rule, new)
        /\ List!Leads(new, h) = to
        /\ \A g \in (Hostnames \cup Guests) \ {h} : List!Leads(new, g) = List!Leads(rules, g)
        /\ Len(rules) # 0 => List!SameByHand(new, rules)
    BY UpsertKeeps
  <2> HIDE DEF new
  <2>2. List!WellFormed(new)
    BY <2>1, ListedIs
  <2> QED  BY <1>1, <2>1, <2>2 DEF new
<1>3. ASSUME NEW h \in Hostnames
      PROVE  LET new == List!RemoveRule(rules, h) IN
             /\ List!WellFormed(new)
             /\ List!Find(new, h) = 0
             /\ List!Leads(new, h) = List!Leads(new, NoHost)
             /\ \A g \in (Hostnames \cup Guests) \ {h} : List!Leads(new, g) = List!Leads(rules, g)
             /\ \A to \in 1..Top : rules # <<>> => List!RemoveRule(List!UpsertRule(rules, h, to), h) = new
             /\ List!SameByHand(new, rules)
  <2> DEFINE new == List!RemoveRule(rules, h)
             n == Len(new)
  <2>1. /\ Listed(Rule, new)
        /\ \A i \in 1..Len(new) : new[i].host # h
        /\ \A g : g # h => List!Leads(new, g) = List!Leads(rules, g)
        /\ List!SameByHand(new, rules)
    BY RemoveKeeps
  <2>2. \A to \in 1..Top : rules # <<>> => List!RemoveRule(List!UpsertRule(rules, h, to), h) = new
    BY <1>1, RemoveUndoes
  <2> HIDE DEF new
  <2>3. List!WellFormed(new) /\ new \in Seq(Rule)
    BY <2>1, ListedIs
  <2>4. List!Find(new, h) = 0
    BY <2>1, <2>3, FindIs
  <2>5. List!Leads(new, h) = List!Leads(new, NoHost)
    <3>1. CASE n = 0
      BY <2>1, <3>1, LeadsIs
    <3>2. CASE n # 0
      <4>1. n \in 1..n /\ new[n].host = NoHost
        BY <2>1, <2>3, <3>2, LenProperties DEF Listed
      <4>2. List!Leads(new, NoHost) = new[n].to
        BY <2>1, <4>1, LeadsIs
      <4>3. List!Leads(new, h) = new[n].to
        BY <2>1, <3>2, LeadsIs
      <4> QED  BY <4>2, <4>3
    <3> QED  BY <3>1, <3>2
  <2> QED  BY <2>1, <2>2, <2>3, <2>4, <2>5 DEF new
<1> QED  BY <1>2, <1>3 DEF List!UpsertRoutesOne, List!RemoveUndoesOne

-----------------------------------------------------------------------------
(* The lowest free port.                                                    *)

\* The loop finds the lowest free port, or there is none.
LEMMA LoopIsRight == range \in Ranges => PortFound
<1> SUFFICES ASSUME range \in Ranges
             PROVE  PortFound
  OBVIOUS
<1> DEFINE a == AllocatePort
           low == range[1]
           high == range[2]
           used == Used
           free == (low..high) \ used
<1>1. low \in Nat /\ high \in Nat /\ Top \in Nat /\ high <= Top
  BY AddressingAssumption
<1>2. a \in low..Top /\ low..(a - 1) \subseteq used /\ (a \in used => a = Top)
  BY LoopFinds
<1>3. NoPort <=> a > high \/ a \in used
  BY DEF NoPort
<1> HIDE DEF a, low, high, used
<1>4. ASSUME free = {}
      PROVE  NoPort
  BY <1>1, <1>2, <1>3, <1>4
<1>5. ASSUME free # {}
      PROVE  ~NoPort /\ a = Min(free)
  <2>1. \A x \in free : x \in Nat /\ a <= x /\ x <= high /\ x \notin used
    BY <1>1, <1>2
  <2>2. PICK x \in free : TRUE
    BY <1>5
  <2>3. a \in Nat /\ a <= high /\ a \notin used
    BY <1>1, <1>2, <2>1, <2>2
  <2>4. a \in free
    BY <1>1, <1>2, <2>3
  <2>5. free \in SUBSET Nat
    BY <2>1
  <2>6. Min(free) \in free /\ \A y \in free : Min(free) <= y
    <3> HIDE DEF free
    <3> QED  BY <1>5, <2>5, MinIsLeast
  <2>7. a = Min(free)
    <3> DEFINE m == Min(free)
    <3>1. m \in Nat /\ a \in Nat /\ a <= m /\ m <= a
      BY <2>1, <2>4, <2>6
    <3> HIDE DEF m
    <3>2. a = m
      BY <3>1
    <3> QED  BY <3>2 DEF m
  <2> QED  BY <1>1, <1>3, <2>3, <2>7
<1>6. PortFound <=> IF free = {} THEN NoPort ELSE ~NoPort /\ a = Min(free)
  BY DEF PortFound, a, low, high, used
<1> QED  BY <1>4, <1>5, <1>6

-----------------------------------------------------------------------------
(* What the state is made of.                                               *)

AskedMetas == {q.meta : q \in Requests}

\* Of requests, whoever sent them.
LEMMA RequestsTyped ==
    ASSUME NEW q \in Requests
    PROVE  /\ q.host \in Hostnames \cup {Absent}
           /\ q.meta \in AskedMetas
           /\ q.meta # Absent =>
                 q.meta = [base |-> q.meta.base, env |-> q.meta.env, slug |-> q.meta.slug]
<1>1. q.host \in Hostnames \cup {Absent} /\ q.meta \in AskedMetas
  BY DEF Hostnames, AskedMetas
<1>2. CASE q \in Sent
  <2>1. PICK r : q = Request(r)
    BY <1>2 DEF Sent
  <2>2. q.meta = IF r.env = Absent THEN Absent ELSE [base |-> Project, env |-> r.env, slug |-> r.slug]
    BY <2>1 DEF Request, MetaOf
  <2> DEFINE m == [base |-> Project, env |-> r.env, slug |-> r.slug]
  <2>3. m = [base |-> m.base, env |-> m.env, slug |-> m.slug]
    OBVIOUS
  <2> QED  BY <1>1, <2>2, <2>3
<1>3. CASE q \in Strangers
  <2>1. q.meta \in Metas \cup {Absent}
    BY <1>3, AddressingAssumption
  <2> DEFINE m == q.meta
  <2>2. m \in [base : Text, env : Text, slug : Text \cup {Absent}] =>
           m = [base |-> m.base, env |-> m.env, slug |-> m.slug]
    OBVIOUS
  <2> QED  BY <1>1, <2>1, <2>2 DEF Metas
<1> QED  BY <1>2, <1>3 DEF Requests

AddrTyped == AddrTypeOK /\ Listed(Rule, rules)

\* It holds at first,
LEMMA AddrTypedInit == AddrInit => AddrTyped
<1> SUFFICES ASSUME AddrInit
             PROVE  AddrTyped
  OBVIOUS
<1>1. reg \in [DOMAIN reg -> Rows(AskedMetas \cup {Absent})]
  <2>1. reg \in [DOMAIN reg -> Rows({Absent})]
    BY LegacyAssumption DEF AddrInit
  <2>2. Rows({Absent}) \subseteq Rows(AskedMetas \cup {Absent})
    BY DEF Rows
  <2> QED  BY <2>1, <2>2
<1>2. rules \in Seq(Rules({Other})) /\ List!WellFormed(rules)
  BY LegacyAssumption DEF AddrInit
<1>3. Rules({Other}) \subseteq Rule
  BY DEF Rules, Rule
<1>4. rules \in Seq(Rule)
  <2> DEFINE S == Rules({Other})  T == Rule
  <2>1. rules \in Seq(S) /\ S \subseteq T
    BY <1>2, <1>3
  <2> HIDE DEF S, T
  <2>2. rules \in Seq(T)
    BY <2>1
  <2> QED  BY <2>2 DEF T
<1>5. Listed(Rule, rules)
  BY <1>2, <1>4, ListedIs
<1>6. pending \subseteq Requests /\ running \subseteq [ask : Requests, port : 1..Top] /\ range \in Ranges
  BY DEF AddrInit
<1> QED  BY <1>1, <1>4, <1>5, <1>6 DEF AddrTyped, AddrTypeOK, Rule, AskedMetas

\* a registration keeps it,
LEMMA RegisterTyped ==
    ASSUME AddrTyped, NEW q \in pending, Register(q)
    PROVE  AddrTyped'
<1>1. q \in Requests /\ pending' \subseteq Requests
  BY DEF AddrTyped, AddrTypeOK, Register
<1>2. UNCHANGED <<rules, range>>
  BY DEF Register
<1>3. CASE UNCHANGED <<reg, running>>
  BY <1>1, <1>2, <1>3 DEF AddrTyped, AddrTypeOK, Listed
<1>4. CASE ~UNCHANGED <<reg, running>>
  <2> DEFINE port == IF Registered(q.key) THEN reg[q.key].port ELSE AllocatePort
             row == Row(q, port)
             K == DOMAIN reg \cup {q.key}
  <2>1. /\ Registered(q.key) \/ ~NoPort
        /\ reg' = [k \in K |-> IF k = q.key THEN row ELSE reg[k]]
        /\ running' = running \cup {[ask |-> q, port |-> port]}
    BY <1>4 DEF Register
  <2>2. \A k \in DOMAIN reg : reg[k] \in Rows(AskedMetas \cup {Absent})
    BY DEF AddrTyped, AddrTypeOK, AskedMetas
  <2>3. port \in 1..Top
    <3>1. CASE Registered(q.key)
      BY <2>2, <3>1 DEF Registered, Rows
    <3>2. CASE ~Registered(q.key)
      <4>1. range \in Ranges /\ range[1] \in 1..Top /\ Top \in Nat
        BY AddressingAssumption DEF AddrTyped, AddrTypeOK
      <4>2. AllocatePort \in range[1]..Top
        BY <4>1, LoopFinds
      <4> QED  BY <3>2, <4>1, <4>2
    <3> QED  BY <3>1, <3>2
  <2> HIDE DEF port
  <2>4. row \in Rows(AskedMetas \cup {Absent})
    BY <1>1, <2>3, RequestsTyped DEF Row, Rows
  <2> HIDE DEF row
  <2>5. reg' \in [DOMAIN reg' -> Rows(AskedMetas \cup {Absent})]
    BY <2>1, <2>2, <2>4
  <2>6. running' \subseteq [ask : Requests, port : 1..Top]
    BY <1>1, <2>1, <2>3 DEF AddrTyped, AddrTypeOK
  <2> QED  BY <1>1, <1>2, <2>5, <2>6 DEF AddrTyped, AddrTypeOK, Listed, AskedMetas
<1> QED  BY <1>3, <1>4

\* and every other step.
LEMMA AddrTypedNext == AddrTyped /\ [AddrNext]_addrVars => AddrTyped'
<1> SUFFICES ASSUME AddrTyped, [AddrNext]_addrVars
             PROVE  AddrTyped'
  OBVIOUS
<1>1. /\ reg \in [DOMAIN reg -> Rows(AskedMetas \cup {Absent})]
      /\ pending \subseteq Requests
      /\ running \subseteq [ask : Requests, port : 1..Top]
      /\ range \in Ranges
      /\ Listed(Rule, rules)
  BY DEF AddrTyped, AddrTypeOK, AskedMetas
<1>2. ASSUME /\ reg' \in [DOMAIN reg' -> Rows(AskedMetas \cup {Absent})]
             /\ pending' \subseteq Requests
             /\ running' \subseteq [ask : Requests, port : 1..Top]
             /\ range' \in Ranges
             /\ Listed(Rule, rules')
      PROVE  AddrTyped'
  <2>1. rules' \in Seq(Rule)
    BY <1>2 DEF Listed
  <2> QED  BY <1>2, <2>1 DEF AddrTyped, AddrTypeOK, AskedMetas, Rule, Listed
<1>3. ASSUME NEW q \in Requests, Submit(q)
      PROVE  AddrTyped'
  BY <1>1, <1>2, <1>3 DEF Submit
<1>4. ASSUME NEW q \in pending, Register(q)
      PROVE  AddrTyped'
  BY <1>4, RegisterTyped
<1>5. ASSUME NEW q \in pending, Cancel(q)
      PROVE  AddrTyped'
  BY <1>1, <1>2, <1>5 DEF Cancel
<1>6. ASSUME NEW d \in running, Publish(d)
      PROVE  AddrTyped'
  <2>1. d.ask \in Requests /\ d.port \in 1..Top
    BY <1>1
  <2>2. Listed(Rule, rules')
    <3>1. CASE d.ask.host = Absent
      BY <1>1, <1>6, <3>1 DEF Publish
    <3>2. CASE d.ask.host # Absent
      <4>1. d.ask.host \in Hostnames
        BY <2>1, <3>2, RequestsTyped
      <4>2. rules' = List!UpsertRule(rules, d.ask.host, d.port)
        BY <1>6, <3>2 DEF Publish
      <4> QED  BY <1>1, <2>1, <4>1, <4>2, UpsertKeeps
    <3> QED  BY <3>1, <3>2
  <2> QED  BY <1>1, <1>2, <1>6, <2>2 DEF Publish
<1>7. ASSUME NEW d \in running, Break(d)
      PROVE  AddrTyped'
  BY <1>1, <1>2, <1>7 DEF Break
<1>8. ASSUME NEW k \in DOMAIN reg, RemoveProject(k)
      PROVE  AddrTyped'
  <2>1. reg[k].host \in Hostnames \cup {Absent}
    BY <1>1 DEF Rows
  <2>2. Listed(Rule, rules')
    <3>1. CASE reg[k].host = Absent
      BY <1>1, <1>8, <3>1 DEF RemoveProject
    <3>2. CASE reg[k].host # Absent
      <4>1. reg[k].host \in Hostnames
        BY <2>1, <3>2
      <4>2. rules' = List!RemoveRule(rules, reg[k].host)
        BY <1>8, <3>2 DEF RemoveProject
      <4> QED  BY <1>1, <4>1, <4>2, RemoveKeeps
    <3> QED  BY <3>1, <3>2
  <2>3. reg' = [j \in DOMAIN reg \ {k} |-> reg[j]]
    BY <1>8 DEF RemoveProject
  <2>4. reg' \in [DOMAIN reg' -> Rows(AskedMetas \cup {Absent})]
    BY <1>1, <2>3
  <2> QED  BY <1>1, <1>2, <1>8, <2>2, <2>4 DEF RemoveProject
<1>9. ASSUME NEW r \in Ranges, Reconfigure(r)
      PROVE  AddrTyped'
  BY <1>1, <1>2, <1>9 DEF Reconfigure
<1>10. CASE UNCHANGED addrVars
  BY <1>1, <1>2, <1>10 DEF addrVars
<1> QED  BY <1>3, <1>4, <1>5, <1>6, <1>7, <1>8, <1>9, <1>10 DEF AddrNext

-----------------------------------------------------------------------------
(* Types, ports, routes.                                                    *)

\* The registry, the requests and the rules are what they should be made of.
THEOREM AddressesTyped == AddrSpec => []AddrTypeOK
<1>1. AddrTyped => AddrTypeOK
  BY DEF AddrTyped
<1> QED  BY <1>1, AddrTypedInit, AddrTypedNext, PTL DEF AddrSpec

THEOREM PortsAreFound == AddrSpec => []PortFound
<1>1. AddrTyped => PortFound
  BY LoopIsRight DEF AddrTyped, AddrTypeOK
<1> QED  BY <1>1, AddrTypedInit, AddrTypedNext, PTL DEF AddrSpec

THEOREM RoutesAreKept == AddrSpec => []RoutesKept
<1>1. AddrTyped => RoutesKept
  BY TableEdits DEF AddrTyped
<1> QED  BY <1>1, AddrTypedInit, AddrTypedNext, PTL DEF AddrSpec

-----------------------------------------------------------------------------
(* Identity.                                                                *)

\* What is accepted has its form and the kind of its key; an environment that
\* is registered was asked for in that form.
Identity ==
    /\ \A q \in pending : ValidShape(q) /\ SameKind(q)
    /\ \A k \in DOMAIN reg : reg[k].meta # Absent =>
          \E q \in Requests : q.key = k /\ q.meta = reg[k].meta /\ ValidShape(q)

\* The key says which kind it is.
LEMMA KindIsWritten ==
    ASSUME NEW q, ValidShape(q)
    PROVE  q.meta = Absent <=> ~TwoDashes(q.key)
<1>1. CASE q.meta = Absent
  BY <1>1 DEF ValidShape
<1>2. CASE q.meta # Absent
  <2>1. ValidMeta(q.meta) /\ q.key = Key(q.meta.base, q.meta.env, q.meta.slug)
    BY <1>2 DEF ValidShape
  <2> DEFINE m == q.meta
  <2>2. TwoDashes(Key(m.base, m.env, m.slug))
    BY <2>1, KeyHasDashes, Zenon
  <2> QED  BY <1>2, <2>1, <2>2
<1> QED  BY <1>1, <1>2

\* One key, one environment.
LEMMA KeyIsOne ==
    ASSUME NEW p \in Requests, NEW q \in Requests, ValidShape(p), ValidShape(q), p.key = q.key
    PROVE  p.meta = q.meta
<1>1. p.meta = Absent <=> q.meta = Absent
  BY KindIsWritten
<1>2. CASE p.meta # Absent /\ q.meta # Absent
  <2> DEFINE m == p.meta
             n == q.meta
  <2>1. ValidMeta(m) /\ ValidMeta(n) /\ Key(m.base, m.env, m.slug) = Key(n.base, n.env, n.slug)
    BY <1>2, Zenon DEF ValidShape
  <2>2. /\ m = [base |-> m.base, env |-> m.env, slug |-> m.slug]
        /\ n = [base |-> n.base, env |-> n.env, slug |-> n.slug]
    BY <1>2, RequestsTyped, Zenon
  <2> HIDE DEF m, n
  <2>3. m.base = n.base /\ m.env = n.env /\ m.slug = n.slug
    BY <2>1, KeysDiffer, Zenon
  <2>4. m = n
    BY <2>2, <2>3
  <2> QED  BY <2>4 DEF m, n
<1> QED  BY <1>1, <1>2

\* Earlier agents had no environments.
LEMMA IdentityInit == AddrInit => Identity
<1> SUFFICES ASSUME AddrInit
             PROVE  Identity
  OBVIOUS
<1>1. \A k \in DOMAIN reg : reg[k].meta = Absent
  <2>1. reg \in [DOMAIN reg -> Rows({Absent})]
    BY LegacyAssumption DEF AddrInit
  <2> QED  BY <2>1 DEF Rows
<1>2. pending = {}
  BY DEF AddrInit
<1> QED  BY <1>1, <1>2 DEF Identity

\* A step gives a row to what was asked for, or takes it away.
Sameness == \A k \in DOMAIN reg \cap DOMAIN reg' : reg'[k].meta = reg[k].meta

\* A registration finds the meta its key had, if there was one.
LEMMA RegisterIdentity ==
    ASSUME AddrTyped, Identity, NEW q \in pending, Register(q)
    PROVE  Sameness /\ Identity'
<1>1. q \in Requests /\ ValidShape(q) /\ SameKind(q) /\ pending' = pending \ {q}
      /\ pending \subseteq Requests
  BY DEF AddrTyped, AddrTypeOK, Identity, Register
<1>2. \A p \in pending : ValidShape(p) /\ SameKind(p)
  BY DEF Identity
<1>3. \A k \in DOMAIN reg : reg[k].meta # Absent =>
          \E p \in Requests : p.key = k /\ p.meta = reg[k].meta /\ ValidShape(p)
  BY DEF Identity
<1>4. CASE UNCHANGED reg
  <2>1. Sameness
    BY <1>4 DEF Sameness
  <2> QED  BY <1>1, <1>4, <1>2, <1>3, <2>1 DEF Identity, SameKind, Registered
<1>5. CASE ~UNCHANGED reg
  <2> DEFINE port == IF Registered(q.key) THEN reg[q.key].port ELSE AllocatePort
             row == Row(q, port)
             K == DOMAIN reg \cup {q.key}
  <2>1. reg' = [k \in K |-> IF k = q.key THEN row ELSE reg[k]]
    BY <1>5 DEF Register
  <2>2. row.meta = q.meta
    BY DEF Row
  <2> HIDE DEF row, port
  <2>3. /\ DOMAIN reg' = K /\ reg'[q.key].meta = q.meta
        /\ \A k \in DOMAIN reg : k # q.key => reg'[k] = reg[k]
    BY <2>1, <2>2
  <2>4. q.key \in DOMAIN reg => reg[q.key].meta = q.meta
    <3>1. SUFFICES ASSUME q.key \in DOMAIN reg
                   PROVE  reg[q.key].meta = q.meta
      OBVIOUS
    <3>2. reg[q.key].meta = Absent <=> q.meta = Absent
      BY <1>1, <3>1 DEF SameKind, Registered
    <3>3. CASE reg[q.key].meta # Absent
      <4>1. PICK p \in Requests : p.key = q.key /\ p.meta = reg[q.key].meta /\ ValidShape(p)
        BY <1>3, <3>1, <3>3
      <4>2. p.meta = q.meta
        BY <1>1, <4>1, KeyIsOne
      <4> QED  BY <4>1, <4>2
    <3> QED  BY <3>2, <3>3
  <2>5. Sameness
    BY <2>3, <2>4 DEF Sameness
  <2>6. ASSUME NEW p \in pending'
        PROVE  ValidShape(p) /\ SameKind(p)'
    <3>1. p \in Requests /\ ValidShape(p) /\ SameKind(p)
      BY <1>1, <1>2
    <3>2. p.key \in DOMAIN reg' => (reg'[p.key].meta = Absent <=> p.meta = Absent)
      <4>1. CASE p.key = q.key
        <5>1. p.meta = q.meta
          BY <1>1, <3>1, <4>1, KeyIsOne
        <5> QED  BY <2>3, <4>1, <5>1
      <4>2. CASE p.key # q.key
        BY <2>3, <3>1, <4>2 DEF SameKind, Registered
      <4> QED  BY <4>1, <4>2
    <3> QED  BY <3>1, <3>2 DEF SameKind, Registered
  <2>7. ASSUME NEW k \in DOMAIN reg', reg'[k].meta # Absent
        PROVE  \E p \in Requests : p.key = k /\ p.meta = reg'[k].meta /\ ValidShape(p)
    <3>1. CASE k = q.key
      BY <1>1, <2>3, <3>1
    <3>2. CASE k # q.key
      BY <1>3, <2>3, <2>7, <3>2
    <3> QED  BY <3>1, <3>2
  <2> QED  BY <2>5, <2>6, <2>7 DEF Identity
<1> QED  BY <1>4, <1>5

\* Every step does.
LEMMA IdentityNext ==
    ASSUME AddrTyped, Identity, [AddrNext]_addrVars
    PROVE  Sameness /\ Identity'
<1>1. \A p \in pending : ValidShape(p) /\ SameKind(p)
  BY DEF Identity
<1>2. \A k \in DOMAIN reg : reg[k].meta # Absent =>
          \E p \in Requests : p.key = k /\ p.meta = reg[k].meta /\ ValidShape(p)
  BY DEF Identity
<1>3. ASSUME reg' = reg, \A p \in pending' : ValidShape(p) /\ SameKind(p)
      PROVE  Sameness /\ Identity'
  BY <1>2, <1>3 DEF Sameness, Identity, SameKind, Registered
<1>4. ASSUME NEW q \in Requests, Submit(q)
      PROVE  Sameness /\ Identity'
  BY <1>1, <1>3, <1>4 DEF Submit
<1>5. ASSUME NEW q \in pending, Register(q)
      PROVE  Sameness /\ Identity'
  BY <1>5, RegisterIdentity
<1>6. ASSUME NEW q \in pending, Cancel(q)
      PROVE  Sameness /\ Identity'
  BY <1>1, <1>3, <1>6 DEF Cancel
<1>7. ASSUME NEW d \in running, Publish(d) \/ Break(d)
      PROVE  Sameness /\ Identity'
  BY <1>1, <1>3, <1>7 DEF Publish, Break
<1>8. ASSUME NEW k \in DOMAIN reg, RemoveProject(k)
      PROVE  Sameness /\ Identity'
  <2>1. reg' = [j \in DOMAIN reg \ {k} |-> reg[j]] /\ pending' = pending
    BY <1>8 DEF RemoveProject
  <2>2. DOMAIN reg' = DOMAIN reg \ {k} /\ \A j \in DOMAIN reg' : reg'[j] = reg[j]
    BY <2>1
  <2> QED  BY <1>1, <1>2, <2>1, <2>2 DEF Sameness, Identity, SameKind, Registered
<1>9. ASSUME NEW r \in Ranges, Reconfigure(r)
      PROVE  Sameness /\ Identity'
  BY <1>3, <1>9 DEF Reconfigure
<1>10. CASE UNCHANGED addrVars
  BY <1>1, <1>3, <1>10 DEF addrVars
<1> QED  BY <1>4, <1>5, <1>6, <1>7, <1>8, <1>9, <1>10 DEF AddrNext

\* A key is one project or one environment for as long as it is registered:
\* what is asked for in its form has the base, the environment and the slug
\* that the key spells, and no other.
THEOREM IdentityIsKept == AddrSpec => IdentityKept
<1>1. AddrInit => AddrTyped /\ Identity
  BY AddrTypedInit, IdentityInit
<1>2. AddrTyped /\ Identity /\ [AddrNext]_addrVars => (AddrTyped /\ Identity)'
  BY AddrTypedNext, IdentityNext
<1>3. AddrTyped /\ Identity /\ [AddrNext]_addrVars
      => [\A k \in DOMAIN reg \cap DOMAIN reg' : reg'[k].meta = reg[k].meta]_addrVars
  BY IdentityNext DEF Sameness
<1> QED  BY <1>1, <1>2, <1>3, PTL DEF AddrSpec, IdentityKept

-----------------------------------------------------------------------------
(* Slugs.                                                                   *)

\* A slug that grows: the characters of a part, no two dashes, none in front.
Growing == {s \in Seq(PartChars) : ~TwoDashes(s) /\ (s # <<>> => s[1] # "-")}

\* A character more, a dash only after another character.
LEMMA GrowsBy ==
    ASSUME NEW s \in Growing, NEW c \in PartChars,
           c = "-" => s # <<>> /\ Last(s) # "-"
    PROVE  Append(s, c) \in Growing
<1> DEFINE n == Len(s)
           t == Append(s, c)
<1>1. s \in Seq(PartChars) /\ n \in Nat /\ t \in Seq(PartChars)
  BY DEF Growing
<1>2. Len(t) = n + 1 /\ (\A i \in 1..n : t[i] = s[i]) /\ t[n + 1] = c
  BY <1>1
<1>3. s # <<>> <=> n # 0
  BY <1>1, EmptySeq
<1>4. \A i \in 1..(n - 1) : ~(s[i] = "-" /\ s[i + 1] = "-")
  BY <1>1 DEF Growing, TwoDashes
<1> HIDE DEF n, t
<1>5. ~TwoDashes(t)
  <2>1. SUFFICES ASSUME NEW i \in 1..(Len(t) - 1), t[i] = "-", t[i + 1] = "-"
                 PROVE  FALSE
    BY DEF TwoDashes
  <2>2. CASE i < n
    <3>1. i \in 1..(n - 1) /\ i \in 1..n /\ i + 1 \in 1..n
      BY <1>1, <1>2, <2>2
    <3> QED  BY <1>2, <1>4, <2>1, <3>1
  <2>3. CASE i = n
    <3>1. s[n] = "-" /\ c = "-" /\ n # 0
      BY <1>1, <1>2, <2>1, <2>3
    <3> QED  BY <3>1 DEF Last, n
  <2> QED  BY <1>1, <1>2, <2>2, <2>3
<1>6. t[1] # "-"
  <2>1. CASE n = 0
    BY <1>2, <1>3, <2>1
  <2>2. CASE n # 0
    <3>1. 1 \in 1..n /\ t[1] = s[1]
      BY <1>1, <1>2, <2>2
    <3> QED  BY <1>3, <2>2, <3>1 DEF Growing
  <2> QED  BY <2>1, <2>2
<1> QED  BY <1>1, <1>5, <1>6 DEF Growing, t

\* A dash, if one may stand there.
LEMMA DashedGrows ==
    ASSUME NEW s \in Growing
    PROVE  Dashed(s) \in Growing
<1>1. "-" \in PartChars
  BY DEF PartChars
<1> QED  BY <1>1, GrowsBy DEF Dashed

\* One character of the branch.
LEMMA SluggedGrows ==
    ASSUME NEW s \in Growing, NEW char
    PROVE  Slugged(s, char) \in Growing
<1> DEFINE c == IF char \in DOMAIN ToLower THEN ToLower[char] ELSE char
           a == ToLower["A"]
           d == Dashed(s)
           e == Append(d, a)
<1>1. \A x \in Small \cup Digits : x \in PartChars /\ x # "-"
  BY DEF PartChars, Alnum, Small, Digits
<1>2. a \in Small \cup Digits
  BY DEF ToLower, Small
<1>3. Slugged(s, char) = IF c \in Small \cup Digits THEN Append(s, c)
                         ELSE IF c = Variable THEN Dashed(e) ELSE d
  BY DEF Slugged
<1> HIDE DEF c, a
<1>4. c \in Small \cup Digits => Append(s, c) \in Growing
  BY <1>1, GrowsBy
<1>5. d \in Growing
  BY DashedGrows
<1> HIDE DEF d
<1>6. e \in Growing
  BY <1>1, <1>2, <1>5, GrowsBy
<1> HIDE DEF e
<1>7. Dashed(e) \in Growing
  BY <1>6, DashedGrows
<1> QED  BY <1>3, <1>4, <1>5, <1>7

\* All of them.
LEMMA SlugOfGrows ==
    ASSUME NEW R, NEW branch \in Seq(R)
    PROVE  SlugOf(branch) \in Growing
<1> DEFINE N == Len(branch)
           S == Growing
           Grow(s, n) == Slugged(s, branch[n])
           F(g) == [n \in 0..N |-> IF n = 0 THEN <<>> ELSE Grow(g[n - 1], n)]
           f == CHOOSE g : g = F(g)
<1>1. N \in Nat
  OBVIOUS
<1>2. <<>> \in S
  BY DEF Growing, TwoDashes
<1>3. \A s \in S, n \in 1..N : Grow(s, n) \in S
  BY SluggedGrows
<1>4. SlugOf(branch) = f[N]
  BY DEF SlugOf
<1> HIDE DEF N, S, Grow
<1>5. \E g : g = F(g)
  <2> DEFINE step == [n \in 1..N |-> [s \in S |-> Grow(s, n)]]
  <2>1. step \in [1..N -> [S -> S]]
    BY <1>3
  <2>2. PICK g \in [0..N -> S] : Recurs(g, N, <<>>, step)
    <3> HIDE DEF step
    <3> QED  BY <1>1, <1>2, <2>1, Recursively
  <2>3. g[0] = <<>> /\ \A n \in 1..N : g[n] = step[n][g[n - 1]]
    <3> HIDE DEF step
    <3> QED  BY <2>2 DEF Recurs
  <2>4. ASSUME NEW n \in 1..N
        PROVE  g[n] = Grow(g[n - 1], n)
    <3>1. n - 1 \in 0..N /\ g[n - 1] \in S
      BY <1>1
    <3>2. step[n][g[n - 1]] = Grow(g[n - 1], n)
      BY <3>1
    <3> QED  BY <2>3, <3>2
  <2>5. g = F(g)
    <3> HIDE DEF step
    <3>1. ASSUME NEW n \in 0..N
          PROVE  g[n] = F(g)[n]
      BY <1>1, <2>3, <2>4
    <3> QED  BY <3>1
  <2> QED  BY <2>5
<1>6. f = F(f)
  BY <1>5
<1> HIDE DEF f
<1>7. f[0] = <<>> /\ \A n \in 1..N : f[n] = Grow(f[n - 1], n)
  <2>1. \A n \in 0..N : f[n] = F(f)[n]
    BY <1>6
  <2>2. 0 \in 0..N /\ \A n \in 1..N : n \in 0..N /\ n # 0
    BY <1>1
  <2> QED  BY <2>1, <2>2
<1> DEFINE T == {n \in 0..N : f[n] \in S}
<1>8. 0 \in T /\ \A n \in 1..N : n - 1 \in T => n \in T
  BY <1>1, <1>2, <1>3, <1>7
<1>9. N \in T
  <2> HIDE DEF T
  <2>1. \A n \in 0..N : n \in T
    BY <1>1, <1>8, Inductively, Zenon
  <2> QED  BY <1>1, <2>1
<1> QED  BY <1>4, <1>9 DEF S

\* What is cut off at the end leaves a slug that grows.
LEMMA ShorterGrows ==
    ASSUME NEW s \in Growing, NEW m \in 0..Len(s)
    PROVE  /\ SubSeq(s, 1, m) \in Growing /\ Len(SubSeq(s, 1, m)) = m
           /\ \A i \in 1..m : SubSeq(s, 1, m)[i] = s[i]
<1> DEFINE n == Len(s)
           t == SubSeq(s, 1, m)
<1>1. s \in Seq(PartChars) /\ n \in Nat /\ m \in Nat /\ m <= n
  BY DEF Growing
<1>2. t \in Seq(PartChars) /\ Len(t) = m /\ \A i \in 1..m : t[i] = s[i]
  BY <1>1, SubSeqProperties
<1>3. \A i \in 1..(n - 1) : ~(s[i] = "-" /\ s[i + 1] = "-")
  BY <1>1 DEF Growing, TwoDashes
<1>4. t # <<>> => m # 0 /\ s # <<>>
  BY <1>1, <1>2, EmptySeq
<1> HIDE DEF t
<1>5. ~TwoDashes(t)
  BY <1>1, <1>2, <1>3 DEF TwoDashes
<1>6. t # <<>> => t[1] # "-"
  BY <1>1, <1>2, <1>4 DEF Growing
<1> QED  BY <1>2, <1>5, <1>6 DEF Growing, t

\* The slug of any branch is a part of a key, or empty.
LEMMA SlugIsPart ==
    ASSUME NEW R, NEW branch \in Seq(R), Slug(branch) # <<>>
    PROVE  ValidPart(Slug(branch), MaxSlug)
<1> DEFINE s == SlugOf(branch)
           m == IF Len(s) < MaxSlug THEN Len(s) ELSE MaxSlug
           t == SubSeq(s, 1, m)
           n == Len(t)
           u == SubSeq(t, 1, n - 1)
<1>1. s \in Growing
  BY SlugOfGrows
<1>2. Slug(branch) = IF t # <<>> /\ Last(t) = "-" THEN u ELSE t
  BY DEF Slug, Cut, Front
<1> HIDE DEF s
<1>3. m \in 0..Len(s) /\ m <= MaxSlug
  <2>1. Len(s) \in Nat /\ MaxSlug \in Nat
    BY <1>1, OverlayAssumption DEF Growing
  <2> QED  BY <2>1
<1> HIDE DEF m
<1>4. t \in Growing /\ n = m
  BY <1>1, <1>3, ShorterGrows
<1> HIDE DEF t
<1>5. n \in Nat /\ n <= MaxSlug /\ (t # <<>> => n # 0)
  <2>1. t \in Seq(PartChars) /\ MaxSlug \in Nat
    BY <1>4, OverlayAssumption DEF Growing
  <2>2. n \in Nat /\ (t # <<>> => n # 0)
    BY <2>1, EmptySeq
  <2> QED  BY <1>3, <1>4, <2>2
<1>6. CASE t # <<>> /\ Last(t) = "-"
  <2>1. n # 0 /\ n - 1 \in 0..n
    BY <1>5, <1>6
  <2>2. u \in Growing /\ Len(u) = n - 1 /\ \A i \in 1..(n - 1) : u[i] = t[i]
    BY <1>4, <2>1, ShorterGrows
  <2>3. u # <<>> /\ Slug(branch) = u
    BY <1>2, <1>6
  <2> HIDE DEF u
  <2>4. u \in Seq(PartChars) /\ Len(u) # 0
    BY <2>2, <2>3, EmptySeq DEF Growing
  <2>5. Last(u) # "-"
    <3>1. n - 1 \in 1..(n - 1) /\ (n - 1) + 1 = n
      BY <1>5, <2>2, <2>4
    <3>2. u[Len(u)] = t[n - 1] /\ t[n] = "-"
      BY <1>6, <2>2, <3>1 DEF Last
    <3>3. t[n - 1] # "-"
      BY <1>4, <3>1, <3>2 DEF Growing, TwoDashes
    <3> QED  BY <3>2, <3>3 DEF Last
  <2>6. Len(u) <= MaxSlug
    <3>1. MaxSlug \in Nat
      BY OverlayAssumption
    <3> QED  BY <1>5, <2>1, <2>2, <3>1
  <2> QED  BY <2>2, <2>3, <2>4, <2>5, <2>6 DEF ValidPart, Growing
<1>7. CASE ~(t # <<>> /\ Last(t) = "-")
  <2>1. Slug(branch) = t /\ t # <<>> /\ Last(t) # "-"
    BY <1>2, <1>7
  <2> QED  BY <1>4, <1>5, <2>1 DEF ValidPart, Growing
<1> QED  BY <1>6, <1>7

-----------------------------------------------------------------------------
(* Substitution.                                                            *)

\* Texts one after the other are a text.
LEMMA FlattenIs ==
    ASSUME NEW R, NEW ss \in Seq(Seq(R))
    PROVE  /\ FlattenSeq(ss) \in Seq(R)
           /\ Len(ss) = 1 => FlattenSeq(ss) = ss[1]
<1> DEFINE N == Len(ss)
           S == Seq(R)
           F(g) == [i \in 1..N |-> IF i = 1 THEN ss[i] ELSE g[i - 1] \o ss[i]]
           f == CHOOSE g : g = F(g)
<1>1. N \in Nat /\ \A i \in 1..N : ss[i] \in S
  OBVIOUS
<1>2. CASE N = 0
  <2>1. ss = <<>>
    BY <1>2, EmptySeq
  <2>2. FlattenSeq(ss) = ss
    BY <1>2 DEF FlattenSeq
  <2>3. <<>> \in Seq(R)
    BY EmptySeq
  <2>4. Len(ss) # 1
    BY <1>2
  <2> QED  BY <2>1, <2>2, <2>3, <2>4
<1>3. CASE N # 0
  <2>1. FlattenSeq(ss) = f[N]
    BY <1>3 DEF FlattenSeq
  <2>2. \A s \in S, i \in 1..N : s \o ss[i] \in S
    BY <1>1
  <2>3. <<>> \in S
    BY EmptySeq
  <2>4. \A i \in 1..N : <<>> \o ss[i] = ss[i]
    BY <1>1, ConcatEmptySeq
  <2> HIDE DEF N, S
  <2>5. PICK g \in [1..N -> S] : g = F(g)
    <3> DEFINE step == [i \in 1..N |-> [s \in S |-> s \o ss[i]]]
               h(k) == [i \in 1..N |-> k[i]]
    <3>1. step \in [1..N -> [S -> S]]
      BY <2>2
    <3>2. PICK k \in [0..N -> S] : Recurs(k, N, <<>>, step)
      <4> HIDE DEF step
      <4> QED  BY <1>1, <2>3, <3>1, Recursively
    <3>3. k[0] = <<>> /\ \A i \in 1..N : k[i] = step[i][k[i - 1]]
      <4> HIDE DEF step
      <4> QED  BY <3>2 DEF Recurs
    <3>4. ASSUME NEW i \in 1..N
          PROVE  k[i] = k[i - 1] \o ss[i] /\ k[i] \in S
      <4>1. i - 1 \in 0..N /\ i \in 0..N
        BY <1>1
      <4>2. k[i - 1] \in S /\ k[i] \in S
        BY <4>1
      <4>3. step[i][k[i - 1]] = k[i - 1] \o ss[i]
        BY <4>2
      <4> QED  BY <3>3, <4>2, <4>3
    <3>5. h(k) \in [1..N -> S]
      BY <3>4
    <3>6. ASSUME NEW i \in 1..N
          PROVE  h(k)[i] = F(h(k))[i]
      <4>1. CASE i = 1
        <5>1. i - 1 = 0
          BY <4>1
        <5>2. k[i - 1] = <<>>
          BY <3>3, <5>1
        <5>3. <<>> \o ss[i] = ss[i]
          BY <2>4
        <5>4. k[i] = k[i - 1] \o ss[i]
          BY <3>4
        <5>5. k[i] = ss[i]
          BY <5>2, <5>3, <5>4
        <5> QED  BY <4>1, <5>5
      <4>2. CASE i # 1
        <5>1. i - 1 \in 1..N
          BY <1>1, <4>2
        <5> QED  BY <3>4, <4>2, <5>1
      <4> QED  BY <4>1, <4>2
    <3>7. h(k) = F(h(k))
      BY <3>6
    <3> QED  BY <3>5, <3>7
  <2>6. f = F(f)
    BY <2>5
  <2> HIDE DEF f
  <2>7. 1 \in 1..N /\ f[1] = ss[1] /\ \A i \in 1..N : i # 1 => f[i] = f[i - 1] \o ss[i]
    <3>1. \A i \in 1..N : f[i] = F(f)[i]
      BY <2>6
    <3>2. 1 \in 1..N
      BY <1>1, <1>3
    <3> QED  BY <3>1, <3>2
  <2> DEFINE T == {i \in 0..N : i # 0 => f[i] \in S}
  <2>8. 0 \in T
    BY <1>1
  <2>9. ASSUME NEW i \in 1..N, i - 1 \in T
        PROVE  i \in T
    <3>1. CASE i = 1
      BY <1>1, <2>7, <3>1
    <3>2. CASE i # 1
      <4>1. i - 1 # 0 /\ i \in 0..N
        BY <1>1, <3>2
      <4>2. f[i - 1] \in S
        BY <2>9, <4>1
      <4>3. f[i - 1] \o ss[i] \in S
        BY <2>2, <4>2
      <4>4. f[i] \in S
        BY <2>7, <3>2, <4>3
      <4> QED  BY <4>1, <4>4
    <3> QED  BY <3>1, <3>2
  <2>10. N \in T
    <3> HIDE DEF T
    <3>1. \A i \in 0..N : i \in T
      BY <1>1, <2>8, <2>9, Inductively, Zenon
    <3> QED  BY <1>1, <3>1
  <2>11. f[N] \in S
    BY <1>3, <2>10
  <2>12. N = 1 => f[N] = ss[1]
    BY <2>7
  <2> QED  BY <2>1, <2>11, <2>12 DEF N, S
<1> QED  BY <1>2, <1>3

\* A part of an alphabet.
LEMMA Wider ==
    ASSUME NEW S, NEW T, S \subseteq T
    PROVE  Seq(S) \subseteq Seq(T)
OBVIOUS

\* Values, parts and the default branch are texts; none of them is Absent.
LEMMA Texts ==
    /\ Value \subseteq Text /\ Absent \notin Text /\ Absent \notin Value
    /\ Seq(PartChars) \subseteq Value
    /\ Default \in Text /\ RefsIn(Default) = {}
    /\ <<Variable>> \in Value
<1> DEFINE V == Chars \cup {Variable}
           U == Chars \cup References \cup {Escape}
<1>1. Value = Seq(V) /\ Text = Seq(U)
  BY Zenon DEF Value, Text
<1>2. V \subseteq U /\ Variable \in V
  BY DEF References
<1>3. PartChars \subseteq V /\ "m" \in U
  <2>1. Small \subseteq Chars /\ Digits \subseteq Chars /\ "-" \in Chars
    BY Zenon DEF Chars
  <2>2. "m" \in Small
    BY DEF Small
  <2> QED  BY <2>1, <2>2 DEF PartChars, Alnum
<1> HIDE DEF V, U
<1>4. Seq(V) \subseteq Seq(U) /\ Seq(PartChars) \subseteq Seq(V)
  BY <1>2, <1>3, Wider
<1>5. Default \in Seq(U) /\ <<Variable>> \in Seq(V)
  BY <1>2, <1>3 DEF Default
<1>6. Absent \notin Text
  BY OverlayAssumption
<1>7. RefsIn(Default) = {}
  <2>1. \A i \in DOMAIN Default : Default[i] = "m"
    BY DEF Default
  <2>2. "m" \notin References
    BY DEF References, Inputs, Variable
  <2> QED  BY <2>1, <2>2 DEF RefsIn
<1> QED  BY <1>1, <1>4, <1>5, <1>6, <1>7

\* What is read off is a value, if all the references have one.
LEMMA SubstituteIs ==
    ASSUME NEW chars \in Text, NEW set, \A v \in RefsIn(chars) : set[v] \in Value
    PROVE  Substitute(chars, set) \in Value
<1> DEFINE V == Chars \cup {Variable}
           ss == [i \in DOMAIN chars |->
                     IF chars[i] \in References THEN set[chars[i]]
                     ELSE IF chars[i] = Escape THEN <<Variable>> ELSE <<chars[i]>>]
<1>1. Value = Seq(V)
  BY Zenon DEF Value
<1>2. Substitute(chars, set) = FlattenSeq(ss)
  BY DEF Substitute
<1>3. Len(chars) \in Nat /\ DOMAIN chars = 1..Len(chars)
      /\ \A i \in 1..Len(chars) : chars[i] \in Chars \cup References \cup {Escape}
  BY DEF Text
<1>4. ASSUME NEW i \in 1..Len(chars)
      PROVE  ss[i] \in Value
  <2>1. CASE chars[i] \in References
    <3>1. chars # Absent
      BY Texts
    <3>2. chars[i] \in RefsIn(chars)
      BY <1>3, <2>1, <3>1 DEF RefsIn
    <3> QED  BY <1>3, <2>1, <3>2
  <2>2. CASE chars[i] \notin References /\ chars[i] = Escape
    BY <1>3, <2>2, Texts
  <2>3. CASE chars[i] \notin References /\ chars[i] # Escape
    <3> DEFINE x == chars[i]
    <3>1. x \in V
      BY <1>3, <2>3
    <3>2. ss[i] = <<x>>
      BY <1>3, <2>3
    <3> HIDE DEF V, x
    <3>3. <<x>> \in Seq(V)
      BY <3>1
    <3> QED  BY <1>1, <3>2, <3>3
  <2> QED  BY <2>1, <2>2, <2>3
<1>5. ss \in Seq(Seq(V))
  <2>1. DOMAIN ss = 1..Len(chars)
    BY <1>3
  <2> HIDE DEF V
  <2>2. ss \in [1..Len(chars) -> Seq(V)]
    BY <1>1, <1>3, <1>4, <2>1
  <2> HIDE DEF ss
  <2> QED  BY <1>3, <2>2
<1> HIDE DEF V, ss
<1> QED  BY <1>1, <1>2, <1>5, FlattenIs

\* It depends on the references in the text alone.
LEMMA SubstituteSame ==
    ASSUME NEW chars \in Text, NEW one, NEW two, \A v \in RefsIn(chars) : one[v] = two[v]
    PROVE  Substitute(chars, one) = Substitute(chars, two)
<1>1. \A i \in DOMAIN chars : chars[i] \in References => chars[i] \in RefsIn(chars)
  BY Texts DEF RefsIn
<1>2. \A i \in DOMAIN chars : chars[i] \in References => one[chars[i]] = two[chars[i]]
  BY <1>1
<1> DEFINE s(set) == [i \in DOMAIN chars |->
                     IF chars[i] \in References THEN set[chars[i]]
                     ELSE IF chars[i] = Escape THEN <<Variable>> ELSE <<chars[i]>>]
<1>3. s(one) = s(two)
  BY <1>2
<1>4. Substitute(chars, one) = FlattenSeq(s(one)) /\ Substitute(chars, two) = FlattenSeq(s(two))
  BY DEF Substitute
<1> HIDE DEF s
<1> QED  BY <1>3, <1>4

\* The default branch has none.
LEMMA DefaultStays ==
    ASSUME NEW set
    PROVE  Substitute(Default, set) = Default
<1> DEFINE ss == [i \in DOMAIN Default |->
                     IF Default[i] \in References THEN set[Default[i]]
                     ELSE IF Default[i] = Escape THEN <<Variable>> ELSE <<Default[i]>>]
<1>1. Substitute(Default, set) = FlattenSeq(ss)
  BY DEF Substitute
<1>2. DOMAIN Default = 1..1 /\ Default[1] = "m" /\ Default = <<"m">>
  BY DEF Default
<1>3. "m" \notin References /\ "m" # Escape
  BY DEF References, Inputs, Variable, Escape
<1>4. ss = [i \in 1..1 |-> Default]
  BY <1>2, <1>3
<1>5. Default \in Seq({"m"})
  BY DEF Default
<1> HIDE DEF ss
<1>6. ss \in Seq(Seq({"m"})) /\ Len(ss) = 1 /\ ss[1] = Default
  BY <1>4, <1>5
<1> QED  BY <1>1, <1>6, FlattenIs

-----------------------------------------------------------------------------
(* Resolution.                                                              *)

Vars == [{} -> Value] \cup [{Variable} -> Value]

\* more gives a value to what set gives one, the same.
Extends(more, set) == \A v \in DOMAIN set : v \in DOMAIN more /\ more[v] = set[v] /\ set[v] \in Value

\* With more references VarSet has more, and the same where it had some.
LEMMA VarSetIs ==
    ASSUME NEW user \in Vars, NEW git \in Value, NEW env \in Value \cup {Absent},
           NEW refs \in SUBSET References
    PROVE  /\ "${env.slug}" \notin DOMAIN VarSet(user, git, env, refs)
           /\ Extends(VarSet(user, git, env, References), VarSet(user, git, env, refs))
<1> DEFINE D(rs) == DOMAIN user \cup ({"${git.branch}"} \cap rs)
                       \cup (IF env = Absent THEN {} ELSE {"${env.name}"})
           set(rs) == VarSet(user, git, env, rs)
<1>1. /\ "${git.branch}" # "${env.name}" /\ "${git.branch}" # "${env.slug}"
      /\ "${env.name}" # "${env.slug}"
      /\ "${git.branch}" # Variable /\ "${env.name}" # Variable /\ "${env.slug}" # Variable
  BY DEF Variable
<1>2. \A v \in DOMAIN user : v = Variable /\ user[v] \in Value
  BY DEF Vars
<1>3. ASSUME NEW rs
      PROVE  /\ DOMAIN set(rs) = D(rs)
             /\ \A v \in D(rs) : set(rs)[v] = CASE v = "${git.branch}" -> git
                                                [] v = "${env.name}"   -> env
                                                [] OTHER               -> user[v]
  BY DEF VarSet
<1>4. "${env.slug}" \notin D(refs)
  BY <1>1, <1>2
<1>5. D(refs) \subseteq D(References)
  OBVIOUS
<1>6. \A v \in D(refs) : set(refs)[v] = set(References)[v]
  BY <1>3, <1>5
<1>7. ASSUME NEW v \in D(refs)
      PROVE  set(refs)[v] \in Value
  <2>1. set(refs)[v] = CASE v = "${git.branch}" -> git
                         [] v = "${env.name}"   -> env
                         [] OTHER               -> user[v]
    BY <1>3
  <2> HIDE DEF set
  <2>2. CASE v = "${git.branch}"
    BY <1>1, <2>1, <2>2
  <2>3. CASE v = "${env.name}"
    <3>1. env # Absent
      BY <1>1, <1>2, <2>3
    <3> QED  BY <1>1, <2>1, <2>3, <3>1
  <2>4. CASE v # "${git.branch}" /\ v # "${env.name}"
    <3>1. v \in DOMAIN user
      BY <2>4
    <3> QED  BY <1>2, <2>1, <2>4, <3>1
  <2> QED  BY <2>2, <2>3, <2>4
<1> HIDE DEF D
<1>8. Extends(set(References), set(refs))
  <2> HIDE DEF set
  <2> QED  BY <1>3, <1>5, <1>6, <1>7 DEF Extends
<1>9. "${env.slug}" \notin DOMAIN set(refs)
  <2> HIDE DEF set
  <2> QED  BY <1>3, <1>4
<1> QED  BY <1>8, <1>9

\* A text that can be read off with a set reads the same with more.
LEMMA ReadsAlike ==
    ASSUME NEW chars \in Text, NEW set, NEW more, Extends(more, set), RefsIn(chars) \subseteq DOMAIN set
    PROVE  /\ Substitute(chars, set) \in Value
           /\ Substitute(chars, more) = Substitute(chars, set)
<1>1. \A v \in RefsIn(chars) : set[v] \in Value /\ set[v] = more[v]
  BY DEF Extends
<1>2. Substitute(chars, set) = Substitute(chars, more)
  BY <1>1, SubstituteSame
<1>3. Substitute(chars, set) \in Value
  BY <1>1, SubstituteIs
<1> QED  BY <1>2, <1>3

\* The branch is the same before its references are read off and after.
LEMMA BranchIs ==
    ASSUME NEW base \in Documents, NEW over \in Documents, NEW set, NEW more, Extends(more, set),
           Known(base, set, {"branch"}), Known(over, set, {"branch"})
    PROVE  LET named == Substitute(EffectiveBranch(base, over), more) IN
           /\ EffectiveBranch(SubstituteWhere(base, set, {"branch"}),
                              SubstituteWhere(over, set, {"branch"})) = named
           /\ named \in Value
<1> DEFINE b == base.branch
           o == over.branch
           base1 == SubstituteWhere(base, set, {"branch"})
           over1 == SubstituteWhere(over, set, {"branch"})
<1>1. b \in Text \cup {Absent} /\ o \in Text \cup {Absent} /\ "branch" \in Fields
  BY DEF Documents, Fields
<1>2. RefsIn(b) \subseteq DOMAIN set /\ RefsIn(o) \subseteq DOMAIN set
  BY DEF Known
<1>3. base1.branch = IF b # Absent THEN Substitute(b, set) ELSE b
  BY <1>1 DEF SubstituteWhere
<1>4. over1.branch = IF o # Absent THEN Substitute(o, set) ELSE o
  BY <1>1 DEF SubstituteWhere
<1>5. EffectiveBranch(base1, over1) = IF over1.branch # Absent THEN over1.branch
                                      ELSE IF base1.branch # Absent THEN base1.branch ELSE Default
  BY DEF EffectiveBranch
<1>6. EffectiveBranch(base, over) = IF o # Absent THEN o ELSE IF b # Absent THEN b ELSE Default
  BY DEF EffectiveBranch
<1> HIDE DEF b, o, base1, over1
<1>7. CASE o # Absent
  <2>1. Substitute(o, set) \in Value /\ Substitute(o, more) = Substitute(o, set)
    BY <1>1, <1>2, <1>7, ReadsAlike
  <2>2. Substitute(o, set) # Absent
    BY <2>1, Texts
  <2> QED  BY <1>4, <1>5, <1>6, <1>7, <2>1, <2>2 DEF base1, over1
<1>8. CASE o = Absent /\ b # Absent
  <2>1. Substitute(b, set) \in Value /\ Substitute(b, more) = Substitute(b, set)
    BY <1>1, <1>2, <1>8, ReadsAlike
  <2>2. Substitute(b, set) # Absent
    BY <2>1, Texts
  <2> QED  BY <1>3, <1>4, <1>5, <1>6, <1>8, <2>1, <2>2 DEF base1, over1
<1>9. CASE o = Absent /\ b = Absent
  <2>1. EffectiveBranch(base1, over1) = Default /\ EffectiveBranch(base, over) = Default
    BY <1>3, <1>4, <1>5, <1>6, <1>9
  <2>2. Substitute(Default, more) = Default
    BY DefaultStays
  <2>3. Default \in Value
    <3>1. Default \in Text /\ \A v \in RefsIn(Default) : more[v] \in Value
      BY Texts
    <3>2. Substitute(Default, more) \in Value
      BY <3>1, SubstituteIs
    <3> QED  BY <2>2, <3>2
  <2> QED  BY <2>1, <2>2, <2>3 DEF base1, over1
<1> QED  BY <1>7, <1>8, <1>9

\* What the overlay leaves of a field, as it is read.
Reads(base, over, f, set) ==
    LET chars == IF over[f] # Absent THEN over[f] ELSE base[f]
    IN  IF chars = Absent THEN Absent ELSE Substitute(chars, set)

ReadOf(base, over, f, set) ==
    LET read == Reads(base, over, f, set)
    IN  IF f = "host" /\ over[f] # Absent /\ read = <<>> THEN Absent ELSE read

\* The same after two passes over each, as the code reads it.
Laid(base, over, f, set, all) ==
    LET rest == Fields \ {"branch"}
        Pass(doc) == SubstituteWhere(SubstituteWhere(doc, set, {"branch"}), all, rest)
    IN  ApplyOverlay(Pass(base), Pass(over))[f]

\* Two passes over the two files read a field as it is written.
LEMMA FieldIs ==
    ASSUME NEW base \in Documents, NEW over \in Documents, NEW set, NEW all, NEW more, Extends(more, all),
           NEW f \in {"host", "other"},
           RefsIn(base[f]) \subseteq DOMAIN all, RefsIn(over[f]) \subseteq DOMAIN all
    PROVE  Laid(base, over, f, set, all) = ReadOf(base, over, f, more)
<1> DEFINE b == base[f]
           o == over[f]
           rest  == Fields \ {"branch"}
           base2 == SubstituteWhere(SubstituteWhere(base, set, {"branch"}), all, rest)
           over2 == SubstituteWhere(SubstituteWhere(over, set, {"branch"}), all, rest)
           read  == Reads(base, over, f, more)
<1>0. /\ Laid(base, over, f, set, all) = ApplyOverlay(base2, over2)[f]
      /\ ReadOf(base, over, f, more) =
            IF f = "host" /\ over[f] # Absent /\ read = <<>> THEN Absent ELSE read
  BY DEF Laid, ReadOf
<1>1. b \in Text \cup {Absent} /\ o \in Text \cup {Absent} /\ f \in Fields /\ f # "branch" /\ f \in rest
  BY DEF Documents, Fields
<1>2. base2[f] = IF b # Absent THEN Substitute(b, all) ELSE b
  BY <1>1 DEF SubstituteWhere
<1>3. over2[f] = IF o # Absent THEN Substitute(o, all) ELSE o
  BY <1>1 DEF SubstituteWhere
<1>4. ApplyOverlay(base2, over2)[f] = IF over2[f] = Absent THEN base2[f]
                                      ELSE IF f = "host" /\ over2[f] = <<>> THEN Absent ELSE over2[f]
  BY <1>1 DEF ApplyOverlay
<1>5. read = IF o # Absent THEN Substitute(o, more) ELSE IF b = Absent THEN Absent ELSE Substitute(b, more)
  BY DEF Reads
<1>6. RefsIn(b) \subseteq DOMAIN all /\ RefsIn(o) \subseteq DOMAIN all
  OBVIOUS
<1> HIDE DEF b, o, base2, over2, read
<1>7. CASE o # Absent
  <2>1. Substitute(o, all) \in Value /\ Substitute(o, more) = Substitute(o, all)
    BY <1>1, <1>6, <1>7, ReadsAlike
  <2>2. Substitute(o, all) # Absent
    BY <2>1, Texts
  <2> QED  BY <1>0, <1>3, <1>4, <1>5, <1>7, <2>1, <2>2 DEF o, read, base2, over2
<1>8. CASE o = Absent /\ b # Absent
  <2>1. Substitute(b, all) \in Value /\ Substitute(b, more) = Substitute(b, all)
    BY <1>1, <1>6, <1>8, ReadsAlike
  <2> QED  BY <1>0, <1>2, <1>3, <1>4, <1>5, <1>8, <2>1 DEF o, read, base2, over2
<1>9. CASE o = Absent /\ b = Absent
  BY <1>0, <1>2, <1>3, <1>4, <1>5, <1>9 DEF o, read, base2, over2
<1> QED  BY <1>7, <1>8, <1>9

\* A command that is not refused: what it resolves to is what is written.
LEMMA ResolvedAsWritten ==
    ASSUME NEW c \in Commands, Resolution(c) # Refused
    PROVE  LET r == Resolution(c)
               w == AsWritten(c)
           IN  /\ r.branch = w.branch /\ r.slug = w.slug /\ r.host = w.host /\ r.other = w.other
               /\ r.key = IF c.env = Absent THEN Project ELSE Key(Project, c.env, r.slug)
               /\ r.env = c.env
               /\ c.env # Absent => ValidEnvName(c.env) /\ c.env \in Value
               /\ r.slug # Absent => ValidPart(r.slug, MaxSlug)
               /\ w = [branch |-> w.branch, slug |-> w.slug, host |-> w.host, other |-> w.other]
<1> DEFINE base == c.base
           env  == c.env
           over == IF env = Absent THEN NoFile ELSE c.over
           user == c.user
           git  == c.git
           refs  == Refs(base) \cup Refs(over)
           wants == env # Absent /\ "${env.slug}" \in refs
           set   == VarSet(user, git, env, refs)
           rest  == Fields \ {"branch"}
           base1 == SubstituteWhere(base, set, {"branch"})
           over1 == SubstituteWhere(over, set, {"branch"})
           slug  == IF wants THEN Slug(EffectiveBranch(base1, over1)) ELSE Absent
           all   == IF wants THEN [v \in DOMAIN set \cup {"${env.slug}"} |->
                                   IF v = "${env.slug}" THEN slug ELSE set[v]]
                          ELSE set
           base2 == SubstituteWhere(base1, all, rest)
           over2 == SubstituteWhere(over1, all, rest)
           done  == ApplyOverlay(base2, over2)
           r     == Resolution(c)
           most  == VarSet(user, git, env, References)
           named == Substitute(EffectiveBranch(base, over), most)
           every == [v \in DOMAIN most \cup {"${env.slug}"} |->
                      IF v = "${env.slug}" THEN Slug(named) ELSE most[v]]
           w     == AsWritten(c)
           Field(f) == ReadOf(base, over, f, every)
<1>1. /\ base \in Documents /\ over \in Documents
      /\ env \in Value \cup {Absent} /\ user \in Vars /\ git \in Value
  <2>1. /\ c.base \in BaseDocs /\ c.over \in OverDocs /\ c.env \in EnvArgs
        /\ c.user \in Users /\ c.git \in Branches
    BY DEF Commands
  <2>2. NoFile \in Documents
    BY DEF NoFile, Documents
  <2> QED  BY <2>1, <2>2, AddressingAssumption DEF Vars
<1>2. r = IF /\ env # Absent => ValidEnvName(env)
             /\ DOMAIN user \subseteq refs
             /\ Known(base, set, {"branch"}) /\ Known(over, set, {"branch"})
             /\ slug # <<>>
             /\ Known(base, all, rest) /\ Known(over, all, rest)
             /\ base2.host # Absent => ValidHost(base2.host)
             /\ done.host # Absent => ValidHost(done.host)
             /\ env # Absent /\ base2.host # Absent => done.host # base2.host
          THEN [key    |-> IF env = Absent THEN Project ELSE Key(Project, env, slug),
                env    |-> env,
                slug   |-> slug,
                branch |-> IF done.branch = Absent THEN Default ELSE done.branch,
                host   |-> done.host,
                other  |-> done.other]
          ELSE Refused
  BY DEF Resolution, Resolve
<1>3. w = [branch |-> named,
           slug   |-> IF env # Absent /\ "${env.slug}" \in Refs(base) \cup Refs(over)
                      THEN Slug(named) ELSE Absent,
           host   |-> Field("host"),
           other  |-> Field("other")]
  BY DEF AsWritten, Reads, ReadOf
<1>4. \A f \in {"host", "other"} : f \in rest
  BY DEF Fields
<1>5. r # Refused
  OBVIOUS
<1>6. env = c.env
  OBVIOUS
<1> HIDE DEF base, env, over, user, git
<1> HIDE DEF r, w
<1>7. /\ env # Absent => ValidEnvName(env)
      /\ Known(base, set, {"branch"}) /\ Known(over, set, {"branch"})
      /\ slug # <<>>
      /\ Known(base, all, rest) /\ Known(over, all, rest)
      /\ r.key = IF env = Absent THEN Project ELSE Key(Project, env, slug)
      /\ r.env = env /\ r.slug = slug
      /\ r.branch = IF done.branch = Absent THEN Default ELSE done.branch
      /\ r.host = done.host /\ r.other = done.other
  <2> HIDE DEF refs, set, rest, base1, over1, slug, all, base2, over2, done
  <2> QED  BY <1>2, <1>5
<1>8. /\ w.branch = named
      /\ w.slug = IF wants THEN Slug(named) ELSE Absent
      /\ w.host = Field("host")
      /\ w.other = Field("other")
  <2> HIDE DEF named, Field
  <2> QED  BY <1>3
<1>9. w = [branch |-> w.branch, slug |-> w.slug, host |-> w.host, other |-> w.other]
  <2> DEFINE v2 == IF wants THEN Slug(named) ELSE Absent
             h  == Field("host")
             o  == Field("other")
  <2>1. w = [branch |-> named, slug |-> v2, host |-> h, other |-> o]
    BY <1>3
  <2> HIDE DEF named, v2, h, o
  <2> QED  BY <2>1
<1>10. /\ Extends(most, set) /\ "${env.slug}" \notin DOMAIN set
  <2>1. refs \in SUBSET References
    BY DEF Refs, RefsIn
  <2> HIDE DEF refs
  <2> HIDE DEF refs
  <2> QED  BY <1>1, <2>1, VarSetIs
<1> HIDE DEF set, most
<1>11. EffectiveBranch(base1, over1) = named /\ named \in Value
  <2> HIDE DEF named, base1, over1
  <2> QED  BY <1>1, <1>7, <1>10, BranchIs DEF named, base1, over1
<1>12. slug = IF wants THEN Slug(named) ELSE Absent
  <2> HIDE DEF named, base1, over1, wants
  <2> QED  BY <1>11
<1>13. slug # Absent => ValidPart(slug, MaxSlug) /\ slug \in Value
  <2> HIDE DEF wants, named
  <2>1. SUFFICES ASSUME slug # Absent
                 PROVE  ValidPart(slug, MaxSlug) /\ slug \in Value
    OBVIOUS
  <2>2. slug = Slug(named) /\ slug # <<>>
    <3> HIDE DEF slug
    <3> QED  BY <1>7, <1>12, <2>1
  <2> HIDE DEF slug
  <2>3. named \in Seq(Chars \cup {Variable})
    <3>1. Value = Seq(Chars \cup {Variable})
      BY Zenon DEF Value
    <3> QED  BY <1>11, <3>1, Zenon
  <2>4. ValidPart(slug, MaxSlug)
    BY <2>2, <2>3, SlugIsPart, Zenon
  <2>5. slug \in Seq(PartChars)
    BY <2>4 DEF ValidPart
  <2> QED  BY <2>4, <2>5, Texts
<1>14. Extends(every, all)
  <2> HIDE DEF wants, named
  <2>1. CASE wants
    <3>1. slug = Slug(named) /\ slug # Absent /\ slug \in Value
      <4>1. slug = Slug(named)
        <5> HIDE DEF slug
        <5> QED  BY <1>12, <2>1
      <4>2. slug # Absent
        <5>1. ASSUME Slug(named) = Absent PROVE FALSE
          <6>1. named \in Seq(Chars \cup {Variable})
            <7>1. Value = Seq(Chars \cup {Variable})
              BY Zenon DEF Value
            <7> QED  BY <1>11, <7>1, Zenon
          <6>2. Slug(named) # <<>>
            BY <1>7, <4>1
          <6>3. ValidPart(Slug(named), MaxSlug)
            BY <6>1, <6>2, SlugIsPart, Zenon
          <6>4. Slug(named) \in Seq(PartChars)
            BY <6>3 DEF ValidPart
          <6> QED  BY <5>1, <6>4, Texts
        <5> QED  BY <4>1, <5>1
      <4> QED  BY <1>13, <4>1, <4>2
    <3>2. all = [v \in DOMAIN set \cup {"${env.slug}"} |-> IF v = "${env.slug}" THEN slug ELSE set[v]]
      BY <2>1
    <3> HIDE DEF slug, all
    <3> QED  BY <1>10, <3>1, <3>2 DEF Extends
  <2>2. CASE ~wants
    <3>1. all = set
      BY <2>2
    <3> HIDE DEF all
    <3> QED  BY <1>10, <3>1 DEF Extends
  <2> QED  BY <2>1, <2>2
<1> HIDE DEF wants, slug, all, every
<1>15. ASSUME NEW f \in {"host", "other"}
       PROVE  done[f] = Field(f)
  <2>1. RefsIn(base[f]) \subseteq DOMAIN all /\ RefsIn(over[f]) \subseteq DOMAIN all
    BY <1>4, <1>7 DEF Known
  <2>2. Laid(base, over, f, set, all) = ReadOf(base, over, f, every)
    <3>1. base \in Documents /\ over \in Documents
      BY <1>1
    <3> QED  BY <1>14, <2>1, <3>1, FieldIs
  <2>3. Laid(base, over, f, set, all) = done[f]
    BY DEF Laid
  <2> QED  BY <2>2, <2>3
<1>16. done.host = w.host /\ done.other = w.other
  <2> HIDE DEF done, Field
  <2>1. done["host"] = Field("host") /\ done["other"] = Field("other")
    BY <1>15
  <2> QED  BY <1>8, <2>1
<1>17. r.branch = named
  <2>1. EffectiveBranch(base1, over1) =
           IF over1.branch # Absent THEN over1.branch
           ELSE IF base1.branch # Absent THEN base1.branch ELSE Default
    BY DEF EffectiveBranch
  <2>2. "branch" \in Fields /\ "branch" \notin rest /\ "branch" # "host"
    BY DEF Fields
  <2>3. base2.branch = base1.branch /\ over2.branch = over1.branch
    <3> HIDE DEF base1, over1
    <3> QED  BY <2>2 DEF SubstituteWhere
  <2>4. done.branch = IF over2.branch = Absent THEN base2.branch ELSE over2.branch
    <3> HIDE DEF base2, over2
    <3> QED  BY <2>2 DEF ApplyOverlay
  <2> HIDE DEF done, base1, over1, base2, over2, named
  <2> QED  BY <1>7, <1>11, <2>1, <2>3, <2>4
<1>18. env # Absent => env \in Value
  BY <1>1
<1> HIDE DEF done, named
<1> QED  BY <1>6, <1>7, <1>8, <1>12, <1>13, <1>16, <1>17, <1>18, <1>9 DEF r, w

\* The agent takes what the CLI sends.
LEMMA SentIsTaken ==
    ASSUME NEW c \in Commands, Resolution(c) # Refused, Agreeable(c)
    PROVE  ValidShape(Request(Resolution(c)))
<1> DEFINE r == Resolution(c)
           q == Request(r)
           m == q.meta
           env == c.env
           slug == r.slug
<1>1. /\ r.key = IF env = Absent THEN Project ELSE Key(Project, env, slug)
      /\ r.env = env
      /\ env # Absent => ValidEnvName(env) /\ env \in Value
      /\ slug # Absent => ValidPart(slug, MaxSlug)
  BY ResolvedAsWritten
<1>2. /\ ValidName(Project)
      /\ env # Absent => ~TwoDashes(env) /\ Last(env) # "-" /\ Len(env) <= MaxEnv
  BY DEF Agreeable
<1>3. ~TwoDashes(Project)
  BY OverlayAssumption
<1>4. q.key = r.key /\ m = IF r.env = Absent THEN Absent
                           ELSE [base |-> Project, env |-> r.env, slug |-> slug]
  BY DEF Request, MetaOf
<1> HIDE DEF r, q, m, env, slug
<1>5. CASE env = Absent
  <2>1. m = Absent /\ q.key = Project
    BY <1>1, <1>4, <1>5
  <2>2. q.meta = Absent
    BY <2>1 DEF m
  <2>3. ValidShape(q)
    BY <1>2, <1>3, <2>1, <2>2, Zenon DEF ValidShape
  <2> QED  BY <2>3 DEF q, r
<1>6. CASE env # Absent
  <2>1. /\ m = [base |-> Project, env |-> env, slug |-> slug]
        /\ q.key = Key(Project, env, slug)
    BY <1>1, <1>4, <1>6
  <2>2. slug \in Text \cup {Absent} /\ env \in Text /\ Project \in Text
    <3>1. slug # Absent => slug \in Value
      <4>1. slug # Absent => slug \in Seq(PartChars)
        BY <1>1 DEF ValidPart
      <4> QED  BY <4>1, Texts
    <3> QED  BY <1>1, <1>6, <3>1, Texts, OverlayAssumption
  <2>3. m # Absent
    BY <2>1, <2>2, AddressingAssumption DEF Metas
  <2>4. m.base = Project /\ m.env = env /\ m.slug = slug
    BY <2>1
  <2>5. ValidPart(env, MaxEnv) /\ env[1] \in Small
    <3>1. env # <<>> /\ env[1] \in Small
          /\ \A i \in DOMAIN env : env[i] \in Small \cup Digits \cup {"-"}
      BY <1>1, <1>6 DEF ValidEnvName
    <3>2. env \in Seq(PartChars)
      <4> DEFINE n == Len(env)
      <4>1. n \in Nat /\ DOMAIN env = 1..n /\ env = [i \in 1..n |-> env[i]]
        <5>1. Value = Seq(Chars \cup {Variable})
          BY Zenon DEF Value
        <5> QED  BY <1>1, <1>6, <5>1
      <4>2. \A i \in 1..n : env[i] \in PartChars
        BY <3>1, <4>1 DEF PartChars, Alnum
      <4> HIDE DEF n
      <4> QED  BY <4>1, <4>2
    <3>3. env[1] # "-"
      BY <3>1 DEF Small
    <3> QED  BY <1>2, <1>6, <3>1, <3>2, <3>3 DEF ValidPart
  <2>6. ValidMeta(m)
    BY <1>1, <1>2, <1>3, <2>4, <2>5, Zenon DEF ValidMeta
  <2>7. q.meta = m
    BY DEF m
  <2>8. q.key = Key(m.base, m.env, m.slug)
    BY <2>1, <2>4
  <2>9. ValidName(q.key)
    <3> DEFINE k == q.key
               rest == Rest(slug)
    <3>1. /\ Project \in Seq(NameChars) /\ Project # <<>> /\ Project[1] \in Alnum
      BY <1>2, Zenon DEF ValidName
    <3>2. env \in Seq(NameChars)
      BY <2>5, CharFacts DEF ValidPart
    <3>3. slug # Absent => slug \in Seq(NameChars)
      BY <1>1, CharFacts DEF ValidPart
    <3>4. rest \in Seq(NameChars)
      BY <3>3, RestIs
    <3>5. k = Chain(Project, env, rest)
      BY <2>1, KeyIsChain
    <3> HIDE DEF k, rest
    <3>6. Chained(NameChars, k, Project, env, rest)
      BY <3>1, <3>2, <3>4, <3>5, CharFacts, ChainIs, Zenon
    <3> DEFINE n == Len(Project)
    <3>7. n \in Nat /\ n # 0
      BY <3>1, EmptySeq
    <3>8. k \in Seq(NameChars) /\ k[1] = Project[1]
      BY <3>6, <3>7 DEF Chained
    <3>9. k # <<>>
      <4> DEFINE e == Len(env)  l == Len(rest)
      <4>1. e \in Nat /\ l \in Nat
        BY <3>2, <3>4
      <4>2. Len(k) = n + 2 + e + l
        BY <3>6 DEF Chained
      <4> HIDE DEF e, l, n
      <4>3. Len(k) # 0
        BY <3>7, <4>1, <4>2
      <4>4. Len(<<>>) = 0
        OBVIOUS
      <4> QED  BY <4>3, <4>4
    <3> QED  BY <3>1, <3>8, <3>9, Zenon DEF ValidName, k
  <2>10. ValidShape(q)
    <3> HIDE DEF m
    <3> QED  BY <2>3, <2>6, <2>7, <2>8, <2>9, Zenon DEF ValidShape
  <2> QED  BY <2>10 DEF q, r
<1> QED  BY <1>5, <1>6

\* Both together.
LEMMA SendsAsWritten == SentAsWritten
<1> SUFFICES ASSUME DOMAIN reg = {}, NEW c \in Commands, Resolved[c] # Refused
             PROVE  LET r == Resolved[c] IN
                /\ [f \in {"branch", "slug", "host", "other"} |-> r[f]] = Written[c]
                /\ Agreeable(c) => LET q == Request(r) IN ValidShape(q) /\ SameKind(q) /\ OwnHost(q)
  BY DEF SentAsWritten
<1> DEFINE r == Resolution(c)
           w == AsWritten(c)
           q == Request(r)
<1>1. Resolved[c] = r /\ Written[c] = w
  BY DEF Resolved, Written
<1>2. r # Refused
  BY <1>1
<1>3. r.branch = w.branch /\ r.slug = w.slug /\ r.host = w.host /\ r.other = w.other
  BY <1>2, ResolvedAsWritten
<1>4. w = [branch |-> w.branch, slug |-> w.slug, host |-> w.host, other |-> w.other]
  BY <1>2, ResolvedAsWritten
<1>5. Agreeable(c) => ValidShape(q)
  BY <1>2, SentIsTaken
<1>6. SameKind(q) /\ OwnHost(q)
  BY DEF SameKind, OwnHost, Registered
<1> HIDE DEF r, w, q
<1>7. [f \in {"branch", "slug", "host", "other"} |-> r[f]] = w
  BY <1>3, <1>4
<1> QED  BY <1>1, <1>5, <1>6, <1>7 DEF q

\* Whatever is written, what is sent is what the documents say.
THEOREM SentIsAsWritten == AddrSpec => []SentAsWritten
BY SendsAsWritten, PTL
=============================================================================
