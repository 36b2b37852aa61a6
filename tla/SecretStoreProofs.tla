------------------------- MODULE SecretStoreProofs -------------------------
(***************************************************************************)
(* The secret store keeps its types, never falls back to the old format,   *)
(* loses no guarded update and implements GuardedStore, for any groups,    *)
(* keys, requests and troubles.                                            *)
(***************************************************************************)
EXTENDS SecretStore, TLAPS

LEMMA RevOfType == ASSUME TypeOK, NEW r \in Refs
                   PROVE  /\ Rev(r) \in Nat
                          /\ Content(r) \in SUBSET Objects
                          /\ file[r] # Missing => /\ file[r].rev \in Nat
                                                  /\ file[r].objects \in SUBSET Objects
  BY DEF TypeOK, Rev, Content, Objects

LEMMA RequestsOfType == Clients \subseteq Objects /\ Groups \subseteq Refs /\ Keys \subseteq Refs
  BY DEF Objects, Refs

\* A bundle that is written is not the missing one.
LEMMA WrittenIsThere == ASSUME NEW n \in Nat, NEW o \in SUBSET Objects
                        PROVE  [rev |-> n, objects |-> o] # Missing
  BY StoreAssumption

LEMMA InitType == ASSUME Init PROVE TypeOK
<1>1. file \in [Refs -> [rev : Nat, objects : SUBSET Objects] \cup {Missing}]
  BY DEF Init, Objects
<1>2. ref \in [Clients -> Refs]
  <2>1. Refs # {}
    BY StoreAssumption DEF Refs
  <2>2. (CHOOSE r \in Refs : TRUE) \in Refs
    BY <2>1
  <2> QED BY <2>2 DEF Init
<1> QED BY <1>1, <1>2, StoreAssumption DEF Init, TypeOK, Stages, Answers, Kinds, Holding

\* The part of the state that a request moves with.
Place == /\ at \in [Clients -> Stages]
         /\ lock \in Clients \cup {Free}
         /\ load \in [Clients -> SUBSET Objects]
         /\ next \in [Clients -> Nat]
         /\ gone \in SUBSET Clients
         /\ answer \in [Clients -> Answers]

LEMMA ReturnType == ASSUME TypeOK, NEW c \in Clients, NEW what \in Answers, Return(c, what)
                    PROVE  Place'
  BY DEF Place, TypeOK, Return, Release, Stages, Answers

LEMMA MoveType == ASSUME TypeOK, NEW c \in Clients, NEW stage \in Stages, MoveTo(c, stage)
                  PROVE  Place'
  BY DEF Place, TypeOK, MoveTo

LEMMA SpendType == ASSUME TypeOK, NEW kind \in Kinds, Spend(kind)
                   PROVE  spent' \in [Kinds -> Nat]
  BY DEF TypeOK, Spend

\* One fact per action: it keeps the types.
LEMMA StepType == ASSUME TypeOK, [Next]_vars
                  PROVE  TypeOK'
<1>1. CASE UNCHANGED vars
  BY <1>1 DEF TypeOK, vars, askVars
<1>2. ASSUME NEW c \in Clients, Ask(c) PROVE TypeOK'
  <2>1. PICK r \in Refs : \E e \in Expectations(r) :
          /\ ref' = [ref EXCEPT ![c] = r]
          /\ guard' = [guard EXCEPT ![c] = e]
          /\ seen' = [seen EXCEPT ![c] =
                        [age |-> age[r], rev |-> Rev(r), objects |-> Content(r)]]
    BY <1>2 DEF Ask
  <2>2. PICK e \in Expectations(r) : guard' = [guard EXCEPT ![c] = e]
    BY <2>1
  <2>3. e \in Nat \cup {Unguarded} /\ Rev(r) \in Nat /\ Content(r) \in SUBSET Objects
    BY RevOfType DEF Expectations
  <2>4. {c} \in SUBSET Objects
    BY RequestsOfType
  <2>5. at' \in [Clients -> Stages] /\ merge' \in SUBSET Clients
    BY <1>2 DEF Ask, TypeOK, Stages, Holding
  <2>6. seen' \in [Clients -> [age : Nat, rev : Nat, objects : SUBSET Objects]]
    BY <2>1, <2>3 DEF TypeOK
  <2> QED BY <1>2, <2>1, <2>2, <2>3, <2>4, <2>5, <2>6 DEF Ask, TypeOK
<1>3. ASSUME NEW c \in Clients, Merge(c) PROVE TypeOK'
  <2>1. Content(ref[c]) \cup {c} \in SUBSET Objects
    BY RevOfType, RequestsOfType DEF TypeOK
  <2>2. Place'
    <3>1. CASE Return(c, "failed")
      BY <3>1, ReturnType DEF Answers
    <3>2. CASE /\ load' = [load EXCEPT ![c] = Content(ref[c]) \cup {c}]
               /\ at' = [at EXCEPT ![c] = "ready"]
               /\ UNCHANGED <<lock, next, gone, answer>>
      <4>1. load' \in [Clients -> SUBSET Objects]
        BY <2>1, <3>2 DEF TypeOK
      <4>2. at' \in [Clients -> Stages]
        BY <3>2 DEF TypeOK, Stages
      <4> QED BY <3>2, <4>1, <4>2 DEF Place, TypeOK
    <3> QED BY <1>3, <3>1, <3>2 DEF Merge
  <2> QED BY <1>3, <2>2 DEF Merge, askVars, TypeOK, Place
<1>4. ASSUME NEW c \in Clients, AskRemove(c) PROVE TypeOK'
  <2>1. Place'
    BY <1>4, MoveType DEF AskRemove, Stages, Holding
  <2>2. \A S \in Removals : S \in SUBSET Refs
    BY DEF Removals, Refs
  <2>3. target' \in [Clients -> SUBSET Refs]
    BY <1>4, <2>2 DEF AskRemove, TypeOK
  <2> QED BY <1>4, <2>1, <2>3 DEF AskRemove, TypeOK, Place
<1>5. ASSUME NEW c \in Clients, Refuse(c) PROVE TypeOK'
  <2>1. Place'
    BY <1>5, ReturnType DEF Refuse, Answers
  <2> QED BY <1>5, <2>1 DEF Refuse, askVars, TypeOK, Place
<1>6. ASSUME NEW c \in Clients, Lock(c) PROVE TypeOK'
  BY <1>6 DEF Lock, FirstStage, askVars, TypeOK, Stages, Holding
<1>7. ASSUME NEW c \in Clients, Check(c) PROVE TypeOK'
  <2>1. Place'
    <3>1. CASE Return(c, "conflict") \/ Return(c, "failed")
      BY <3>1, ReturnType DEF Answers
    <3>2. CASE at' = [at EXCEPT ![c] = "write"]
      <4>1. Rev(ref[c]) + 1 \in Nat
        BY RevOfType DEF TypeOK
      <4> QED BY <1>7, <3>1, <3>2, <4>1 DEF Check, Place, TypeOK, Stages, Holding
    <3> QED BY <1>7, <3>1, <3>2 DEF Check
  <2>2. spent' \in [Kinds -> Nat]
    BY <1>7, SpendType DEF Check, TypeOK, Kinds
  <2> QED BY <1>7, <2>1, <2>2 DEF Check, askVars, TypeOK, Place
<1>8. ASSUME NEW c \in Clients, Write(c) PROVE TypeOK'
  <2>1. Place'
    BY <1>8, ReturnType, MoveType DEF Write, Answers, Stages, Holding
  <2>2. spent' \in [Kinds -> Nat]
    BY <1>8, SpendType DEF Write, TypeOK, Kinds
  <2>3. file' \in [Refs -> [rev : Nat, objects : SUBSET Objects] \cup {Missing}]
    BY <1>8 DEF Write, TypeOK
  <2> QED BY <1>8, <2>1, <2>2, <2>3 DEF Write, askVars, TypeOK, Place
<1>9. ASSUME NEW c \in Clients, Sweep(c) PROVE TypeOK'
  <2>1. Place'
    BY <1>9, ReturnType DEF Sweep, Answers
  <2>2. spent' \in [Kinds -> Nat] /\ legacy' \in SUBSET Keys
    BY <1>9, SpendType DEF Sweep, TypeOK, Kinds
  <2> QED BY <1>9, <2>1, <2>2 DEF Sweep, askVars, TypeOK, Place
<1>10. ASSUME NEW c \in Clients, Unlegacy(c) PROVE TypeOK'
  <2>1. Place'
    BY <1>10, ReturnType, MoveType DEF Unlegacy, Answers, Stages, Holding
  <2>2. spent' \in [Kinds -> Nat] /\ legacy' \in SUBSET Keys
    BY <1>10, SpendType DEF Unlegacy, TypeOK, Kinds
  <2>3. age' \in [Refs -> Nat]
    BY <1>10 DEF Unlegacy, TypeOK
  <2> QED BY <1>10, <2>1, <2>2, <2>3 DEF Unlegacy, askVars, TypeOK, Place
<1>11. ASSUME NEW c \in Clients, Unlink(c) PROVE TypeOK'
  <2>1. Place'
    BY <1>11, ReturnType DEF Unlink, Answers, TypeOK, Place
  <2>2. spent' \in [Kinds -> Nat]
    BY <1>11, SpendType DEF Unlink, TypeOK, Kinds
  <2>3. file' \in [Refs -> [rev : Nat, objects : SUBSET Objects] \cup {Missing}]
    BY <1>11 DEF Unlink, TypeOK
  <2>4. age' \in [Refs -> Nat]
    <3>1. ASSUME NEW r \in target[c], age' = [age EXCEPT ![r] = @ + 1]
          PROVE  age' \in [Refs -> Nat]
      BY <3>1 DEF TypeOK
    <3> QED BY <1>11, <3>1 DEF Unlink, TypeOK
  <2> QED BY <1>11, <2>1, <2>2, <2>3, <2>4 DEF Unlink, askVars, TypeOK, Place
<1>12. ASSUME NEW c \in Clients, Finish(c) PROVE TypeOK'
  <2>1. Place'
    BY <1>12, ReturnType DEF Finish, Answers
  <2> QED BY <1>12, <2>1 DEF Finish, askVars, TypeOK, Place
<1>13. ASSUME NEW c \in Clients, Drop(c) PROVE TypeOK'
  <2>1. Place'
    BY <1>13, ReturnType DEF Drop, Answers, TypeOK, Place, Release
  <2>2. spent' \in [Kinds -> Nat]
    BY <1>13, SpendType DEF Drop, Kinds
  <2> QED BY <1>13, <2>1, <2>2 DEF Drop, askVars, TypeOK, Place
<1>14. CASE Crash
  <2>1. spent' \in [Kinds -> Nat]
    BY <1>14, SpendType DEF Crash, Kinds
  <2> QED BY <1>14, <2>1 DEF Crash, askVars, TypeOK, Stages, Answers
<1> QED
  BY <1>1, <1>2, <1>3, <1>4, <1>5, <1>6, <1>7, <1>8, <1>9, <1>10, <1>11, <1>12, <1>13, <1>14
     DEF Next

\* Every variable keeps to the values the code can give it.
THEOREM TypeCorrect == Spec => []TypeOK
<1>1. Init => TypeOK
  BY InitType
<1>2. TypeOK /\ [Next]_vars => TypeOK'
  BY StepType
<1> QED BY <1>1, <1>2, PTL DEF Spec

----------------------------------------------------------------------------
(* Removals. *)

\* When a removal comes to the file, the old format is gone.
OldFormatFirst == \A c \in Clients : at[c] = "unlink" => target[c] \cap legacy = {}

LEMMA StepOldFormat == ASSUME TypeOK, OldFormatFirst, [Next]_vars
                       PROVE  OldFormatFirst'
<1> USE DEF OldFormatFirst
<1>1. legacy' \subseteq legacy
  BY DEF Next, vars, askVars, Ask, Merge, AskRemove, Refuse, Lock, Check, Write, Sweep, Unlegacy,
         Unlink, Finish, Drop, Crash
<1>2. CASE UNCHANGED vars
  BY <1>2 DEF vars, askVars
<1>3. ASSUME NEW c \in Clients, AskRemove(c) PROVE OldFormatFirst'
  BY <1>3 DEF AskRemove, MoveTo, TypeOK
<1>4. ASSUME NEW c \in Clients, Lock(c) PROVE OldFormatFirst'
  BY <1>4 DEF Lock, FirstStage, askVars, TypeOK
<1>5. ASSUME NEW c \in Clients, Unlegacy(c) PROVE OldFormatFirst'
  BY <1>5 DEF Unlegacy, MoveTo, Return, askVars, TypeOK
<1>6. ASSUME NEW c \in Clients,
             Ask(c) \/ Merge(c) \/ Refuse(c) \/ Check(c) \/ Write(c) \/ Sweep(c) \/ Unlink(c)
             \/ Finish(c) \/ Drop(c)
      PROVE  OldFormatFirst'
  <2>1. UNCHANGED target /\ (at'[c] = at[c] \/ at'[c] # "unlink")
        /\ \A d \in Clients \ {c} : at'[d] = at[d]
    BY <1>6 DEF Ask, Merge, Refuse, Check, Write, Sweep, Unlink, Finish, Drop, Return, MoveTo,
                askVars, TypeOK
  <2> QED BY <1>1, <2>1
<1>7. CASE Crash
  BY <1>1, <1>7 DEF Crash, UnderWay, askVars
<1> QED BY <1>2, <1>3, <1>4, <1>5, <1>6, <1>7 DEF Next

\* A removal of a key's bundle never revives its old format, however many
\* disconnects, failures and crashes.
THEOREM NoFallback == Spec => NeverFallsBack
<1>1. Init => TypeOK /\ OldFormatFirst
  BY InitType DEF Init, OldFormatFirst
<1>2. TypeOK /\ OldFormatFirst /\ [Next]_vars => TypeOK' /\ OldFormatFirst'
  BY StepType, StepOldFormat
<1>3. TypeOK /\ OldFormatFirst /\ [Next]_vars
      => [\A k \in Keys : file[k] # Missing /\ file'[k] = Missing => k \notin legacy']_vars
  <2> SUFFICES ASSUME TypeOK, OldFormatFirst, Next,
                      NEW k \in Keys, file[k] # Missing, file'[k] = Missing
               PROVE  k \notin legacy'
    BY DEF vars
  <2>1. ASSUME NEW c \in Clients, Unlink(c) PROVE k \notin legacy'
    <3>1. at[c] = "unlink" /\ UNCHANGED legacy
      BY <2>1 DEF Unlink
    <3>2. k \in target[c]
      BY <2>1, RequestsOfType DEF Unlink, TypeOK
    <3> QED BY <3>1, <3>2 DEF OldFormatFirst
  <2>2. ASSUME NEW c \in Clients, Write(c) PROVE FALSE
    <3>1. [rev |-> next[c], objects |-> load[c]] # Missing
      BY WrittenIsThere DEF TypeOK
    <3> QED BY <2>2, <3>1, RequestsOfType DEF Write, TypeOK
  <2> QED
    BY <2>1, <2>2 DEF Next, Ask, Merge, AskRemove, Refuse, Lock, Check, Sweep, Unlegacy, Finish,
                     Drop, Crash
<1> QED BY <1>1, <1>2, <1>3, PTL DEF Spec, NeverFallsBack

----------------------------------------------------------------------------
(* Requests, until a client disconnects. *)

Saving(c) == target[c] = {} /\ at[c] \in {"merging", "ready", "check", "write"}

\* What a request that is not dropped holds, has loaded and is about to do.
Request(c) ==
    /\ c \notin gone
    /\ at[c] # "done" => answer[c] = "none"
    /\ at[c] = "idle" => target[c] = {} /\ c \notin merge
    /\ at[c] \in {"merging", "check", "write", "sweep"} => target[c] = {}
    /\ Saving(c) => c \in load[c]
    /\ at[c] \in Holding => lock = c

\* What it relies on in the store while it holds the lock.
Relies(c) ==
    /\ at[c] = "write" => Expected(c) /\ next[c] = Rev(ref[c]) + 1
    /\ at[c] = "sweep" => file[ref[c]] # Missing /\ c \in file[ref[c]].objects

\* The bundle is still the one its sender saw, or it is at a later revision, or
\* was removed.
AsSeen(c) == /\ seen[c].age = age[ref[c]]
             /\ seen[c].rev = Rev(ref[c])

Remembers(c) ==
    Saving(c) =>
      /\ guard[c] \in {Unguarded, seen[c].rev, 0}
      /\ seen[c].age <= age[ref[c]]
      /\ seen[c].age = age[ref[c]] => seen[c].rev <= Rev(ref[c])
      /\ AsSeen(c) => Content(ref[c]) = seen[c].objects
      /\ AsSeen(c) /\ c \in merge /\ at[c] # "merging" => load[c] = seen[c].objects \cup {c}

CalmInv == Undropped => \A c \in Clients : Request(c) /\ Relies(c) /\ Remembers(c)

LEMMA UndroppedBefore == ASSUME TypeOK, [Next]_vars, Undropped' PROVE Undropped
<1>1. ASSUME NEW kind \in Kinds, Spend(kind) PROVE Undropped
  BY <1>1 DEF Spend, Undropped, TypeOK, Kinds
<1> QED
  BY <1>1 DEF Undropped, Next, vars, askVars, Ask, Merge, AskRemove, Refuse, Lock, Check, Write,
              Sweep, Unlegacy, Unlink, Finish, Drop, Crash, Kinds

LEMMA NoDrop == ASSUME TypeOK, Undropped', NEW c \in Clients, Drop(c) PROVE FALSE
  BY DEF Drop, Spend, Undropped, TypeOK, Kinds

\* What a step does to a bundle: nothing a reader notices, a new revision, or
\* a removal.
Moves(r) == \/ age'[r] = age[r] /\ Rev(r)' = Rev(r) /\ Content(r)' = Content(r)
            \/ age'[r] = age[r] /\ Rev(r)' = Rev(r) + 1
            \/ age'[r] = age[r] + 1

Quiet == UNCHANGED <<file, legacy, age>>

LEMMA QuietMoves == ASSUME Quiet, NEW r \in Refs PROVE Moves(r)
  BY DEF Quiet, Moves, Rev, Content

LEMMA StepMoves == ASSUME TypeOK, CalmInv, [Next]_vars, Undropped', NEW r \in Refs
                   PROVE  Moves(r)
<1>0. Undropped
  BY UndroppedBefore
<1>1. ASSUME NEW c \in Clients, Write(c) PROVE Moves(r)
  <2>1. CASE file' = [file EXCEPT ![ref[c]] = [rev |-> next[c], objects |-> load[c]]]
    <3>1. next[c] = Rev(ref[c]) + 1 /\ next[c] \in Nat /\ load[c] \in SUBSET Objects
      BY <1>0, <1>1 DEF Write, CalmInv, Relies, TypeOK
    <3>2. [rev |-> next[c], objects |-> load[c]] # Missing
      BY <3>1, WrittenIsThere
    <3>3. UNCHANGED <<legacy, age>>
      BY <1>1 DEF Write
    <3>4. CASE r = ref[c]
      BY <2>1, <3>1, <3>2, <3>3, <3>4 DEF Moves, Rev, TypeOK
    <3>5. CASE r # ref[c]
      <4>1. file'[r] = file[r]
        BY <2>1, <3>5 DEF TypeOK
      <4> QED BY <3>3, <4>1 DEF Moves, Rev, Content
    <3> QED BY <3>4, <3>5
  <2>2. CASE UNCHANGED file
    BY <1>1, <2>2, QuietMoves DEF Write, Quiet
  <2> QED BY <1>1, <2>1, <2>2 DEF Write
<1>2. ASSUME NEW c \in Clients, Sweep(c) PROVE Moves(r)
  <2>1. file[ref[c]] # Missing
    BY <1>0, <1>2 DEF Sweep, CalmInv, Relies
  <2>2. /\ UNCHANGED <<file, age>>
        /\ legacy' = legacy \/ legacy' = legacy \ {ref[c]}
    BY <1>2 DEF Sweep
  <2> QED BY <2>1, <2>2 DEF Moves, Rev, Content
<1>3. ASSUME NEW c \in Clients, Unlegacy(c) PROVE Moves(r)
  <2>1. CASE UNCHANGED <<legacy, age>>
    BY <1>3, <2>1, QuietMoves DEF Unlegacy, Quiet
  <2>2. CASE /\ legacy' = legacy \ target[c]
             /\ age' = [q \in Refs |-> IF q \in target[c] \cap legacy THEN age[q] + 1 ELSE age[q]]
    BY <1>3, <2>2 DEF Unlegacy, Moves, Rev, Content
  <2> QED BY <1>3, <2>1, <2>2 DEF Unlegacy
<1>4. ASSUME NEW c \in Clients, Unlink(c) PROVE Moves(r)
  <2>1. CASE UNCHANGED <<file, age>>
    BY <1>4, <2>1, QuietMoves DEF Unlink, Quiet
  <2>2. ASSUME NEW q \in target[c],
               file' = [file EXCEPT ![q] = Missing], age' = [age EXCEPT ![q] = @ + 1]
        PROVE  Moves(r)
    <3>1. UNCHANGED legacy
      BY <1>4 DEF Unlink
    <3>2. CASE r = q
      BY <2>2, <3>2 DEF Moves, TypeOK
    <3>3. CASE r # q
      <4>1. file'[r] = file[r] /\ age'[r] = age[r]
        BY <2>2, <3>3 DEF TypeOK
      <4> QED BY <3>1, <4>1 DEF Moves, Rev, Content
    <3> QED BY <3>2, <3>3
  <2> QED BY <1>4, <2>1, <2>2 DEF Unlink
<1>5. ASSUME Quiet PROVE Moves(r)
  BY <1>5, QuietMoves
<1> QED
  BY <1>1, <1>2, <1>3, <1>4, <1>5, NoDrop
     DEF Next, Quiet, vars, Ask, Merge, AskRemove, Refuse, Lock, Check, Finish, Crash

\* A request that does not move remembers what it did, whatever happens to the
\* bundle.
LEMMA StillRemembers ==
    ASSUME TypeOK, TypeOK', NEW c \in Clients, Remembers(c), Moves(ref[c]),
           UNCHANGED askVars, at'[c] = at[c], load'[c] = load[c]
    PROVE  Remembers(c)'
<1> DEFINE r == ref[c]
<1>0. r \in Refs /\ r = ref'[c]
  BY DEF TypeOK, askVars
<1>1. /\ age[r] \in Nat /\ age'[r] \in Nat
      /\ Rev(r) \in Nat /\ seen[c].age \in Nat /\ seen[c].rev \in Nat
  BY <1>0, RevOfType DEF TypeOK
<1>2. Saving(c)' = Saving(c)
  BY DEF Saving, askVars
<1>3. CASE age'[r] = age[r] /\ Rev(r)' = Rev(r) /\ Content(r)' = Content(r)
  BY <1>0, <1>2, <1>3 DEF Remembers, AsSeen, askVars
<1>4. CASE age'[r] = age[r] /\ Rev(r)' = Rev(r) + 1
  <2>1. Saving(c) => ~(AsSeen(c)')
    BY <1>0, <1>1, <1>4 DEF Remembers, AsSeen, askVars
  <2> QED BY <1>0, <1>1, <1>2, <1>4, <2>1 DEF Remembers, askVars
<1>5. CASE age'[r] = age[r] + 1
  <2>1. Saving(c) => ~(AsSeen(c)') /\ seen[c].age <= age'[r] /\ seen[c].age # age'[r]
    BY <1>0, <1>1, <1>5 DEF Remembers, AsSeen, askVars
  <2> QED BY <1>0, <1>1, <1>2, <1>5, <2>1 DEF Remembers, askVars
<1> QED BY <1>3, <1>4, <1>5 DEF Moves

LEMMA StepRemembers ==
    ASSUME TypeOK, TypeOK', CalmInv, [Next]_vars, Undropped', NEW d \in Clients
    PROVE  Remembers(d)'
<1>0. Undropped /\ Remembers(d) /\ Request(d)
  BY UndroppedBefore DEF CalmInv
<1>1. Moves(ref[d])
  BY StepMoves DEF TypeOK
<1>2. CASE UNCHANGED askVars /\ at'[d] = at[d] /\ load'[d] = load[d]
  BY <1>0, <1>1, <1>2, StillRemembers
<1>3. CASE ~(Saving(d)')
  BY <1>3 DEF Remembers
<1>4. ASSUME NEW c \in Clients, Ask(c) PROVE Remembers(d)'
  <2>1. CASE c = d
    <3>1. PICK r \in Refs : \E e \in Expectations(r) :
            /\ ref' = [ref EXCEPT ![c] = r]
            /\ guard' = [guard EXCEPT ![c] = e]
            /\ seen' = [seen EXCEPT ![c] =
                          [age |-> age[r], rev |-> Rev(r), objects |-> Content(r)]]
            /\ at'[c] = "merging" \/ merge' = merge
      BY <1>4 DEF Ask, TypeOK
    <3>2. /\ ref'[c] = r
          /\ guard'[c] \in {Unguarded, Rev(r), 0}
          /\ seen'[c] = [age |-> age[r], rev |-> Rev(r), objects |-> Content(r)]
      BY <3>1 DEF TypeOK, Expectations
    <3>3. Rev(r)' = Rev(r) /\ Content(r)' = Content(r) /\ age' = age /\ age[r] \in Nat /\ Rev(r) \in Nat
      BY <1>4, RevOfType DEF Ask, Rev, Content, TypeOK
    <3>4. load'[c] = {c} /\ (at'[c] # "merging" => merge' = merge)
      BY <1>4, <3>1 DEF Ask, TypeOK
    <3>5. Rev(ref[c])' = Rev(r) /\ Content(ref[c])' = Content(r) /\ age'[ref'[c]] = age[r]
      BY <3>2, <3>3 DEF Rev, Content
    <3>6. c \in merge' => at'[c] = "merging" \/ c \in merge
      BY <3>4
    <3>7. c \notin merge
      BY <1>0, <1>4, <2>1 DEF Request, Ask
    <3> QED BY <2>1, <3>2, <3>3, <3>5, <3>6, <3>7 DEF Remembers, AsSeen
  <2>2. CASE c # d
    <3>1. /\ ref'[d] = ref[d] /\ guard'[d] = guard[d] /\ seen'[d] = seen[d] /\ target' = target
          /\ at'[d] = at[d] /\ load'[d] = load[d] /\ (d \in merge' <=> d \in merge)
          /\ Rev(ref[d])' = Rev(ref[d]) /\ Content(ref[d])' = Content(ref[d]) /\ age' = age
      BY <1>4, <2>2 DEF Ask, TypeOK, Rev, Content
    <3> QED BY <1>0, <3>1 DEF Remembers, AsSeen, Saving
  <2> QED BY <2>1, <2>2
<1>5. ASSUME NEW c \in Clients, Merge(c) PROVE Remembers(d)'
  <2>1. CASE c = d /\ at'[c] = "ready"
    <3>1. /\ UNCHANGED <<file, legacy, age, askVars>> /\ at[c] = "merging"
          /\ load'[c] = Content(ref[c]) \cup {c}
      BY <1>5, <2>1 DEF Merge, Return, TypeOK
    <3>2. Saving(c)
      BY <1>0, <2>1, <3>1 DEF Saving, Request
    <3>3. Rev(ref[c])' = Rev(ref[c]) /\ Content(ref[c])' = Content(ref[c])
      BY <3>1 DEF Rev, Content, askVars
    <3> QED BY <1>0, <2>1, <3>1, <3>2, <3>3 DEF Remembers, AsSeen, askVars
  <2>2. CASE c = d /\ at'[c] # "ready"
    BY <1>3, <1>5, <2>2 DEF Merge, Return, Saving, TypeOK
  <2>3. CASE c # d
    BY <1>2, <1>5, <2>3 DEF Merge, Return, TypeOK
  <2> QED BY <2>1, <2>2, <2>3
<1>6. ASSUME NEW c \in Clients, AskRemove(c) PROVE Remembers(d)'
  <2>1. CASE c = d
    <3>1. \A S \in Removals : S # {}
      BY StoreAssumption DEF Removals
    <3>2. target'[c] # {}
      BY <1>6, <3>1 DEF AskRemove, TypeOK
    <3> QED BY <1>3, <2>1, <3>2 DEF Saving
  <2>2. CASE c # d
    <3>1. /\ ref'[d] = ref[d] /\ guard'[d] = guard[d] /\ seen'[d] = seen[d] /\ target'[d] = target[d]
          /\ at'[d] = at[d] /\ load'[d] = load[d] /\ (d \in merge' <=> d \in merge)
          /\ Rev(ref[d])' = Rev(ref[d]) /\ Content(ref[d])' = Content(ref[d]) /\ age' = age
      BY <1>6, <2>2 DEF AskRemove, MoveTo, TypeOK, Rev, Content
    <3> QED BY <1>0, <3>1 DEF Remembers, AsSeen, Saving
  <2> QED BY <2>1, <2>2
<1>7. ASSUME NEW c \in Clients, Lock(c) \/ (Check(c) /\ at'[c] = "write") PROVE Remembers(d)'
  <2>1. UNCHANGED <<file, legacy, age, askVars, load>> /\ \A e \in Clients \ {c} : at'[e] = at[e]
    BY <1>7 DEF Lock, Check, Return, TypeOK
  <2>2. Saving(c)' => Saving(c) /\ at[c] # "merging"
    BY <1>7, <2>1 DEF Lock, Check, Saving, askVars, TypeOK
  <2>3. Rev(ref[d])' = Rev(ref[d]) /\ Content(ref[d])' = Content(ref[d])
    BY <2>1 DEF Rev, Content, askVars
  <2> QED BY <1>0, <1>2, <2>1, <2>2, <2>3 DEF Remembers, AsSeen, askVars
<1>8. ASSUME NEW c \in Clients,
             \/ Refuse(c) \/ (Check(c) /\ at'[c] # "write") \/ Write(c) \/ Sweep(c) \/ Unlegacy(c)
             \/ Unlink(c) \/ Finish(c)
      PROVE  Remembers(d)'
  <2>1. /\ UNCHANGED askVars
        /\ at'[c] \notin {"merging", "ready", "check", "write"}
        /\ \A e \in Clients \ {c} : at'[e] = at[e] /\ load'[e] = load[e]
    BY <1>8 DEF Refuse, Check, Write, Sweep, Unlegacy, Unlink, Finish, Return, MoveTo, TypeOK
  <2> QED BY <1>2, <1>3, <2>1 DEF Saving
<1>9. CASE Crash
  <2>1. at'[d] \in {"idle", "done"}
    BY <1>9 DEF Crash, UnderWay
  <2> QED BY <1>3, <2>1 DEF Saving
<1>10. CASE UNCHANGED vars
  BY <1>2, <1>10 DEF vars
<1> QED
  BY <1>4, <1>5, <1>6, <1>7, <1>8, <1>9, <1>10, NoDrop DEF Next

LEMMA ReturnRequest == ASSUME TypeOK, NEW c \in Clients, NEW d \in Clients, NEW what \in Answers,
                              Request(d), c # d => Request(c), at[c] # "done",
                              Return(c, what), UNCHANGED <<target, merge>>
                       PROVE  Request(d)'
  BY DEF Request, Return, Release, Saving, Holding, TypeOK

LEMMA StepRequest ==
    ASSUME TypeOK, TypeOK', CalmInv, [Next]_vars, Undropped', NEW d \in Clients
    PROVE  Request(d)'
<1>0. Undropped /\ Request(d) /\ \A c \in Clients : Request(c)
  BY UndroppedBefore DEF CalmInv
<1>1. ASSUME NEW c \in Clients, NEW what \in Answers, Return(c, what), at[c] # "done",
             UNCHANGED <<target, merge>>
      PROVE  Request(d)'
  BY <1>0, <1>1, ReturnRequest
<1>2. ASSUME NEW c \in Clients, Ask(c) PROVE Request(d)'
  BY <1>0, <1>2 DEF Ask, Request, Saving, Holding, TypeOK
<1>3. ASSUME NEW c \in Clients, Merge(c) PROVE Request(d)'
  <2>1. CASE Return(c, "failed")
    BY <1>1, <1>3, <2>1 DEF Merge, askVars, Answers
  <2>2. CASE ~Return(c, "failed")
    BY <1>0, <1>3, <2>2 DEF Merge, Request, Saving, Holding, TypeOK, askVars
  <2> QED BY <2>1, <2>2
<1>4. ASSUME NEW c \in Clients, AskRemove(c) PROVE Request(d)'
  <2>1. \A S \in Removals : S # {}
    BY StoreAssumption DEF Removals
  <2>2. target'[c] # {}
    BY <1>4, <2>1 DEF AskRemove, TypeOK
  <2> QED BY <1>0, <1>4, <2>2 DEF AskRemove, MoveTo, Request, Saving, Holding, TypeOK
<1>5. ASSUME NEW c \in Clients, Refuse(c) PROVE Request(d)'
  BY <1>1, <1>5 DEF Refuse, askVars, Answers
<1>6. ASSUME NEW c \in Clients, Lock(c) PROVE Request(d)'
  <2>1. \A e \in Clients \ {c} : at[e] \notin Holding
    BY <1>0, <1>6, StoreAssumption DEF Lock, Request
  <2> QED BY <1>0, <1>6, <2>1 DEF Lock, FirstStage, Request, Saving, Holding, TypeOK, askVars
<1>7. ASSUME NEW c \in Clients, Check(c) PROVE Request(d)'
  <2>1. CASE Return(c, "failed") \/ Return(c, "conflict")
    BY <1>1, <1>7, <2>1 DEF Check, askVars, Answers
  <2>2. CASE at' = [at EXCEPT ![c] = "write"] /\ UNCHANGED <<lock, load, gone, answer>>
    BY <1>0, <1>7, <2>2 DEF Check, Request, Saving, Holding, TypeOK, askVars
  <2> QED BY <1>7, <2>1, <2>2 DEF Check
<1>8. ASSUME NEW c \in Clients,
             \/ Write(c) /\ MoveTo(c, "sweep")
             \/ Unlegacy(c) /\ MoveTo(c, "unlink")
      PROVE  Request(d)'
  <2>1. /\ UNCHANGED <<target, merge, lock, load, gone, answer>>
        /\ at[c] \in Holding /\ at' = [at EXCEPT ![c] = at'[c]]
        /\ \/ at'[c] = "sweep" /\ target[c] = {}
           \/ at'[c] = "unlink"
    BY <1>0, <1>8 DEF Write, Unlegacy, MoveTo, Request, Holding, TypeOK, askVars
  <2> QED BY <1>0, <2>1 DEF Request, Saving, Holding, TypeOK
<1>9. ASSUME NEW c \in Clients, Unlink(c), UNCHANGED <<at, lock, load, gone, answer>> PROVE Request(d)'
  BY <1>0, <1>9 DEF Unlink, Request, Saving, TypeOK, askVars
<1>10. ASSUME NEW c \in Clients, Write(c) \/ Sweep(c) \/ Unlegacy(c) \/ Unlink(c) \/ Finish(c)
       PROVE  Request(d)'
  <2>1. at[c] # "done" /\ UNCHANGED <<target, merge>>
    BY <1>10 DEF Write, Sweep, Unlegacy, Unlink, Finish, askVars
  <2>2. \/ \E what \in Answers : Return(c, what)
        \/ Write(c) /\ MoveTo(c, "sweep")
        \/ Unlegacy(c) /\ MoveTo(c, "unlink")
        \/ Unlink(c) /\ UNCHANGED <<at, lock, load, gone, answer>>
    BY <1>10 DEF Write, Sweep, Unlegacy, Unlink, Finish, Answers
  <2> QED BY <1>1, <1>8, <1>9, <2>1, <2>2
<1>11. CASE Crash
  BY <1>0, <1>11 DEF Crash, UnderWay, Request, Saving, Holding, TypeOK, askVars
<1>12. CASE UNCHANGED vars
  BY <1>0, <1>12 DEF vars, askVars, Request, Saving
<1> QED
  BY <1>2, <1>3, <1>4, <1>5, <1>6, <1>7, <1>10, <1>11, <1>12, NoDrop DEF Next

LEMMA StepRelies ==
    ASSUME TypeOK, TypeOK', CalmInv, [Next]_vars, Undropped', NEW d \in Clients
    PROVE  Relies(d)'
<1>0. Undropped /\ Relies(d) /\ \A c \in Clients : Request(c)
  BY UndroppedBefore DEF CalmInv
<1>1. CASE at'[d] \notin {"write", "sweep"}
  BY <1>1 DEF Relies
<1>2. CASE UNCHANGED <<file, askVars, next>> /\ at'[d] = at[d]
  BY <1>0, <1>2 DEF Relies, Expected, Rev, askVars
<1>3. ASSUME NEW c \in Clients, c # d, at[d] \in {"write", "sweep"}, at[c] \in Holding PROVE FALSE
  BY <1>0, <1>3 DEF Request, Holding
<1>4. ASSUME NEW c \in Clients, Ask(c) \/ AskRemove(c) \/ Merge(c) \/ Refuse(c) \/ Lock(c) PROVE Relies(d)'
  <2>1. CASE c = d
    BY <1>1, <1>4, <2>1 DEF Ask, AskRemove, Merge, Refuse, Lock, FirstStage, MoveTo, Return, TypeOK
  <2>2. CASE c # d
    <3>1. /\ at'[d] = at[d] /\ ref'[d] = ref[d] /\ guard'[d] = guard[d] /\ next'[d] = next[d]
          /\ UNCHANGED file
      BY <1>4, <2>2 DEF Ask, AskRemove, Merge, Refuse, Lock, MoveTo, Return, askVars, TypeOK
    <3> QED BY <1>0, <3>1 DEF Relies, Expected, Rev
  <2> QED BY <2>1, <2>2
<1>5. ASSUME NEW c \in Clients,
             Check(c) \/ Write(c) \/ Sweep(c) \/ Unlegacy(c) \/ Unlink(c) \/ Finish(c)
      PROVE  Relies(d)'
  <2>1. CASE c # d
    <3>1. at[d] \notin {"write", "sweep"}
      BY <1>3, <1>5, <2>1 DEF Check, Write, Sweep, Unlegacy, Unlink, Finish, Holding
    <3>2. at'[d] = at[d]
      BY <1>5, <2>1 DEF Check, Write, Sweep, Unlegacy, Unlink, Finish, Return, MoveTo, TypeOK
    <3> QED BY <1>1, <3>1, <3>2
  <2>2. CASE c = d /\ Check(c)
    <3>1. CASE at'[c] = "write"
      <4>1. Expected(c) /\ next'[c] = Rev(ref[c]) + 1 /\ UNCHANGED <<file, askVars>>
        BY <2>2, <3>1 DEF Check, Return, TypeOK
      <4> QED BY <2>2, <3>1, <4>1 DEF Relies, Expected, Rev, askVars
    <3>2. CASE at'[c] # "write"
      BY <1>1, <2>2, <3>2 DEF Check, Return, TypeOK
    <3> QED BY <3>1, <3>2
  <2>3. CASE c = d /\ Write(c)
    <3>1. CASE at'[c] = "sweep"
      <4>1. /\ file' = [file EXCEPT ![ref[c]] = [rev |-> next[c], objects |-> load[c]]]
            /\ UNCHANGED askVars
        BY <2>3, <3>1 DEF Write, Return, TypeOK
      <4>2. [rev |-> next[c], objects |-> load[c]] # Missing
        BY WrittenIsThere DEF TypeOK
      <4>3. c \in load[c]
        BY <1>0, <2>3 DEF Write, Request, Saving
      <4> QED BY <2>3, <3>1, <4>1, <4>2, <4>3 DEF Relies, askVars, TypeOK
    <3>2. CASE at'[c] # "sweep"
      BY <1>1, <2>3, <3>2 DEF Write, Return, MoveTo, TypeOK
    <3> QED BY <3>1, <3>2
  <2>4. CASE c = d /\ (Sweep(c) \/ Unlegacy(c) \/ Unlink(c) \/ Finish(c))
    BY <1>1, <2>4 DEF Sweep, Unlegacy, Unlink, Finish, Return, MoveTo, TypeOK
  <2> QED BY <1>5, <2>1, <2>2, <2>3, <2>4
<1>6. CASE Crash
  BY <1>1, <1>6 DEF Crash, UnderWay
<1>7. CASE UNCHANGED vars
  BY <1>2, <1>7 DEF vars
<1> QED BY <1>4, <1>5, <1>6, <1>7, NoDrop DEF Next

LEMMA InitCalm == Init => CalmInv
<1> SUFFICES ASSUME Init, NEW c \in Clients PROVE Request(c) /\ Relies(c) /\ Remembers(c)
  BY DEF CalmInv
<1> QED BY DEF Init, Request, Relies, Remembers, Saving, Holding

LEMMA StepCalm == ASSUME TypeOK, TypeOK', CalmInv, [Next]_vars PROVE CalmInv'
  BY StepRequest, StepRelies, StepRemembers DEF CalmInv

\* No guarded update is lost until a client disconnects, whatever fails and
\* however often the agent dies.
THEOREM NoUpdateLost == Spec => NoLostUpdate
<1>1. Init => TypeOK /\ CalmInv
  BY InitType, InitCalm
<1>2. TypeOK /\ CalmInv /\ [Next]_vars => TypeOK' /\ CalmInv'
  BY StepType, StepCalm
<1> DEFINE Lost(c) == /\ Undropped'
                      /\ at[c] = "write" /\ file' # file
                      /\ guard[c] # Unguarded
                      /\ age[ref[c]] = seen[c].age
<1>3. TypeOK /\ CalmInv /\ [Next]_vars
      => [\A c \in Clients :
            Lost(c) => /\ Content(ref[c]) = seen[c].objects
                       /\ c \in merge => file'[ref[c]].objects = seen[c].objects \cup {c}]_vars
  <2> SUFFICES ASSUME TypeOK, CalmInv, Next, NEW c \in Clients, Lost(c)
               PROVE  /\ Content(ref[c]) = seen[c].objects
                      /\ c \in merge => file'[ref[c]].objects = seen[c].objects \cup {c}
    BY DEF vars
  <2>1. Undropped /\ Relies(c) /\ Remembers(c) /\ Saving(c) /\ \A d \in Clients : Request(d)
    BY UndroppedBefore DEF CalmInv, Request, Saving
  <2>2. AsSeen(c)
    <3>1. ref[c] \in Refs /\ Rev(ref[c]) \in Nat /\ seen[c].rev \in Nat
      BY RevOfType DEF TypeOK
    <3>2. guard[c] = Rev(ref[c]) /\ guard[c] \in {seen[c].rev, 0} /\ seen[c].rev <= Rev(ref[c])
      BY <2>1 DEF Relies, Expected, Remembers
    <3> QED BY <3>1, <3>2 DEF AsSeen
  <2>3. Write(c)
    <3>1. ASSUME NEW d \in Clients, at[d] \in Holding PROVE d = c
      BY <2>1, <3>1 DEF Request, Holding
    <3> QED
      BY <3>1, NoDrop DEF Next, Ask, Merge, AskRemove, Refuse, Lock, Check, Write, Sweep, Unlegacy,
                          Unlink, Finish, Crash, Holding
  <2>4. file'[ref[c]].objects = load[c]
    <3>1. file' = [file EXCEPT ![ref[c]] = [rev |-> next[c], objects |-> load[c]]]
      BY <2>3 DEF Write
    <3> QED BY <3>1 DEF TypeOK
  <2> QED BY <2>1, <2>2, <2>4 DEF Remembers
<1> QED BY <1>1, <1>2, <1>3, PTL DEF Spec, NoLostUpdate

----------------------------------------------------------------------------
(* The store and its contract. *)

Same == UNCHANGED <<ref, guard, target>>

\* Failures and losses are answers the contract leaves open.
LEMMA GivesUp == ASSUME NEW c \in Clients, UNCHANGED file, Same, c \notin gone,
                        NEW what \in {"failed", "refused", "lost"}, Return(c, what)
                 PROVE  Store!Next
<1>1. Store!GiveUp(c)
  BY DEF Store!GiveUp, Store!Reply, Return, Answers
<1> QED BY <1>1 DEF Same, Store!Next

LEMMA StepStore ==
    ASSUME TypeOK, TypeOK', CalmInv, [Next]_vars, Undropped'
    PROVE  [Store!Next]_(Store!vars)
<1> DEFINE Stutter == UNCHANGED <<file, ref, guard, target, answer>>
<1>0. Undropped /\ \A c \in Clients : Request(c) /\ Relies(c)
  BY UndroppedBefore DEF CalmInv
<1>1. ASSUME NEW c \in Clients, NEW what \in {"failed", "refused", "lost"}, Return(c, what),
             UNCHANGED file, Same
      PROVE  Store!Next
  BY <1>0, <1>1, GivesUp DEF Request
<1>2. CASE Stutter
  BY <1>2 DEF Store!vars
<1>3. ASSUME NEW c \in Clients, Ask(c) \/ AskRemove(c) PROVE Store!Next
  <2>1. answer[c] = "none" /\ UNCHANGED <<file, answer>>
    BY <1>0, <1>3 DEF Ask, AskRemove, MoveTo, Request
  <2>2. ASSUME NEW d \in Clients \ {c}
        PROVE  ref'[d] = ref[d] /\ guard'[d] = guard[d] /\ target'[d] = target[d]
    BY <1>3 DEF Ask, AskRemove, TypeOK
  <2>3. Store!Ask(c)
    BY <2>1, <2>2 DEF Store!Ask
  <2> QED BY <2>3 DEF Store!Next
<1>4. ASSUME NEW c \in Clients, Merge(c) \/ Refuse(c) \/ Lock(c) PROVE Store!Next \/ Stutter
  <2>1. UNCHANGED file /\ Same
    BY <1>4 DEF Merge, Refuse, Lock, askVars, Same
  <2> QED BY <1>1, <1>4, <2>1 DEF Merge, Refuse, Lock, askVars
<1>5. ASSUME NEW c \in Clients, Check(c) PROVE Store!Next \/ Stutter
  <2>1. UNCHANGED file /\ Same
    BY <1>5 DEF Check, askVars, Same
  <2>2. CASE ~Expected(c) /\ Return(c, "conflict")
    <3>1. answer' = [answer EXCEPT ![c] = "conflict"]
      BY <1>0, <2>2 DEF Return, Request
    <3>2. Store!Deny(c)
      BY <2>1, <2>2, <3>1 DEF Store!Deny, Store!Expected, Store!Rev, Store!Reply, Expected, Rev
    <3> QED BY <2>1, <3>2 DEF Store!Next, Same
  <2> QED BY <1>1, <1>5, <2>1, <2>2 DEF Check, askVars
<1>6. ASSUME NEW c \in Clients, Write(c) PROVE Store!Next
  <2>1. Same
    BY <1>6 DEF Write, askVars, Same
  <2>2. CASE file' = [file EXCEPT ![ref[c]] = [rev |-> next[c], objects |-> load[c]]]
    <3>1. Expected(c) /\ next[c] = Rev(ref[c]) + 1 /\ c \in load[c] /\ load[c] \in SUBSET Objects
      BY <1>0, <1>6 DEF Write, Relies, Request, Saving, TypeOK
    <3>2. answer' = answer \/ answer' = [answer EXCEPT ![c] = "saved"]
      <4>1. file' # file
        <5>1. [rev |-> next[c], objects |-> load[c]] # file[ref[c]]
          <6>1. next[c] # Rev(ref[c]) /\ next[c] \in Nat
            BY <3>1, RevOfType DEF TypeOK
          <6>2. [rev |-> next[c], objects |-> load[c]] # Missing
            BY <3>1, <6>1, WrittenIsThere
          <6> QED BY <6>1, <6>2 DEF Rev
        <5> QED BY <2>2, <5>1 DEF TypeOK
      <4>2. Return(c, "saved") \/ MoveTo(c, "sweep")
        BY <1>6, <4>1 DEF Write
      <4> QED BY <1>0, <4>2 DEF MoveTo, Return, Request
    <3>3. Store!Put(c)
      BY <2>2, <3>1, <3>2 DEF Store!Put, Store!Expected, Store!Rev, Store!Reply, Expected, Rev
    <3> QED BY <2>1, <3>3 DEF Store!Next, Same
  <2> QED BY <1>1, <1>6, <2>1, <2>2 DEF Write
<1>7. ASSUME NEW c \in Clients, Sweep(c) PROVE Store!Next
  <2>1. UNCHANGED file /\ Same
    BY <1>7 DEF Sweep, askVars, Same
  <2>2. CASE Return(c, "saved")
    <3>1. answer' = [answer EXCEPT ![c] = "saved"]
      BY <1>0, <2>2 DEF Return, Request
    <3>2. file[ref[c]] # Missing /\ c \in file[ref[c]].objects
      BY <1>0, <1>7 DEF Sweep, Relies
    <3>3. Store!Confirm(c)
      BY <2>1, <3>1, <3>2 DEF Store!Confirm, Store!Reply
    <3> QED BY <2>1, <3>3 DEF Store!Next, Same
  <2> QED BY <1>1, <1>7, <2>1, <2>2 DEF Sweep
<1>8. ASSUME NEW c \in Clients, Unlegacy(c) PROVE Store!Next \/ Stutter
  <2>1. UNCHANGED file /\ Same
    BY <1>8 DEF Unlegacy, askVars, Same
  <2> QED BY <1>1, <1>8, <2>1 DEF Unlegacy, MoveTo, askVars
<1>9. ASSUME NEW c \in Clients, Unlink(c) PROVE Store!Next
  <2>1. Same
    BY <1>9 DEF Unlink, askVars, Same
  <2>2. ASSUME NEW r \in target[c], file' = [file EXCEPT ![r] = Missing], UNCHANGED answer
        PROVE  Store!Next
    <3>1. Store!Delete(c)
      BY <2>2 DEF Store!Delete
    <3> QED BY <2>1, <3>1 DEF Store!Next, Same
  <2> QED BY <1>1, <1>9, <2>1, <2>2 DEF Unlink
<1>10. ASSUME NEW c \in Clients, Finish(c) PROVE Store!Next
  <2>1. UNCHANGED file /\ Same
    BY <1>10 DEF Finish, askVars, Same
  <2>2. answer' = [answer EXCEPT ![c] = "removed"]
    BY <1>0, <1>10 DEF Finish, Return, Request
  <2>3. Store!Removed(c)
    BY <1>10, <2>1, <2>2 DEF Finish, Store!Removed, Store!Reply
  <2> QED BY <2>1, <2>3 DEF Store!Next, Same
<1>11. CASE Crash
  <2>1. UNCHANGED file /\ Same
    BY <1>11 DEF Crash, askVars, Same
  <2>2. UnderWay \in SUBSET {c \in Clients : answer[c] = "none"}
    BY <1>0 DEF UnderWay, Request
  <2>3. Store!Stop
    BY <1>11, <2>1, <2>2 DEF Crash, Store!Stop, Same
  <2> QED BY <2>3 DEF Store!Next
<1>12. CASE UNCHANGED vars
  BY <1>2, <1>12 DEF vars, askVars
<1> QED
  BY <1>2, <1>3, <1>4, <1>5, <1>6, <1>7, <1>8, <1>9, <1>10, <1>11, <1>12, NoDrop DEF Next

\* Until a client disconnects, the store refines its contract: a write takes
\* effect at one instant, at the revision its sender expects, and every answer
\* is true when it is given.
THEOREM StoreImplemented == Spec => ImplementsStore
<1>1. Init => TypeOK /\ CalmInv /\ Store!Init
  BY InitType, InitCalm DEF Init, Store!Init
<1>2. TypeOK /\ CalmInv /\ [Next]_vars => TypeOK' /\ CalmInv'
  BY StepType, StepCalm
<1>3. TypeOK /\ TypeOK' /\ CalmInv /\ [Next]_vars => [Undropped' => Store!Next]_(Store!vars)
  BY StepStore
<1> QED BY <1>1, <1>2, <1>3, PTL DEF Spec, ImplementsStore
=============================================================================
