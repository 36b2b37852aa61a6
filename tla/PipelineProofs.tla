-------------------------- MODULE PipelineProofs --------------------------
(***************************************************************************)
(* Proofs about Pipeline, for any deployments, keys, permits and troubles. *)
(*                                                                         *)
(* No permit of the build semaphore is lost or made (SlotsHold).  The      *)
(* count alone is not inductive: that a permit passed on reaches somebody  *)
(* needs to know that whoever is in line is there once, and is not given   *)
(* one already (InOrder).                                                  *)
(*                                                                         *)
(* A success runs the commit it was asked for                              *)
(* (DeploymentsRunWhatWasAsked).  For each point of a run: what it knows   *)
(* of the work tree, the images and the containers of its key (Fetched),   *)
(* which only it changes, as runs of a key follow each other (OneBegun).   *)
(*                                                                         *)
(* What a run tells is true (StoriesAreTrue).  For each point of a run:    *)
(* which stage its story has open and which it has behind it (Told).       *)
(*                                                                         *)
(* Viewers are shown it (ViewersAreShownTheStory).  What one has read of   *)
(* the story, wherever it stands (Fits): a failure is within the last      *)
(* three events of a story, the last two of one that can be joined, so     *)
(* that neither the ring nor the backlog has lost it.                      *)
(***************************************************************************)
EXTENDS Pipeline, FiniteSetTheorems, SequenceTheorems, TLAPS

\* The set of those in a line.
In(line) == {line[i] : i \in DOMAIN line}

Once(line) == \A i, j \in DOMAIN line : line[i] = line[j] => i = j

InOrder ==
    /\ Once(queue) /\ granted \cap In(queue) = {}
    /\ IsFiniteSet(granted) /\ IsFiniteSet(Building)
-----------------------------------------------------------------------------
(* The line.                                                                *)

\* Who leaves a line is out of it, and the others are in it as before.
LEMMA LeaveLine ==
    ASSUME NEW S, NEW line \in Seq(S), Once(line), NEW d
    PROVE  /\ RemoveFirst(line, d) \in Seq(S)
           /\ Once(RemoveFirst(line, d))
           /\ In(RemoveFirst(line, d)) = In(line) \ {d}
<1>1. CASE d \notin In(line)
  <2>1. RemoveFirst(line, d) = line
    BY <1>1 DEF RemoveFirst, In
  <2>. QED BY <1>1, <2>1
<1>2. CASE d \in In(line)
  <2>1. PICK k \in 1..Len(line) : line[k] = d
    BY <1>2 DEF In
  <2>2. {i \in 1..Len(line) : line[i] = d} = {k}
    BY <2>1 DEF Once
  <2>3. Min({k}) = k
    BY DEF Min
  <2>4. RemoveFirst(line, d) = SubSeq(line, 1, k - 1) \o SubSeq(line, k + 1, Len(line))
    BY <2>1, <2>2, <2>3 DEF RemoveFirst, SelectInSeq, RemoveAt
  <2>. DEFINE r == SubSeq(line, 1, k - 1) \o SubSeq(line, k + 1, Len(line))
  <2>5. /\ r \in Seq(S) /\ Len(r) = Len(line) - 1
        /\ \A i \in 1..(k - 1) : r[i] = line[i]
        /\ \A i \in k..(Len(line) - 1) : r[i] = line[i + 1]
    <3>. DEFINE a == SubSeq(line, 1, k - 1)
                b == SubSeq(line, k + 1, Len(line))
    <3>1. a \in Seq(S) /\ Len(a) = k - 1 /\ \A i \in 1..(k - 1) : a[i] = line[i]
      BY <2>1
    <3>2. /\ b \in Seq(S) /\ Len(b) = Len(line) - k
          /\ \A i \in 1..(Len(line) - k) : b[i] = line[i + k]
      BY <2>1
    <3>. HIDE DEF a, b
    <3>3. a \o b \in Seq(S) /\ Len(a \o b) = Len(line) - 1
      <4>1. a \o b \in Seq(S) /\ Len(a \o b) = Len(a) + Len(b)
        BY <3>1, <3>2, ConcatProperties
      <4>2. k \in Nat /\ Len(line) \in Nat
        BY <2>1
      <4>. QED BY <3>1, <3>2, <4>1, <4>2
    <3>4. ASSUME NEW i \in 1..(k - 1) PROVE (a \o b)[i] = line[i]
      BY <2>1, <3>1, <3>2, i \in 1..(Len(a) + Len(b)), i <= Len(a)
    <3>5. ASSUME NEW i \in k..(Len(line) - 1) PROVE (a \o b)[i] = line[i + 1]
      <4>1. i \in 1..(Len(a) + Len(b)) /\ i > Len(a) /\ i - Len(a) \in 1..(Len(line) - k)
        BY <2>1, <3>1, <3>2
      <4>2. (a \o b)[i] = b[i - Len(a)]
        BY <2>1, <3>1, <3>2, <4>1
      <4>. QED BY <2>1, <3>1, <3>2, <4>1, <4>2
    <3>. QED BY <3>3, <3>4, <3>5 DEF a, b
  <2>. HIDE DEF r
  <2>6. Once(r)
    <3>1. ASSUME NEW i \in DOMAIN r, NEW j \in DOMAIN r, r[i] = r[j], i < j PROVE FALSE
      <4>1. i \in 1..(Len(line) - 1) /\ j \in 1..(Len(line) - 1)
        BY <2>5
      <4>2. \E m, n \in 1..Len(line) : m < n /\ r[i] = line[m] /\ r[j] = line[n]
        <5>1. CASE i < k /\ j < k
          BY <2>1, <2>5, <3>1, <4>1, <5>1
        <5>2. CASE i < k /\ j >= k
          BY <2>1, <2>5, <3>1, <4>1, <5>2
        <5>3. CASE i >= k /\ j >= k
          BY <2>1, <2>5, <3>1, <4>1, <5>3
        <5>4. k \in Int /\ i \in Int /\ j \in Int
          BY <2>1, <4>1
        <5>5. i < k \/ j >= k
          BY <3>1, <5>4
        <5>6. (i < k \/ i >= k) /\ (j < k \/ j >= k)
          BY <5>4
        <5>. QED BY <5>1, <5>2, <5>3, <5>5, <5>6
      <4>3. PICK m \in 1..Len(line), n \in 1..Len(line) :
                   m < n /\ r[i] = line[m] /\ r[j] = line[n]
        BY <4>2
      <4>4. line[m] = line[n]
        BY <3>1, <4>3, Zenon
      <4>5. m = n
        BY <4>4 DEF Once
      <4>. QED BY <4>3, <4>5, m \in Nat, n \in Nat
    <3>2. \A i, j \in DOMAIN r : i \in Int /\ j \in Int
      BY <2>5
    <3>3. \A i, j \in DOMAIN r : i < j \/ j < i \/ i = j
      BY <3>2
    <3>4. ASSUME NEW i \in DOMAIN r, NEW j \in DOMAIN r, r[i] = r[j] PROVE i = j
      <4>1. ~(i < j)
        BY <3>1, <3>4
      <4>2. ~(j < i)
        BY <3>1, <3>4
      <4>. QED BY <3>3, <4>1, <4>2
    <3>. QED BY <3>4 DEF Once
  <2>7. In(r) = In(line) \ {d}
    <3>1. ASSUME NEW x \in In(r) PROVE x \in In(line) \ {d}
      <4>1. PICK i \in DOMAIN r : r[i] = x
        BY <3>1 DEF In
      <4>2. i \in 1..(Len(line) - 1) /\ k \in Int /\ Len(line) \in Nat
        BY <2>1, <2>5
      <4>3. PICK m \in 1..Len(line) : line[m] = x /\ m # k
        <5>1. CASE i < k
          BY <2>5, <4>1, <4>2, <5>1
        <5>2. CASE i >= k
          <6>1. r[i] = line[i + 1] /\ i + 1 \in 1..Len(line) /\ i + 1 # k
            BY <2>5, <4>2, <5>2
          <6>. QED BY <4>1, <6>1
        <5>. QED BY <4>2, <5>1, <5>2
      <4>4. line[m] # line[k]
        BY <2>1, <4>3 DEF Once
      <4>. QED BY <2>1, <4>3, <4>4 DEF In
    <3>2. ASSUME NEW x \in In(line), x # d PROVE x \in In(r)
      <4>1. PICK i \in 1..Len(line) : line[i] = x
        BY DEF In
      <4>2. CASE i < k
        BY <2>1, <2>5, <4>1, <4>2 DEF In
      <4>3. CASE i > k
        <5>1. i - 1 \in DOMAIN r /\ r[i - 1] = x
          BY <2>1, <2>5, <4>1, <4>3
        <5>. QED BY <5>1 DEF In
      <4>. QED BY <2>1, <3>2, <4>1, <4>2, <4>3
    <3>. QED BY <3>1, <3>2
  <2>. QED BY <2>4, <2>5, <2>6, <2>7 DEF r
<1>. QED BY <1>1, <1>2

\* The first of a line.
LEMMA FirstInLine ==
    ASSUME NEW S, NEW line \in Seq(S), Once(line), line # <<>>
    PROVE  /\ Head(line) \in In(line) /\ Head(line) \in S
           /\ Tail(line) \in Seq(S) /\ Once(Tail(line))
           /\ In(Tail(line)) = In(line) \ {Head(line)}
<1>1. /\ Len(line) \in Nat /\ Len(line) >= 1 /\ Head(line) = line[1] /\ line[1] \in S
      /\ Tail(line) \in Seq(S) /\ Len(Tail(line)) = Len(line) - 1
      /\ \A i \in 1..(Len(line) - 1) : Tail(line)[i] = line[i + 1]
  OBVIOUS
<1>2. Once(Tail(line))
  BY <1>1 DEF Once
<1>3. Head(line) \in In(line)
  BY <1>1 DEF In
<1>4. In(Tail(line)) = In(line) \ {Head(line)}
  <2>1. ASSUME NEW x \in In(Tail(line)) PROVE x \in In(line) \ {Head(line)}
    BY <1>1, <2>1 DEF In, Once
  <2>2. ASSUME NEW x \in In(line), x # Head(line) PROVE x \in In(Tail(line))
    <3>1. PICK i \in 1..Len(line) : line[i] = x
      BY DEF In
    <3>2. i - 1 \in DOMAIN Tail(line) /\ Tail(line)[i - 1] = x
      BY <1>1, <2>2, <3>1
    <3>. QED BY <3>2 DEF In
  <2>. QED BY <2>1, <2>2
<1>. QED BY <1>1, <1>2, <1>3, <1>4

LEMMA LastInLine ==
    ASSUME NEW S, NEW line \in Seq(S), Once(line), NEW d \in S, d \notin In(line)
    PROVE  /\ Append(line, d) \in Seq(S) /\ Once(Append(line, d))
           /\ In(Append(line, d)) = In(line) \cup {d}
           /\ Append(line, d) # <<>>
<1>. DEFINE r == Append(line, d)
<1>1. /\ r \in Seq(S) /\ Len(r) = Len(line) + 1 /\ r[Len(line) + 1] = d
      /\ \A i \in 1..Len(line) : r[i] = line[i]
  OBVIOUS
<1>. HIDE DEF r
<1>2. Once(r)
  BY <1>1 DEF Once, In
<1>3. In(r) = In(line) \cup {d}
  <2>1. ASSUME NEW x \in In(r) PROVE x \in In(line) \cup {d}
    BY <1>1, <2>1 DEF In
  <2>2. ASSUME NEW x \in In(line) \cup {d} PROVE x \in In(r)
    BY <1>1, <2>2 DEF In
  <2>. QED BY <2>1, <2>2
<1>. QED BY <1>1, <1>2, <1>3 DEF r
-----------------------------------------------------------------------------
(* The permits. *)

Waits == \A d \in Deploys : At(d) = "wait" <=> d \in granted \/ d \in In(queue)

\* SlotsKept in terms of sets.
Shared == /\ free + Cardinality(granted) + Cardinality(Building) = Slots
          /\ queue # <<>> => free = 0
          /\ Waits

LEMMA SlotsAsSets == (SlotsKept <=> Shared) /\ (SlotsKept <=> Shared)'
BY DEF SlotsKept, Shared, Waits, In

Lines == /\ free \in Nat /\ queue \in Seq(Deploys) /\ granted \in SUBSET Deploys
         /\ InOrder

\* A step that takes nobody to the line, to the build or from there.
LEMMA Elsewhere ==
    ASSUME Lines, SlotsKept, UNCHANGED slots,
           \A o \in Deploys : /\ At(o)' = "wait" <=> At(o) = "wait"
                              /\ At(o)' = "build" <=> At(o) = "build"
    PROVE  Lines' /\ SlotsKept'
<1>1. Building' = Building
  BY DEF Building
<1>. QED BY <1>1 DEF Lines, InOrder, SlotsKept, slots, In

\* Who leaves, or has built, passes its permit on.
LEMMA LeaveKeeps ==
    ASSUME Lines, SlotsKept, NEW d \in Deploys, Leave(d),
           At(d)' \notin {"wait", "build"},
           \A o \in Deploys \ {d} : At(o)' = At(o)
    PROVE  Lines' /\ SlotsKept'
<1>0. /\ Waits
      /\ queue # <<>> => free = 0
      /\ free + Cardinality(granted) + Cardinality(Building) = Slots
  BY SlotsAsSets DEF Shared
<1>1. Building' = Building \ {d}
  BY DEF Building
<1>2. /\ IsFiniteSet(Building') /\ IsFiniteSet(granted) /\ IsFiniteSet(Building)
      /\ Cardinality(granted) \in Nat /\ Cardinality(Building) \in Nat
      /\ Cardinality(Building') = IF d \in Building THEN Cardinality(Building) - 1
                                  ELSE Cardinality(Building)
  BY <1>1, FS_RemoveElement, FS_CardinalityType DEF Lines, InOrder
<1>3. CASE queue # <<>> /\ (At(d) = "build" \/ d \in granted)
  <2>. DEFINE h == Head(queue)  rest == Tail(queue)
  <2>1. /\ h \in In(queue) /\ h \in Deploys /\ rest \in Seq(Deploys) /\ Once(rest)
        /\ In(rest) = In(queue) \ {h}
    BY <1>3, FirstInLine DEF Lines, InOrder
  <2>2. h \notin granted /\ h # d
    <3>1. h \notin granted
      BY <2>1 DEF Lines, InOrder
    <3>2. At(h) = "wait"
      BY <1>0, <2>1 DEF Waits
    <3>3. At(d) = "build" => h # d
      BY <3>2
    <3>. QED BY <1>3, <3>1, <3>3
  <2>. HIDE DEF h, rest
  <2>3. CASE At(d) = "build"
    <3>1. granted' = granted \cup {h} /\ queue' = rest /\ free' = free
      BY <1>3, <2>3 DEF Leave, Release, h, rest
    <3>2. Cardinality(granted') = Cardinality(granted) + 1 /\ IsFiniteSet(granted')
      BY <1>2, <2>2, <3>1, FS_AddElement
    <3>3. d \in Building
      BY <2>3 DEF Building
    <3>4. free' + Cardinality(granted') + Cardinality(Building') = Slots
      BY <1>0, <1>2, <3>1, <3>2, <3>3 DEF Lines
    <3>5. Waits'
      <4>1. d \notin granted /\ d \notin In(queue)
        BY <1>0, <2>3 DEF Waits
      <4>2. (d \notin granted /\ d \notin In(queue))'
        BY <2>1, <2>2, <3>1, <4>1
      <4>3. \A o \in Deploys \ {d} : (o \in granted \/ o \in In(queue))' <=>
                                     (o \in granted \/ o \in In(queue))
        BY <2>1, <3>1
      <4>. QED BY <1>0, <4>2, <4>3 DEF Waits
    <3>6. Lines'
      BY <1>2, <2>1, <2>2, <3>1, <3>2 DEF Lines, InOrder
    <3>. QED BY <1>0, <1>3, <3>1, <3>4, <3>5, <3>6, SlotsAsSets DEF Shared
  <2>4. CASE At(d) # "build"
    <3>1. granted' = (granted \ {d}) \cup {h} /\ queue' = rest /\ free' = free /\ d \in granted
      BY <1>3, <2>4 DEF Leave, h, rest
    <3>2. /\ IsFiniteSet(granted \ {d})
          /\ Cardinality(granted \ {d}) = Cardinality(granted) - 1
      BY <1>2, <3>1, FS_RemoveElement
    <3>3. Cardinality(granted') = Cardinality(granted) /\ IsFiniteSet(granted')
      <4>1. h \notin granted \ {d}
        BY <2>2
      <4>2. /\ IsFiniteSet((granted \ {d}) \cup {h})
            /\ Cardinality((granted \ {d}) \cup {h}) = Cardinality(granted \ {d}) + 1
        BY <3>2, <4>1, FS_AddElement
      <4>. QED BY <1>2, <3>1, <3>2, <4>2
    <3>4. d \notin Building
      BY <2>4 DEF Building
    <3>5. free' + Cardinality(granted') + Cardinality(Building') = Slots
      BY <1>0, <1>2, <3>1, <3>3, <3>4 DEF Lines
    <3>6. Waits'
      <4>1. (d \notin granted /\ d \notin In(queue))'
        BY <2>1, <2>2, <3>1 DEF Lines, InOrder
      <4>2. \A o \in Deploys \ {d} : (o \in granted \/ o \in In(queue))' <=>
                                     (o \in granted \/ o \in In(queue))
        BY <2>1, <3>1
      <4>. QED BY <1>0, <4>1, <4>2 DEF Waits
    <3>7. Lines'
      BY <1>2, <2>1, <2>2, <3>1, <3>3 DEF Lines, InOrder
    <3>. QED BY <1>0, <1>3, <3>1, <3>5, <3>6, <3>7, SlotsAsSets DEF Shared
  <2>. QED BY <2>3, <2>4
<1>4. CASE queue = <<>> /\ (At(d) = "build" \/ d \in granted)
  <2>1. free' = free + 1 /\ queue' = queue /\ granted' = granted \ {d}
    <3>1. At(d) = "build" => d \notin granted
      BY <1>0 DEF Waits
    <3>. QED BY <1>4, <3>1 DEF Leave, Release
  <2>2. In(queue) = {}
    BY <1>4 DEF In
  <2>3. /\ IsFiniteSet(granted')
        /\ Cardinality(granted') = IF d \in granted THEN Cardinality(granted) - 1
                                   ELSE Cardinality(granted)
    BY <1>2, <2>1, FS_RemoveElement
  <2>4. d \in Building <=> d \notin granted
    BY <1>0, <1>4 DEF Waits, Building
  <2>5. free' + Cardinality(granted') + Cardinality(Building') = Slots
    <3>1. CASE d \in granted
      BY <1>0, <1>2, <2>1, <2>3, <2>4, <3>1 DEF Lines
    <3>2. CASE d \notin granted
      BY <1>0, <1>2, <2>1, <2>3, <2>4, <3>2 DEF Lines
    <3>. QED BY <3>1, <3>2
  <2>6. Waits'
    BY <1>0, <2>1, <2>2 DEF Waits
  <2>7. Lines'
    BY <1>2, <2>1, <2>3 DEF Lines, InOrder
  <2>. QED BY <1>4, <2>1, <2>5, <2>6, <2>7, SlotsAsSets DEF Shared
<1>5. CASE At(d) # "build" /\ d \notin granted
  <2>. DEFINE r == RemoveFirst(queue, d)
  <2>1. r \in Seq(Deploys) /\ Once(r) /\ In(r) = In(queue) \ {d}
    BY LeaveLine DEF Lines, InOrder
  <2>2. queue = <<>> => r = <<>>
    <3>1. ASSUME queue = <<>> PROVE In(r) = {}
      BY <2>1, <3>1 DEF In
    <3>2. ASSUME In(r) = {} PROVE r = <<>>
      BY <2>1, <3>2, EmptySeq DEF In
    <3>. QED BY <3>1, <3>2
  <2>. HIDE DEF r
  <2>3. queue' = r /\ free' = free /\ granted' = granted
    BY <1>5 DEF Leave, r
  <2>4. d \notin Building
    BY <1>5 DEF Building
  <2>5. Waits'
    BY <1>0, <1>5, <2>1, <2>3 DEF Waits
  <2>6. Lines'
    BY <1>2, <2>1, <2>3 DEF Lines, InOrder
  <2>. QED BY <1>0, <1>2, <2>2, <2>3, <2>4, <2>5, <2>6, SlotsAsSets DEF Shared
<1>. QED BY <1>3, <1>4, <1>5
-----------------------------------------------------------------------------
(* The steps. *)

\* What the runs, the work trees and the line are.
Typed == /\ SourceTypeOK
         /\ run \in [Deploys -> Run]
         /\ built \in [Keys -> Commit] /\ running \in [Keys -> Commit]
         /\ Lines

LEMMA TypedInit == Init => Typed /\ SlotsKept
<1>. SUFFICES ASSUME Init PROVE Typed /\ SlotsKept
  OBVIOUS
<1>1. SourceTypeOK
  BY DEF Init, SourceInit, SourceTypeOK, NoClone, Clone, Commit
<1>2. run \in [Deploys -> Run]
  BY DEF Init, NewRun, Run, Points, Commit
<1>3. built \in [Keys -> Commit] /\ running \in [Keys -> Commit]
  BY DEF Init, Commit
<1>4. In(queue) = {} /\ Building = {}
  BY DEF Init, In, Building, At, NewRun
<1>5. IsFiniteSet({}) /\ Cardinality({}) = 0
  BY FS_EmptySet
<1>6. Lines
  BY <1>4, <1>5, PipelineAssumption DEF Init, Lines, InOrder, Once
<1>7. SlotsKept
  <2>1. \A d \in Deploys : At(d) = "new"
    BY DEF Init, At, NewRun
  <2>2. Waits
    BY <1>4, <2>1 DEF Init, Waits
  <2>. QED BY <1>4, <1>5, <2>2, PipelineAssumption, SlotsAsSets DEF Init, Shared
<1>. QED BY <1>1, <1>2, <1>3, <1>6, <1>7 DEF Typed

\* What the git commands leave is a clone.
LEMMA TreesTyped ==
    ASSUME Typed, NEW d \in Deploys
    PROVE  TreesLeft(d) \subseteq Clone /\ StacksLeft(d) \subseteq Commit
<1>1. KeyOf[d] \in Keys /\ RepoOf[d] \in Repos
  BY PipelineAssumption
<1>2. clone[KeyOf[d]] \in Clone
  BY <1>1 DEF Typed, SourceTypeOK
<1>3. TreesLeft(d) \subseteq Clone
  <2>1. CloneLeft(KeyOf[d], RepoOf[d]) \subseteq Clone
    <3>1. Unset \in Commit
      BY DEF Commit
    <3>2. NoClone \in Clone
      BY <3>1 DEF NoClone, Clone
    <3>3. [NoClone EXCEPT !.git = TRUE] \in Clone
      BY <3>2 DEF Clone
    <3>4. [NoClone EXCEPT !.git = TRUE, !.origin = RepoOf[d]] \in Clone
      BY <1>1, <3>2 DEF Clone
    <3>. QED BY <3>2, <3>3, <3>4 DEF CloneLeft
  <2>2. ResetLeft(KeyOf[d], Wanted(d)) \subseteq Clone
    BY <1>2 DEF ResetLeft, Clone, Commit
  <2>. QED BY <1>2, <2>1, <2>2 DEF TreesLeft
<1>4. StacksLeft(d) \subseteq Commit
  BY <1>1 DEF StacksLeft, Typed
<1>. QED BY <1>3, <1>4

LEMMA KilledTyped ==
    ASSUME Typed, NEW d \in Deploys, Killed(d)
    PROVE  SourceTypeOK' /\ (built \in [Keys -> Commit] /\ running \in [Keys -> Commit])'
<1>1. SourceTypeOK'
  <2>1. PICK c \in TreesLeft(d) : clone' = [clone EXCEPT ![KeyOf[d]] = c]
    BY DEF Killed
  <2>2. c \in Clone
    BY <2>1, TreesTyped
  <2>. QED BY <2>1, <2>2 DEF Killed, Typed, SourceTypeOK
<1>2. running' \in [Keys -> Commit]
  <2>1. PICK c \in StacksLeft(d) : running' = [running EXCEPT ![KeyOf[d]] = c]
    BY DEF Killed
  <2>2. c \in Commit
    BY <2>1, TreesTyped
  <2>. QED BY <2>1, <2>2 DEF Typed
<1>. QED BY <1>1, <1>2 DEF Killed, Typed

\* A run that ends where it stands, and what of the line it leaves.
LEMMA EndsKeeps ==
    ASSUME Typed, SlotsKept, NEW d \in Deploys, Leave(d), Killed(d),
           NEW p \in {"end", "over"}, NEW result \in Results,
           run' = [run EXCEPT ![d].at = p, ![d].hung = FALSE, ![d].result = result]
    PROVE  Typed' /\ SlotsKept'
<1>1. run' \in [Deploys -> Run] /\ At(d)' = p /\ \A o \in Deploys \ {d} : At(o)' = At(o)
  <2>1. run[d] \in Run /\ p \in Points
    BY DEF Typed, Points
  <2>. DEFINE r == [run[d] EXCEPT !.at = p, !.hung = FALSE, !.result = result]
  <2>2. r \in Run /\ r.at = p
    BY <2>1 DEF Run
  <2>3. run' = [run EXCEPT ![d] = r]
    BY DEF Typed
  <2>. HIDE DEF r
  <2>. QED BY <2>2, <2>3 DEF Typed, At
<1>2. Lines' /\ SlotsKept'
  BY <1>1, LeaveKeeps DEF Typed
<1>. QED BY <1>1, <1>2, KilledTyped DEF Typed

\* A call that returns and one that begins, neither in the line nor a build.
LEMMA MoveKeeps ==
    ASSUME Typed, SlotsKept, NEW d \in Deploys, UNCHANGED <<slots, host, tip>>,
           NEW p \in Points \ {"wait", "build"}, At(d) \notin {"wait", "build"},
           clone' \in [Keys -> Clone], run' \in [Deploys -> Run],
           At(d)' = p, \A o \in Deploys \ {d} : At(o)' = At(o)
    PROVE  Typed' /\ SlotsKept'
<1>1. Lines' /\ SlotsKept'
  BY Elsewhere DEF Typed
<1>. QED BY <1>1 DEF Typed, SourceTypeOK, host

\* What Move does to the run of d.
LEMMA Moved ==
    ASSUME Typed, NEW d \in Deploys, NEW mark, NEW p \in Points, Move(d, mark, p)
    PROVE  run' \in [Deploys -> Run] /\ At(d)' = p /\ \A o \in Deploys \ {d} : At(o)' = At(o)
BY DEF Typed, Run, At, Move

LEMMA StepsElsewhere ==
    ASSUME Typed, SlotsKept, NEW d \in Deploys
    PROVE  DoClone(d) \/ DoPull(d) \/ DoReset(d) \/ StartStack(d) \/ Healthy(d)
              \/ Summary(d) \/ Route(d) \/ Seed(d) \/ Flag(d) \/ Collect(d)
              => Typed' /\ SlotsKept'
<1>0. KeyOf[d] \in Keys /\ RepoOf[d] \in Repos
  BY PipelineAssumption
<1>1. clone \in [Keys -> Clone] /\ tip \in [Repos -> Nat]
  BY DEF Typed, SourceTypeOK
<1>2. CASE DoClone(d)
  <2>1. clone' \in [Keys -> Clone]
    <3>1. Tip(RepoOf[d]) \in Commit
      BY <1>0, <1>1 DEF Tip, Commit
    <3>. QED BY <1>0, <1>1, <1>2, <3>1 DEF DoClone, CloneOf, Clone
  <2>2. Move(d, None, "pull") /\ At(d) = "clone" /\ UNCHANGED <<slots, host, tip>>
    BY <1>2 DEF DoClone
  <2>. QED BY <2>1, <2>2, Moved, MoveKeeps DEF Points, Calls, Fetching
<1>3. CASE DoPull(d)
  <2>1. clone' \in [Keys -> Clone]
    <3>1. clone[KeyOf[d]].origin \in Repos
      BY <1>0, <1>1, <1>3 DEF DoPull, Pull, CanPull, Clone
    <3>2. Tip(clone[KeyOf[d]].origin) \in Commit
      BY <1>1, <3>1 DEF Tip, Commit
    <3>. QED BY <1>0, <1>1, <1>3, <3>2 DEF DoPull, Pull, Clone
  <2>2. Move(d, None, "reset") /\ At(d) = "pull" /\ UNCHANGED <<slots, host, tip>>
    BY <1>3 DEF DoPull
  <2>. QED BY <2>1, <2>2, Moved, MoveKeeps DEF Points, Calls, Fetching
<1>4. CASE DoReset(d)
  <2>. DEFINE c == Wanted(d)
  <2>1. c \in Commit
    BY <1>0, <1>1, PipelineAssumption DEF Clone, Wanted
  <2>2. clone' \in [Keys -> Clone]
    BY <1>0, <1>1, <1>4, <2>1 DEF DoReset, Reset, Clone
  <2>3. run' = [run EXCEPT ![d].at = "prepare", ![d].sha = c]
    BY <1>4 DEF DoReset
  <2>. HIDE DEF c
  <2>4. /\ run' \in [Deploys -> Run] /\ At(d)' = "prepare"
        /\ \A o \in Deploys \ {d} : At(o)' = At(o)
    BY <2>1, <2>3 DEF Typed, Run, At, Points, Calls
  <2>5. At(d) = "reset" /\ UNCHANGED <<slots, host, tip>>
    BY <1>4 DEF DoReset
  <2>. QED BY <2>2, <2>4, <2>5, MoveKeeps DEF Points, Calls
<1>5. ASSUME NEW mark, NEW from \in Points \ {"wait", "build"}, NEW p \in Points \ {"wait", "build"},
             At(d) = from, Move(d, mark, p), UNCHANGED <<source, slots, built>>,
             (running \in [Keys -> Commit])'
      PROVE  Typed' /\ SlotsKept'
  <2>1. /\ run' \in [Deploys -> Run] /\ At(d)' = p
        /\ \A o \in Deploys \ {d} : At(o)' = At(o)
    BY <1>5, Moved
  <2>2. Lines' /\ SlotsKept'
    BY <1>5, <2>1, Elsewhere DEF Typed
  <2>. QED BY <1>1, <1>5, <2>1, <2>2 DEF Typed, SourceTypeOK, source
<1>6. CASE StartStack(d)
  <2>1. (running \in [Keys -> Commit])'
    BY <1>0, <1>6 DEF StartStack, Typed
  <2>. QED BY <1>5, <1>6, <2>1 DEF StartStack, Points, Calls
<1>7. AfterRoute(d) \in Points \ {"wait", "build"}
  BY DEF AfterRoute, Points, Calls
<1>8. UNCHANGED host => (running \in [Keys -> Commit])'
  BY DEF Typed, host
<1>9. CASE Healthy(d)
  BY <1>5, <1>8, <1>9 DEF Healthy, host, Points, Calls
<1>10. CASE Summary(d)
  BY <1>5, <1>7, <1>8, <1>10 DEF Summary, host, Points, Calls
<1>11. CASE Route(d)
  BY <1>5, <1>7, <1>8, <1>11 DEF Route, host, Points, Calls
<1>12. CASE Seed(d)
  BY <1>5, <1>8, <1>12 DEF Seed, host, Points, Calls
<1>13. CASE Flag(d)
  BY <1>5, <1>8, <1>13 DEF Flag, host, Points, Calls
<1>14. CASE Collect(d)
  <2>1. run' = [run EXCEPT ![d].at = "end", ![d].result = "success"]
    BY <1>14 DEF Collect
  <2>2. /\ run' \in [Deploys -> Run] /\ At(d)' = "end"
        /\ \A o \in Deploys \ {d} : At(o)' = At(o)
    <3>1. "success" \in Results /\ "end" \in Points
      BY PipelineAssumption DEF Points
    <3>2. run[d] \in Run
      BY DEF Typed
    <3>. DEFINE r == [run[d] EXCEPT !.at = "end", !.result = "success"]
    <3>3. r \in Run /\ r.at = "end"
      BY <3>1, <3>2 DEF Run
    <3>4. run' = [run EXCEPT ![d] = r]
      BY <2>1 DEF Typed
    <3>. HIDE DEF r
    <3>. QED BY <3>3, <3>4 DEF Typed, At
  <2>3. At(d) = "gc" /\ UNCHANGED <<slots, host, tip, clone>>
    BY <1>14 DEF Collect, source
  <2>. QED BY <1>1, <2>2, <2>3, MoveKeeps DEF Points, Calls
<1>. QED BY <1>2, <1>3, <1>4, <1>6, <1>9, <1>10, <1>11, <1>12, <1>13, <1>14

\* A deployment comes to the build, takes its turn, builds.
LEMMA PermitsTurn ==
    ASSUME Typed, SlotsKept, NEW d \in Deploys
    PROVE  Prepare(d) \/ Acquired(d) \/ Build(d) => Typed' /\ SlotsKept'
<1>0. /\ Waits
      /\ queue # <<>> => free = 0
      /\ free + Cardinality(granted) + Cardinality(Building) = Slots
  BY SlotsAsSets DEF Shared
<1>1. /\ IsFiniteSet(granted) /\ IsFiniteSet(Building)
      /\ Cardinality(granted) \in Nat /\ Cardinality(Building) \in Nat
  BY FS_CardinalityType DEF Typed, Lines, InOrder
<1>2. free \in Nat /\ queue \in Seq(Deploys) /\ Once(queue) /\ granted \in SUBSET Deploys
  BY DEF Typed, Lines, InOrder
<1>3. CASE Prepare(d) /\ free > 0
  <2>1. Move(d, None, "build") /\ free' = free - 1 /\ queue' = queue /\ granted' = granted
    BY <1>3 DEF Prepare
  <2>2. /\ run' \in [Deploys -> Run] /\ At(d)' = "build"
        /\ \A o \in Deploys \ {d} : At(o)' = At(o)
    BY <2>1, Moved DEF Points, Calls
  <2>3. d \notin Building /\ Building' = Building \cup {d}
    BY <1>3, <2>2 DEF Building, Prepare
  <2>4. /\ IsFiniteSet(Building')
        /\ Cardinality(Building') = Cardinality(Building) + 1
    BY <1>1, <2>3, FS_AddElement
  <2>5. Waits'
    <3>1. d \notin granted /\ d \notin In(queue)
      BY <1>0, <1>3 DEF Waits, Prepare
    <3>. QED BY <1>0, <2>1, <2>2, <3>1 DEF Waits
  <2>6. queue = <<>>
    BY <1>0, <1>3
  <2>7. Lines'
    BY <1>1, <1>2, <1>3, <2>1, <2>4 DEF Typed, Lines, InOrder
  <2>8. SlotsKept'
    BY <1>0, <1>1, <1>2, <2>1, <2>4, <2>5, <2>6, SlotsAsSets DEF Shared
  <2>. QED BY <1>3, <2>2, <2>7, <2>8 DEF Typed, Prepare, SourceTypeOK, source, host
<1>4. CASE Prepare(d) /\ ~(free > 0)
  <2>1. Move(d, None, "wait") /\ free' = free /\ queue' = Append(queue, d) /\ granted' = granted
    BY <1>4 DEF Prepare
  <2>2. /\ run' \in [Deploys -> Run] /\ At(d)' = "wait"
        /\ \A o \in Deploys \ {d} : At(o)' = At(o)
    BY <2>1, Moved DEF Points
  <2>3. Building' = Building
    BY <1>4, <2>2 DEF Building, Prepare
  <2>4. d \notin granted /\ d \notin In(queue)
    BY <1>0, <1>4 DEF Waits, Prepare
  <2>5. /\ queue' \in Seq(Deploys) /\ Once(queue') /\ In(queue') = In(queue) \cup {d}
    BY <1>2, <2>1, <2>4, LastInLine
  <2>6. Waits'
    BY <1>0, <2>1, <2>2, <2>5 DEF Waits
  <2>7. free = 0
    BY <1>2, <1>4
  <2>8. Lines'
    BY <1>1, <1>2, <2>1, <2>3, <2>4, <2>5 DEF Typed, Lines, InOrder
  <2>9. SlotsKept'
    BY <1>0, <2>1, <2>3, <2>6, <2>7, SlotsAsSets DEF Shared
  <2>. QED BY <1>4, <2>2, <2>8, <2>9 DEF Typed, Prepare, SourceTypeOK, source, host
<1>5. CASE Acquired(d)
  <2>1. Move(d, None, "build") /\ free' = free /\ queue' = queue /\ granted' = granted \ {d}
    BY <1>5 DEF Acquired
  <2>2. /\ run' \in [Deploys -> Run] /\ At(d)' = "build"
        /\ \A o \in Deploys \ {d} : At(o)' = At(o)
    BY <2>1, Moved DEF Points, Calls
  <2>3. d \notin Building /\ Building' = Building \cup {d}
    BY <1>5, <2>2 DEF Building, Acquired
  <2>4. /\ IsFiniteSet(Building')
        /\ Cardinality(Building') = Cardinality(Building) + 1
    BY <1>1, <2>3, FS_AddElement
  <2>5. /\ IsFiniteSet(granted')
        /\ Cardinality(granted') = Cardinality(granted) - 1
    BY <1>1, <1>5, <2>1, FS_RemoveElement DEF Acquired
  <2>6. Waits'
    <3>1. d \notin In(queue)
      BY <1>5 DEF Acquired, Typed, Lines, InOrder
    <3>. QED BY <1>0, <2>1, <2>2, <3>1 DEF Waits
  <2>7. Lines'
    BY <1>1, <1>2, <2>1, <2>4, <2>5 DEF Typed, Lines, InOrder
  <2>8. SlotsKept'
    BY <1>0, <1>1, <1>2, <2>1, <2>4, <2>5, <2>6, SlotsAsSets DEF Shared
  <2>. QED BY <1>5, <2>2, <2>7, <2>8 DEF Typed, Acquired, SourceTypeOK, source, host
<1>6. CASE Build(d)
  <2>1. Move(d, "ok", "start") /\ Leave(d)
    BY <1>6 DEF Build, Leave
  <2>2. /\ run' \in [Deploys -> Run] /\ At(d)' = "start"
        /\ \A o \in Deploys \ {d} : At(o)' = At(o)
    BY <2>1, Moved DEF Points, Calls
  <2>3. Lines' /\ SlotsKept'
    BY <2>1, <2>2, LeaveKeeps DEF Typed
  <2>4. clone[KeyOf[d]].tree \in Commit
    BY PipelineAssumption DEF Typed, SourceTypeOK, Clone
  <2>5. built' \in [Keys -> Commit]
    BY <1>6, <2>4 DEF Build, Typed
  <2>. QED BY <1>6, <2>2, <2>3, <2>5 DEF Typed, Build, SourceTypeOK, source
<1>. QED BY <1>3, <1>4, <1>5, <1>6 DEF Prepare

\* However a run ends.
LEMMA Endings ==
    ASSUME Typed, SlotsKept, NEW d \in Deploys
    PROVE  Error(d) \/ Late(d) \/ GiveUp(d) \/ Cancel(d) \/ Panic(d) \/ End(d)
              => Typed' /\ SlotsKept'
<1>1. {"success", "failed", "canceled"} \subseteq Results
  BY PipelineAssumption
<1>2. ASSUME Break(d) PROVE Typed' /\ SlotsKept'
  <2>1. PICK result \in Results :
           run' = [run EXCEPT ![d].at = "end", ![d].hung = FALSE, ![d].result = result]
    BY <1>1, <1>2 DEF Break
  <2>. QED BY <1>2, <2>1, EndsKeeps DEF Break
<1>3. CASE Error(d) \/ Late(d) \/ GiveUp(d)
  BY <1>2, <1>3 DEF Error, Late, GiveUp
<1>4. CASE Cancel(d)
  BY <1>1, <1>4, EndsKeeps DEF Cancel
<1>5. CASE Panic(d)
  BY <1>1, <1>5, EndsKeeps DEF Panic
<1>6. CASE End(d)
  <2>1. run' = [run EXCEPT ![d].at = "over"]
    BY <1>6 DEF End
  <2>2. /\ run' \in [Deploys -> Run] /\ At(d)' = "over"
        /\ \A o \in Deploys \ {d} : At(o)' = At(o)
    BY <2>1 DEF Typed, Run, At, Points
  <2>3. At(d) = "end" /\ UNCHANGED <<slots, host, tip, clone>>
    BY <1>6 DEF End, source
  <2>. QED BY <2>2, <2>3, MoveKeeps DEF Points, Calls, Typed, SourceTypeOK
<1>. QED BY <1>3, <1>4, <1>5, <1>6

\* What leaves every run where it stands.
LEMMA NobodyMoves ==
    ASSUME Typed, SlotsKept, UNCHANGED <<slots, host>>, SourceTypeOK',
           run' \in [Deploys -> Run], \A o \in Deploys : At(o)' = At(o)
    PROVE  Typed' /\ SlotsKept'
<1>1. Lines' /\ SlotsKept'
  BY Elsewhere DEF Typed
<1>. QED BY <1>1 DEF Typed, host

LEMMA Rest ==
    ASSUME Typed, SlotsKept
    PROVE  /\ \A d \in Deploys : Begin(d) \/ Line(d) \/ Pass(d) \/ Hang(d) => Typed' /\ SlotsKept'
           /\ \A v \in Viewers : ReadOn(v) \/ Come(v) => Typed' /\ SlotsKept'
           /\ \A r \in Repos : Origin(r) => Typed' /\ SlotsKept'
<1>1. SourceTypeOK /\ run \in [Deploys -> Run]
  BY DEF Typed
<1>2. UNCHANGED source => SourceTypeOK'
  BY <1>1 DEF SourceTypeOK, source
<1>3. ASSUME NEW d \in Deploys, Begin(d) PROVE Typed' /\ SlotsKept'
  <2>1. FirstCall(KeyOf[d]) \in Points \ {"wait", "build"}
    BY DEF FirstCall, Points, Calls, Fetching
  <2>2. tip[RepoOf[d]] \in Nat
    BY <1>1, PipelineAssumption DEF SourceTypeOK
  <2>3. /\ run' \in [Deploys -> Run] /\ At(d)' = FirstCall(KeyOf[d])
        /\ \A o \in Deploys \ {d} : At(o)' = At(o)
    <3>. DEFINE r == [run[d] EXCEPT !.at = FirstCall(KeyOf[d]), !.asof = tip[RepoOf[d]]]
    <3>1. r \in Run /\ r.at = FirstCall(KeyOf[d])
      BY <1>1, <2>1, <2>2 DEF Run
    <3>2. run' = [run EXCEPT ![d] = r]
      BY <1>1, <1>3 DEF Begin
    <3>. HIDE DEF r
    <3>. QED BY <1>1, <3>1, <3>2 DEF At
  <2>4. At(d) = "new" /\ UNCHANGED <<slots, host, tip, clone>>
    BY <1>3 DEF Begin, source
  <2>. QED BY <1>1, <2>1, <2>3, <2>4, MoveKeeps DEF SourceTypeOK
<1>4. ASSUME NEW d \in Deploys, Line(d) PROVE Typed' /\ SlotsKept'
  BY <1>1, <1>2, <1>4, NobodyMoves DEF Line, At
<1>5. ASSUME NEW d \in Deploys, Pass(d) \/ Hang(d) PROVE Typed' /\ SlotsKept'
  <2>1. run' \in [Deploys -> Run] /\ \A o \in Deploys : At(o)' = At(o)
    <3>. DEFINE r == IF Pass(d) THEN [run[d] EXCEPT !.due = TRUE] ELSE [run[d] EXCEPT !.hung = TRUE]
    <3>1. r \in Run /\ r.at = run[d].at
      BY <1>1 DEF Run
    <3>2. run' = [run EXCEPT ![d] = r]
      BY <1>1, <1>5 DEF Pass, Hang
    <3>. HIDE DEF r
    <3>. QED BY <1>1, <3>1, <3>2 DEF At
  <2>. QED BY <1>2, <1>5, <2>1, NobodyMoves DEF Pass, Hang
<1>6. ASSUME NEW v \in Viewers, ReadOn(v) \/ Come(v) PROVE Typed' /\ SlotsKept'
  BY <1>1, <1>2, <1>6, NobodyMoves DEF ReadOn, Come, At
<1>7. ASSUME NEW r \in Repos, Origin(r) PROVE Typed' /\ SlotsKept'
  <2>1. SourceTypeOK'
    BY <1>1, <1>7 DEF Origin, Push, SourceTypeOK
  <2>. QED BY <1>1, <1>7, <2>1, NobodyMoves DEF Origin, At
<1>. QED BY <1>3, <1>4, <1>5, <1>6, <1>7

\* The agent's end takes the semaphore and all who wait with it.
LEMMA CrashKeeps ==
    ASSUME Typed, SlotsKept, Crash
    PROVE  Typed' /\ SlotsKept'
<1>1. run' \in [Deploys -> Run] /\ \A d \in Deploys : At(d)' \in {"new", "over"}
  <2>1. ASSUME NEW d \in Deploys
        PROVE  run'[d] \in Run /\ run'[d].at \in {"new", "over"}
    <3>1. run[d] \in Run
      BY DEF Typed
    <3>2. CASE Begun(d)
      <4>. DEFINE r == [run[d] EXCEPT !.at = "over", !.hung = FALSE]
      <4>1. r \in Run /\ r.at = "over"
        BY <3>1 DEF Run, Points
      <4>. QED BY <3>2, <4>1 DEF Crash
    <3>3. CASE ~Begun(d)
      BY <3>1, <3>3 DEF Crash, Begun, At
    <3>. QED BY <3>2, <3>3
  <2>2. run' = [d \in Deploys |-> run'[d]]
    BY DEF Crash
  <2>. QED BY <2>1, <2>2 DEF At
<1>2. \A k \in Keys : TreesOf(k) \subseteq Clone /\ StacksOf(k) \subseteq Commit
  BY TreesTyped DEF TreesOf, StacksOf, Typed, SourceTypeOK
<1>3. clone' \in [Keys -> Clone] /\ running' \in [Keys -> Commit]
  <2>1. /\ clone' \in [Keys -> UNION {TreesOf(k) : k \in Keys}]
        /\ \A k \in Keys : clone'[k] \in TreesOf(k)
    BY DEF Crash
  <2>2. clone' \in [Keys -> Clone]
    BY <1>2, <2>1
  <2>3. /\ running' \in [Keys -> UNION {StacksOf(k) : k \in Keys}]
        /\ \A k \in Keys : running'[k] \in StacksOf(k)
    BY DEF Crash
  <2>4. running' \in [Keys -> Commit]
    BY <1>2, <2>3
  <2>. QED BY <2>2, <2>4
<1>4. Building' = {} /\ IsFiniteSet({}) /\ Cardinality({}) = 0
  BY <1>1, FS_EmptySet DEF Building
<1>5. free' = Slots /\ queue' = <<>> /\ granted' = {} /\ In(queue') = {}
  <2>1. free' = Slots /\ queue' = <<>> /\ granted' = {}
    BY DEF Crash
  <2>2. In(<<>>) = {}
    BY DEF In
  <2>. QED BY <2>1, <2>2
<1>6. Lines'
  <2>1. free' \in Nat /\ queue' \in Seq(Deploys) /\ granted' \in SUBSET Deploys
    BY <1>5, PipelineAssumption
  <2>2. Once(<<>>)
    BY DEF Once
  <2>3. (Once(queue))' /\ (granted \cap In(queue))' = {}
    BY <1>5, <2>2
  <2>. QED BY <1>4, <1>5, <2>1, <2>3 DEF Lines, InOrder
<1>7. SlotsKept'
  <2>1. Waits'
    BY <1>1, <1>5 DEF Waits
  <2>. QED BY <1>4, <1>5, <2>1, PipelineAssumption, SlotsAsSets DEF Shared
<1>. QED BY <1>1, <1>3, <1>6, <1>7 DEF Crash, Typed, SourceTypeOK

LEMMA TypedNext ==
    Typed /\ SlotsKept /\ [Next]_vars => (Typed /\ SlotsKept)'
<1>. SUFFICES ASSUME Typed, SlotsKept, [Next]_vars PROVE Typed' /\ SlotsKept'
  OBVIOUS
<1>1. ASSUME NEW d \in Deploys, Step(d) PROVE Typed' /\ SlotsKept'
  BY <1>1, StepsElsewhere, PermitsTurn, Endings DEF Step
<1>2. ASSUME NEW d \in Deploys, Cancel(d) \/ Panic(d) PROVE Typed' /\ SlotsKept'
  BY <1>2, Endings
<1>3. CASE UNCHANGED vars
  BY <1>3, NobodyMoves DEF vars, Typed, SourceTypeOK, source, At
<1>. QED BY <1>1, <1>2, <1>3, CrashKeeps, Rest DEF Next

\* No permit of the build semaphore is lost or made, in any order in which
\* deployments come to it, wait, are given one, build, fail, hang, are canceled
\* or panic; and nobody waits while one is free.
THEOREM SlotsHold == Spec => []SlotsKept
BY TypedInit, TypedNext, PTL DEF Spec

-----------------------------------------------------------------------------
(* What a run works on.                                                     *)

OneBegun == \A d, o \in Deploys : KeyOf[d] = KeyOf[o] /\ Begun(d) /\ Begun(o) => d = o

\* The origins a clone of k can have.
Origins(k) == {Unset} \cup {RepoOf[o] : o \in {x \in Deploys : KeyOf[x] = k}}

\* The commit d asked for, or one that was on the branch when d began or since.
Since(d, c) ==
    /\ AskOf[d] # Unset => c = AskOf[d]
    /\ AskOf[d] = Unset /\ SameRepo(d) =>
          \E n \in run[d].asof..tip[RepoOf[d]] : c = <<RepoOf[d], n>>

\* From the start of the containers on, these are the ones that run.
Up == {"health", "summary", "route", "on_create", "flag", "gc"}

\* What d knows of the work tree, the images and the containers of its key.
Fetched(d) ==
    /\ Begun(d) => run[d].asof <= tip[RepoOf[d]]
    /\ At(d) = "reset" => Since(d, Wanted(d))
    /\ At(d) \in {"prepare", "wait", "build"} =>
          clone[KeyOf[d]].tree = run[d].sha /\ Since(d, run[d].sha)
    /\ At(d) = "start" => built[KeyOf[d]] = run[d].sha /\ Since(d, run[d].sha)
    /\ At(d) \in Up \/ (At(d) = "end" /\ run[d].result = "success") =>
          running[KeyOf[d]] = run[d].sha /\ Since(d, run[d].sha)

Asked == /\ OneBegun
         /\ \A k \in Keys : clone[k].origin \in Origins(k)
         /\ \A d \in Deploys : Fetched(d)

LEMMA AskedInit == Init => Asked
<1>. SUFFICES ASSUME Init PROVE Asked
  OBVIOUS
<1>1. \A d \in Deploys : At(d) = "new" /\ ~Begun(d)
  BY DEF Init, At, Begun, NewRun
<1>2. \A k \in Keys : clone[k].origin = Unset
  BY DEF Init, SourceInit, NoClone
<1>. QED BY <1>1, <1>2 DEF Asked, OneBegun, Origins, Fetched, Up

\* A step of one run concerns its key, and no other run of that key is under way.
LEMMA OfOneRun ==
    ASSUME Asked, NEW d \in Deploys,
           \A o \in Deploys \ {d} : KeyOf[o] = KeyOf[d] => ~Begun(o),
           \A o \in Deploys \ {d} : run'[o] = run[o],
           tip' = tip,
           \A k \in Keys \ {KeyOf[d]} : /\ clone'[k] = clone[k]
                                        /\ built'[k] = built[k] /\ running'[k] = running[k],
           clone'[KeyOf[d]].origin \in Origins(KeyOf[d]),
           Fetched(d)'
    PROVE  Asked'
<1>1. \A o \in Deploys : KeyOf[o] \in Keys
  BY PipelineAssumption
<1>2. \A o \in Deploys \ {d} : At(o)' = At(o) /\ Begun(o)' = Begun(o)
  BY DEF At, Begun
<1>3. OneBegun'
  BY <1>2 DEF Asked, OneBegun
<1>4. \A k \in Keys : clone'[k].origin \in Origins(k)
  BY DEF Asked
<1>5. ASSUME NEW o \in Deploys \ {d} PROVE Fetched(o)'
  <2>1. CASE Begun(o)
    <3>1. KeyOf[o] # KeyOf[d] /\ KeyOf[o] \in Keys
      BY <1>1, <2>1
    <3>2. /\ clone'[KeyOf[o]] = clone[KeyOf[o]]
          /\ built'[KeyOf[o]] = built[KeyOf[o]] /\ running'[KeyOf[o]] = running[KeyOf[o]]
      BY <3>1
    <3>3. \A c : Since(o, c)' <=> Since(o, c)
      BY DEF Since
    <3>4. run'[o] = run[o] /\ Fetched(o)
      BY DEF Asked
    <3>5. Wanted(o)' = Wanted(o)
      BY <3>2 DEF Wanted
    <3>. QED BY <1>2, <3>2, <3>3, <3>4, <3>5 DEF Fetched
  <2>2. CASE ~Begun(o)
    <3>1. ~Begun(o)' /\ At(o)' \in {"new", "over"}
      BY <1>2, <2>2 DEF Begun
    <3>. QED BY <3>1 DEF Fetched, Up
  <2>. QED BY <2>1, <2>2
<1>. QED BY <1>3, <1>4, <1>5 DEF Asked, Origins

LEMMA Alone ==
    ASSUME Asked, NEW d \in Deploys, Begun(d)
    PROVE  \A o \in Deploys \ {d} : KeyOf[o] = KeyOf[d] => ~Begun(o)
BY DEF Asked, OneBegun

\* A call that returns and the next that begins, nothing of the key changed.
LEMMA MoveAsks ==
    ASSUME Typed, Asked, NEW d \in Deploys, NEW mark, NEW p \in Points,
           Move(d, mark, p), Begun(d), UNCHANGED <<source, host>>,
           \/ At(d) = "prepare" /\ p \in {"wait", "build"}
           \/ At(d) = "wait" /\ p = "build"
           \/ At(d) \in Up /\ p \in Up
    PROVE  Asked'
<1>1. /\ At(d)' = p /\ run'[d].sha = run[d].sha /\ run'[d].asof = run[d].asof
      /\ \A o \in Deploys \ {d} : run'[o] = run[o]
  BY DEF Move, Typed, Run, At
<1>2. Fetched(d)'
  <2>1. \A c : Since(d, c)' <=> Since(d, c)
    BY <1>1 DEF Since, source
  <2>2. Fetched(d)
    BY DEF Asked
  <2>3. Begun(d)' /\ p \notin {"reset", "start", "end"}
    BY <1>1 DEF Begun, Up
  <2>. QED BY <1>1, <2>1, <2>2, <2>3 DEF Fetched, Up, source, host
<1>3. KeyOf[d] \in Keys
  BY PipelineAssumption
<1>. QED BY <1>1, <1>2, <1>3, Alone, OfOneRun DEF source, host, Asked

\* The fetch.
LEMMA FetchAsks ==
    ASSUME Typed, Asked, NEW d \in Deploys, DoClone(d) \/ DoPull(d) \/ DoReset(d)
    PROVE  Asked'
<1>. DEFINE k == KeyOf[d]
<1>1. k \in Keys /\ RepoOf[d] \in Repos /\ RepoOf[d] \in Origins(k)
  BY PipelineAssumption DEF Origins
<1>2. /\ Begun(d) /\ UNCHANGED <<tip, host>>
      /\ \A o \in Deploys \ {d} : run'[o] = run[o]
      /\ run'[d].asof = run[d].asof
  BY DEF DoClone, DoPull, DoReset, Move, Begun, Typed, Run
<1>3. Fetched(d) /\ run[d].asof <= tip[RepoOf[d]] /\ run[d].asof \in Nat /\ tip[RepoOf[d]] \in Nat
  BY <1>1, <1>2 DEF Asked, Fetched, Typed, SourceTypeOK, Run
<1>4. clone \in [Keys -> Clone] /\ clone[k] \in Clone /\ clone[k].origin \in Origins(k)
  BY <1>1 DEF Typed, SourceTypeOK, Asked
<1>5. CASE DoClone(d)
  <2>1. /\ clone'[k].origin = RepoOf[d]
        /\ \A q \in Keys \ {k} : clone'[q] = clone[q]
    BY <1>1, <1>4, <1>5 DEF DoClone, CloneOf
  <2>2. At(d)' = "pull"
    BY <1>5 DEF DoClone, Move, At, Typed, Run
  <2>3. Fetched(d)'
    BY <1>2, <1>3, <2>2 DEF Fetched, Up
  <2>. QED BY <1>1, <1>2, <2>1, <2>3, Alone, OfOneRun DEF host
<1>6. CASE DoPull(d)
  <2>1. /\ clone[k].origin # Unset
        /\ clone'[k].refs = Tip(clone[k].origin)
        /\ clone'[k].origin = clone[k].origin
        /\ \A q \in Keys \ {k} : clone'[q] = clone[q]
    BY <1>1, <1>4, <1>6 DEF DoPull, Pull, CanPull, Clone
  <2>2. At(d)' = "reset"
    BY <1>6 DEF DoPull, Move, At, Typed, Run
  <2>3. SameRepo(d) => clone[k].origin = RepoOf[d]
    BY <1>4, <2>1 DEF Origins, SameRepo
  <2>4. Since(d, Wanted(d))'
    <3>1. AskOf[d] = Unset /\ SameRepo(d) => Wanted(d)' = <<RepoOf[d], tip[RepoOf[d]]>>
      BY <2>1, <2>3 DEF Tip, Wanted
    <3>2. tip[RepoOf[d]] \in run'[d].asof..tip'[RepoOf[d]]
      BY <1>2, <1>3
    <3>3. AskOf[d] # Unset => Wanted(d)' = AskOf[d]
      BY DEF Wanted
    <3>. QED BY <1>2, <3>1, <3>2, <3>3 DEF Since, SameRepo
  <2>5. Fetched(d)'
    BY <1>2, <1>3, <2>2, <2>4 DEF Fetched, Up
  <2>. QED BY <1>1, <1>2, <1>4, <2>1, <2>5, Alone, OfOneRun DEF host
<1>7. CASE DoReset(d)
  <2>. DEFINE c == Wanted(d)
  <2>1. /\ clone'[k].tree = c
        /\ clone'[k].origin = clone[k].origin
        /\ \A q \in Keys \ {k} : clone'[q] = clone[q]
    BY <1>1, <1>4, <1>7 DEF DoReset, Reset, Clone
  <2>2. At(d)' = "prepare" /\ run'[d].sha = c
    <3>. DEFINE r == [run[d] EXCEPT !.at = "prepare", !.sha = c]
    <3>1. run[d] \in Run
      BY DEF Typed
    <3>2. r.at = "prepare" /\ r.sha = c
      BY <3>1 DEF Run
    <3>3. run' = [run EXCEPT ![d] = r]
      BY <1>7 DEF DoReset, Typed
    <3>. HIDE DEF r
    <3>. QED BY <3>2, <3>3 DEF At, Typed
  <2>3. Since(d, c)
    BY <1>3, <1>7 DEF Fetched, DoReset
  <2>. HIDE DEF c
  <2>4. (Since(d, run[d].sha))'
    BY <1>2, <2>2, <2>3 DEF Since, SameRepo
  <2>5. Fetched(d)'
    BY <1>2, <1>3, <2>1, <2>2, <2>4 DEF Fetched, Up
  <2>. QED BY <1>1, <1>2, <1>4, <2>1, <2>5, Alone, OfOneRun DEF host
<1>. QED BY <1>5, <1>6, <1>7

\* The images are of the work tree, the containers of the images.
LEMMA MadeAsks ==
    ASSUME Typed, Asked, NEW d \in Deploys, Build(d) \/ StartStack(d)
    PROVE  Asked'
<1>. DEFINE k == KeyOf[d]
<1>1. k \in Keys /\ clone[k].origin \in Origins(k)
  BY PipelineAssumption DEF Asked
<1>2. /\ Begun(d) /\ tip' = tip /\ clone' = clone
      /\ \A o \in Deploys \ {d} : run'[o] = run[o]
      /\ run'[d].asof = run[d].asof /\ run'[d].sha = run[d].sha
  BY DEF Build, StartStack, Move, Begun, Typed, Run, source
<1>3. Fetched(d) /\ \A c : Since(d, c)' <=> Since(d, c)
  BY <1>2 DEF Asked, Since
<1>4. CASE Build(d)
  <2>1. At(d) = "build" /\ At(d)' = "start"
    BY <1>4 DEF Build, Move, At, Typed, Run
  <2>2. /\ built'[k] = clone[k].tree /\ running' = running
        /\ \A q \in Keys \ {k} : built'[q] = built[q]
    BY <1>1, <1>4 DEF Build, Typed
  <2>3. Fetched(d)'
    BY <1>2, <1>3, <2>1, <2>2 DEF Fetched, Up, Begun
  <2>. QED BY <1>1, <1>2, <2>2, <2>3, Alone, OfOneRun
<1>5. CASE StartStack(d)
  <2>1. At(d) = "start" /\ At(d)' = "health"
    BY <1>5 DEF StartStack, Move, At, Typed, Run
  <2>2. /\ running'[k] = built[k] /\ built' = built
        /\ \A q \in Keys \ {k} : running'[q] = running[q]
    BY <1>1, <1>5 DEF StartStack, Typed
  <2>3. Fetched(d)'
    BY <1>2, <1>3, <2>1, <2>2 DEF Fetched, Up, Begun
  <2>. QED BY <1>1, <1>2, <2>2, <2>3, Alone, OfOneRun
<1>. QED BY <1>4, <1>5

\* A call that is cut never leaves a clone of something else.
LEMMA OriginsLeft ==
    ASSUME Typed, NEW d \in Deploys, NEW t \in TreesLeft(d)
    PROVE  t.origin \in {Unset, RepoOf[d], clone[KeyOf[d]].origin}
<1>1. clone[KeyOf[d]] \in Clone
  BY PipelineAssumption DEF Typed, SourceTypeOK
<1>2. CASE At(d) = "clone"
  <2>. DEFINE one == [NoClone EXCEPT !.git = TRUE]
              two == [NoClone EXCEPT !.git = TRUE, !.origin = RepoOf[d]]
  <2>1. NoClone.origin = Unset
    BY DEF NoClone
  <2>2. one.origin = Unset
    BY DEF NoClone
  <2>3. two.origin = RepoOf[d]
    BY DEF NoClone
  <2>4. t = NoClone \/ t = one \/ t = two
    BY <1>2 DEF TreesLeft, CloneLeft
  <2>. HIDE DEF one, two
  <2>. QED BY <2>1, <2>2, <2>3, <2>4
<1>3. CASE At(d) = "reset"
  <2>1. t \in ResetLeft(KeyOf[d], Wanted(d))
    BY <1>3 DEF TreesLeft
  <2>2. t.origin = clone[KeyOf[d]].origin
    BY <1>1, <2>1 DEF ResetLeft, Clone
  <2>. QED BY <2>2
<1>4. CASE At(d) \notin {"clone", "reset"}
  BY <1>4 DEF TreesLeft
<1>. QED BY <1>2, <1>3, <1>4

\* A run that ends, and what the call it was in leaves.
LEMMA EndAsks ==
    ASSUME Typed, Asked, NEW d \in Deploys, Begun(d), Killed(d),
           NEW p \in {"end", "over"}, NEW result,
           run' = [run EXCEPT ![d].at = p, ![d].hung = FALSE, ![d].result = result],
           result = "success" => At(d) = "gc"
    PROVE  Asked'
<1>. DEFINE k == KeyOf[d]
<1>1. k \in Keys /\ RepoOf[d] \in Origins(k) /\ clone[k].origin \in Origins(k)
  BY PipelineAssumption DEF Asked, Origins
<1>2. /\ At(d)' = p /\ run'[d].result = result
      /\ run'[d].sha = run[d].sha /\ run'[d].asof = run[d].asof
      /\ \A o \in Deploys \ {d} : run'[o] = run[o]
  <2>. DEFINE r == [run[d] EXCEPT !.at = p, !.hung = FALSE, !.result = result]
  <2>1. run[d] \in Run
    BY DEF Typed
  <2>2. r.at = p /\ r.result = result /\ r.sha = run[d].sha /\ r.asof = run[d].asof
    BY <2>1 DEF Run
  <2>3. run' = [run EXCEPT ![d] = r]
    BY DEF Typed
  <2>. HIDE DEF r
  <2>. QED BY <2>2, <2>3 DEF At, Typed
<1>3. PICK t \in TreesLeft(d) : clone' = [clone EXCEPT ![k] = t]
  BY DEF Killed
<1>4. t.origin \in Origins(k)
  BY <1>1, <1>3, OriginsLeft DEF Origins
<1>5. /\ clone'[k].origin \in Origins(k) /\ built' = built /\ tip' = tip
      /\ \A q \in Keys \ {k} : clone'[q] = clone[q] /\ running'[q] = running[q]
  BY <1>1, <1>3, <1>4 DEF Killed, Typed, SourceTypeOK
<1>6. Fetched(d)'
  <2>1. Fetched(d) /\ \A c : Since(d, c)' <=> Since(d, c)
    BY <1>2, <1>5 DEF Asked, Since
  <2>2. CASE p = "end" /\ result = "success"
    <3>1. At(d) = "gc" /\ running' = running
      BY <1>1, <2>2 DEF Killed, StacksLeft, Typed
    <3>. QED BY <1>2, <1>5, <2>1, <2>2, <3>1 DEF Fetched, Up, Begun
  <2>3. CASE ~(p = "end" /\ result = "success")
    BY <1>2, <1>5, <2>1, <2>3 DEF Fetched, Up, Begun
  <2>. QED BY <2>2, <2>3
<1>. QED BY <1>2, <1>5, <1>6, Alone, OfOneRun

LEMMA StepAsks ==
    ASSUME Typed, Asked, NEW d \in Deploys, Step(d) \/ Cancel(d) \/ Panic(d)
    PROVE  Asked'
<1>1. CASE DoClone(d) \/ DoPull(d) \/ DoReset(d)
  BY <1>1, FetchAsks
<1>2. CASE Prepare(d) \/ Acquired(d)
  <2>1. Begun(d) /\ UNCHANGED <<source, host>>
    BY <1>2 DEF Prepare, Acquired, Begun
  <2>. QED BY <1>2, <2>1, MoveAsks DEF Prepare, Acquired, Points, Calls
<1>3. CASE Build(d) \/ StartStack(d)
  BY <1>3, MadeAsks
<1>4. CASE Healthy(d) \/ Summary(d) \/ Route(d) \/ Seed(d) \/ Flag(d)
  <2>1. Begun(d) /\ UNCHANGED <<source, host>> /\ At(d) \in Up
    BY <1>4 DEF Healthy, Summary, Route, Seed, Flag, Begun, Up
  <2>2. AfterRoute(d) \in Up
    BY DEF AfterRoute, Up
  <2>3. PICK p \in Up : \E mark : Move(d, mark, p)
    <3>1. CASE Healthy(d) \/ Seed(d) \/ Flag(d)
      <4>1. Move(d, "ok", "summary") \/ Move(d, "ok", "flag") \/ Move(d, None, "gc")
        BY <3>1 DEF Healthy, Seed, Flag
      <4>. QED BY <4>1 DEF Up
    <3>2. CASE Summary(d)
      <4>1. (IF d \in Routed THEN "route" ELSE AfterRoute(d)) \in Up
        BY <2>2 DEF Up
      <4>2. Move(d, None, IF d \in Routed THEN "route" ELSE AfterRoute(d))
        BY <3>2 DEF Summary
      <4>. QED BY <4>1, <4>2
    <3>3. CASE Route(d)
      <4>1. \E mark : Move(d, mark, AfterRoute(d))
        BY <3>3 DEF Route
      <4>. QED BY <2>2, <4>1
    <3>. QED BY <1>4, <3>1, <3>2, <3>3
  <2>4. p \in Points
    BY DEF Up, Points, Calls
  <2>. QED BY <2>1, <2>3, <2>4, MoveAsks
<1>5. CASE Collect(d)
  <2>1. /\ Begun(d) /\ At(d) = "gc" /\ UNCHANGED <<source, host>>
        /\ run' = [run EXCEPT ![d].at = "end", ![d].result = "success"]
    BY <1>5 DEF Collect, Begun
  <2>2. /\ At(d)' = "end" /\ run'[d].sha = run[d].sha /\ run'[d].asof = run[d].asof
        /\ \A o \in Deploys \ {d} : run'[o] = run[o]
    <3>. DEFINE r == [run[d] EXCEPT !.at = "end", !.result = "success"]
    <3>1. run[d] \in Run
      BY DEF Typed
    <3>2. r.at = "end" /\ r.sha = run[d].sha /\ r.asof = run[d].asof
      BY <3>1 DEF Run
    <3>3. run' = [run EXCEPT ![d] = r]
      BY <2>1 DEF Typed
    <3>. HIDE DEF r
    <3>. QED BY <3>2, <3>3 DEF At, Typed
  <2>3. Fetched(d)'
    <3>1. Fetched(d) /\ \A c : Since(d, c)' <=> Since(d, c)
      BY <2>1, <2>2 DEF Asked, Since, source
    <3>. QED BY <2>1, <2>2, <3>1 DEF Fetched, Up, Begun, source, host
  <2>. QED BY <2>1, <2>2, <2>3, Alone, OfOneRun, PipelineAssumption DEF Asked, source, host
<1>6. CASE End(d)
  <2>1. /\ Begun(d) /\ UNCHANGED <<source, host>>
        /\ run' = [run EXCEPT ![d].at = "over"]
    BY <1>6 DEF End, Begun
  <2>2. At(d)' = "over" /\ \A o \in Deploys \ {d} : run'[o] = run[o]
    BY <2>1 DEF Typed, Run, At
  <2>3. Fetched(d)'
    BY <2>2 DEF Fetched, Up, Begun
  <2>. QED BY <2>1, <2>2, <2>3, Alone, OfOneRun, PipelineAssumption DEF Asked, source, host
<1>7. CASE Error(d) \/ Late(d) \/ GiveUp(d)
  <2>1. Begun(d) /\ Break(d)
    BY <1>7 DEF Error, Late, GiveUp, Begun, Calls, Timed, Fetching
  <2>2. PICK result : /\ result = "success" => At(d) = "gc"
                      /\ run' = [run EXCEPT ![d].at = "end", ![d].hung = FALSE, ![d].result = result]
    BY <2>1 DEF Break
  <2>. QED BY <2>1, <2>2, EndAsks DEF Break
<1>8. CASE Cancel(d)
  <2>1. Begun(d) /\ Killed(d)
    BY <1>8 DEF Cancel, Begun, Calls, Fetching
  <2>2. \E p \in {"end", "over"}, result \in {"canceled"} :
           run' = [run EXCEPT ![d].at = p, ![d].hung = FALSE, ![d].result = result]
    BY <1>8 DEF Cancel
  <2>. QED BY <2>1, <2>2, EndAsks
<1>9. CASE Panic(d)
  BY <1>9, EndAsks DEF Panic, Begun, Calls, Fetching
<1>. QED BY <1>1, <1>2, <1>3, <1>4, <1>5, <1>6, <1>7, <1>8, <1>9 DEF Step

\* A deployment begins when no other of its key is under way.
LEMMA BeginAsks ==
    ASSUME Typed, Asked, NEW d \in Deploys, Begin(d)
    PROVE  Asked'
<1>1. tip[RepoOf[d]] \in Nat /\ KeyOf[d] \in Keys
  BY PipelineAssumption DEF Typed, SourceTypeOK
<1>2. /\ At(d)' = FirstCall(KeyOf[d]) /\ run'[d].asof = tip[RepoOf[d]]
      /\ \A o \in Deploys \ {d} : run'[o] = run[o]
  <2>. DEFINE r == [run[d] EXCEPT !.at = FirstCall(KeyOf[d]), !.asof = tip[RepoOf[d]]]
  <2>1. run[d] \in Run
    BY DEF Typed
  <2>2. r.at = FirstCall(KeyOf[d]) /\ r.asof = tip[RepoOf[d]]
    BY <2>1 DEF Run
  <2>3. run' = [run EXCEPT ![d] = r]
    BY DEF Begin, Typed
  <2>. HIDE DEF r
  <2>. QED BY <2>2, <2>3 DEF At, Typed
<1>3. Fetched(d)'
  BY <1>1, <1>2 DEF Fetched, FirstCall, Up, Begin, source
<1>. QED BY <1>1, <1>2, <1>3, OfOneRun DEF Begin, Asked, source, host

\* What changes of a run, if anything, is only whether it hangs or is due.
LEMMA RestAsks ==
    ASSUME Typed, Asked, UNCHANGED host, clone' = clone,
           tip' \in [Repos -> Nat], \A r \in Repos : tip[r] <= tip'[r],
           \A d \in Deploys : /\ At(d)' = At(d) /\ run'[d].sha = run[d].sha
                              /\ run'[d].asof = run[d].asof /\ run'[d].result = run[d].result
    PROVE  Asked'
<1>1. ASSUME NEW d \in Deploys PROVE Fetched(d)'
  <2>1. /\ RepoOf[d] \in Repos /\ run[d].asof \in Nat /\ Fetched(d)
        /\ tip[RepoOf[d]] \in Nat /\ tip'[RepoOf[d]] \in Nat
        /\ tip[RepoOf[d]] <= tip'[RepoOf[d]]
    BY PipelineAssumption DEF Typed, SourceTypeOK, Asked, Run
  <2>2. ASSUME NEW c, Since(d, c) PROVE Since(d, c)'
    BY <2>1, <2>2 DEF Since, SameRepo
  <2>3. Begun(d)' <=> Begun(d)
    BY DEF Begun
  <2>4. Begun(d) => run[d].asof <= tip'[RepoOf[d]]
    BY <2>1 DEF Fetched
  <2>5. Wanted(d)' = Wanted(d)
    BY DEF Wanted
  <2>. QED BY <2>1, <2>2, <2>3, <2>4, <2>5 DEF Fetched, host
<1>. QED BY <1>1 DEF Asked, OneBegun, Begun, Origins

LEMMA CrashAsks ==
    ASSUME Typed, Asked, Crash
    PROVE  Asked'
<1>1. \A d \in Deploys : At(d)' \in {"new", "over"} /\ ~Begun(d)'
  <2>1. ASSUME NEW d \in Deploys PROVE run'[d].at \in {"new", "over"}
    <3>1. run[d] \in Run
      BY DEF Typed
    <3>2. CASE Begun(d)
      BY <3>1, <3>2 DEF Crash, Run
    <3>3. CASE ~Begun(d)
      BY <3>1, <3>3 DEF Crash, Begun, At
    <3>. QED BY <3>2, <3>3
  <2>. QED BY <2>1 DEF At, Begun
<1>2. ASSUME NEW k \in Keys PROVE clone'[k].origin \in Origins(k)
  <2>1. clone'[k] \in TreesOf(k) /\ clone[k].origin \in Origins(k) /\ clone[k] \in Clone
    BY DEF Crash, Asked, Typed, SourceTypeOK
  <2>2. ASSUME NEW d \in Deploys, KeyOf[d] = k, NEW t \in TreesLeft(d)
        PROVE  t.origin \in Origins(k)
    <3>1. t.origin \in {Unset, RepoOf[d], clone[k].origin}
      BY <2>2, OriginsLeft
    <3>2. RepoOf[d] \in Origins(k)
      BY <2>2 DEF Origins
    <3>. QED BY <2>1, <3>1, <3>2 DEF Origins
  <2>. QED BY <2>1, <2>2 DEF TreesOf
<1>. QED BY <1>1, <1>2 DEF Asked, OneBegun, Fetched, Up, Origins

LEMMA AskedHolds ==
    ASSUME Typed, Asked, [Next]_vars
    PROVE  Asked'
<1>0. tip \in [Repos -> Nat] /\ \A r \in Repos : tip[r] <= tip[r]
  BY DEF Typed, SourceTypeOK
<1>1. ASSUME NEW d \in Deploys, Line(d) PROVE Asked'
  BY <1>0, <1>1, RestAsks DEF Line, At, source
<1>2. ASSUME NEW d \in Deploys, Pass(d) \/ Hang(d) PROVE Asked'
  <2>1. \A o \in Deploys : /\ At(o)' = At(o) /\ run'[o].sha = run[o].sha
                           /\ run'[o].asof = run[o].asof /\ run'[o].result = run[o].result
    BY <1>2 DEF Pass, Hang, Typed, Run, At
  <2>. QED BY <1>0, <1>2, <2>1, RestAsks DEF Pass, Hang, source
<1>3. ASSUME NEW v \in Viewers, ReadOn(v) \/ Come(v) PROVE Asked'
  BY <1>0, <1>3, RestAsks DEF ReadOn, Come, At, source
<1>4. ASSUME NEW r \in Repos, Origin(r) PROVE Asked'
  <2>1. tip' \in [Repos -> Nat] /\ \A q \in Repos : tip[q] <= tip'[q]
    BY <1>0, <1>4 DEF Origin, Push
  <2>. QED BY <1>4, <2>1, RestAsks DEF Origin, Push, At
<1>5. CASE UNCHANGED vars
  BY <1>0, <1>5, RestAsks DEF vars, At, source
<1>. QED BY <1>1, <1>2, <1>3, <1>4, <1>5, StepAsks, BeginAsks, CrashAsks DEF Next

\* A deployment that succeeds runs what it fetched, and that is the commit it
\* asked for or was on the branch of its repository when it began or since,
\* whatever earlier deployments of the key, their ends and crashes left of the
\* work tree, images and containers.
THEOREM DeploymentsRunWhatWasAsked == Spec => []RunsWhatWasAsked
<1>1. Init => Typed /\ SlotsKept /\ Asked
  BY TypedInit, AskedInit
<1>2. Typed /\ SlotsKept /\ Asked /\ [Next]_vars => (Typed /\ SlotsKept /\ Asked)'
  BY TypedNext, AskedHolds
<1>3. Asked => RunsWhatWasAsked
  BY DEF Asked, Fetched, RunsWhatWasAsked, Since
<1>. QED BY <1>1, <1>2, <1>3, PTL DEF Spec

-----------------------------------------------------------------------------
(* The story a run tells.                                                   *)

\* The stage s is under way in a story, or none is.
Now(story, s) ==
    IF s = None THEN AllEnded(story)
    ELSE \E i \in DOMAIN story : /\ story[i] = <<"started", s>>
                                 /\ \A m \in DOMAIN story : i < m => ~StageEvent(story[m])

NoFailure(story) == \A i \in DOMAIN story : story[i][1] # "failed"

Sound(story) == EndsWhatBegan(story) /\ OneByOne(story)

Whole(story, s) == \A word \in {"started", "ok"} : \E i \in DOMAIN story : story[i] = <<word, s>>

Main == {"fetch", "build", "start", "health"}

\* The stages that are behind a run at p.
Passed(p) == CASE p \in {"prepare", "wait", "build"} -> {"fetch"}
               [] p = "start"                        -> {"fetch", "build"}
               [] p = "health"                       -> {"fetch", "build", "start"}
               [] p \in Up \ {"health"}              -> Main
               [] OTHER                              -> {}

\* What the story says of where its run stands.
Told(d) ==
    LET story == told[d] IN
    /\ story \in Seq(Events) /\ Sound(story)
    /\ At(d) = "new" => story = <<>>
    /\ At(d) \in Calls \cup {"wait"} =>
          /\ Now(story, StageOf(At(d))) /\ NoFailure(story)
          /\ \A s \in Passed(At(d)) : Whole(story, s)
    /\ At(d) = "end" => /\ run[d].result \in Results
                        /\ run[d].result # "canceled" => AllEnded(story)
    /\ run[d].result = "success" =>
          /\ At(d) \in {"end", "over"} /\ NoFailure(story)
          /\ \A s \in Main : Whole(story, s)
    /\ \A i \in DOMAIN story : story[i][1] = "failed" =>
          /\ Len(story) <= i + 2
          /\ At(d) = "end" => Len(story) <= i + 1
    /\ \A i \in DOMAIN story : story[i][1] = "finished" => i = Len(story) /\ At(d) = "over"

\* What a run adds to its story at once: nothing, one event,
LEMMA OneAdded ==
    ASSUME NEW S, NEW story \in Seq(S), NEW a \in S
    PROVE  /\ story \o (<<>> \o <<>>) = story
           /\ story \o <<a>> = Append(story, a)
           /\ story \o (<<a>> \o <<>>) = Append(story, a)
           /\ story \o (<<>> \o <<a>>) = Append(story, a)
           /\ story \o Append(<<>>, a) = Append(story, a)
<1>1. <<>> \in Seq(S) /\ <<a>> \in Seq(S)
  OBVIOUS
<1>2. <<>> \o <<>> = <<>> /\ <<a>> \o <<>> = <<a>> /\ <<>> \o <<a>> = <<a>>
  BY <1>1, ConcatEmptySeq
<1>3. Append(<<>>, a) = <<>> \o <<a>>
  BY <1>1, AppendIsConcat
<1>4. story \o <<>> = story /\ story \o <<a>> = Append(story, a)
  OBVIOUS
<1>. QED BY <1>2, <1>3, <1>4

\* or two.
LEMMA TwoAdded ==
    ASSUME NEW S, NEW story \in Seq(S), NEW a \in S, NEW b \in S
    PROVE  /\ story \o (<<a>> \o <<b>>) = Append(Append(story, a), b)
           /\ story \o Append(<<a>>, b) = Append(Append(story, a), b)
<1>1. <<a>> \in Seq(S) /\ <<b>> \in Seq(S) /\ story \o <<a>> \in Seq(S)
  OBVIOUS
<1>2. story \o (<<a>> \o <<b>>) = (story \o <<a>>) \o <<b>>
  BY <1>1, ConcatAssociative
<1>3. /\ (story \o <<a>>) \o <<b>> = Append(story \o <<a>>, b)
      /\ story \o <<a>> = Append(story, a)
  BY <1>1
<1>4. Append(<<a>>, b) = <<a>> \o <<b>>
  BY <1>1, AppendIsConcat
<1>. QED BY <1>2, <1>3, <1>4

\* A story with one event more.
LEMMA OneMore ==
    ASSUME NEW story \in Seq(Events), NEW e \in Events
    PROVE  LET longer == Append(story, e) n == Len(story) + 1 IN
           /\ longer \in Seq(Events) /\ n \in Nat \ {0}
           /\ DOMAIN longer = 1..n /\ DOMAIN story = 1..(n - 1) /\ Len(longer) = n
           /\ longer[n] = e /\ \A i \in 1..(n - 1) : longer[i] = story[i]
OBVIOUS

\* The parts of Sound, for the first n events.
EndsAt(story, j) ==
    \E i \in 1..(j - 1) : /\ story[i] = <<"started", story[j][2]>>
                          /\ \A m \in (i + 1)..(j - 1) : ~StageEvent(story[m])

EndsUpTo(story, n) == \A j \in 1..n : story[j] \in Marks => EndsAt(story, j)

LEMMA EachEnds ==
    ASSUME NEW story
    PROVE  EndsWhatBegan(story) <=> \A j \in DOMAIN story : story[j] \in Marks => EndsAt(story, j)
BY DEF EndsWhatBegan, EndsAt

OneUpTo(story, n) ==
    \A i, j \in 1..n : i < j /\ StageEvent(story[j]) =>
        /\ story[i][1] # "failed"
        /\ story[i][1] = "started" /\ story[j][1] = "started" =>
              \E m \in (i + 1)..(j - 1) : story[m] \in Marks

\* What holds of a story holds of its events in a longer one.
LEMMA SoFar ==
    ASSUME NEW story, NEW longer, NEW n \in Nat \ {0}, DOMAIN story = 1..(n - 1),
           \A i \in 1..(n - 1) : longer[i] = story[i], Sound(story)
    PROVE  EndsUpTo(longer, n - 1) /\ OneUpTo(longer, n - 1)
<1>1. ASSUME NEW j \in 1..(n - 1), longer[j] \in Marks
      PROVE  EndsAt(longer, j)
  <2>1. story[j] \in Marks /\ longer[j] = story[j]
    BY <1>1
  <2>2. PICK i \in 1..(j - 1) : /\ story[i] = <<"started", story[j][2]>>
                               /\ \A m \in (i + 1)..(j - 1) : ~StageEvent(story[m])
    BY <2>1 DEF Sound, EndsWhatBegan
  <2>3. longer[i] = <<"started", longer[j][2]>>
    BY <2>1, <2>2
  <2>4. \A m \in (i + 1)..(j - 1) : ~StageEvent(longer[m])
    BY <2>2
  <2>. QED BY <2>3, <2>4 DEF EndsAt
<1>2. ASSUME NEW i \in 1..(n - 1), NEW j \in 1..(n - 1), i < j, StageEvent(longer[j])
      PROVE  /\ longer[i][1] # "failed"
             /\ longer[i][1] = "started" /\ longer[j][1] = "started" =>
                   \E m \in (i + 1)..(j - 1) : longer[m] \in Marks
  <2>1. longer[i] = story[i] /\ longer[j] = story[j]
    OBVIOUS
  <2>2. /\ story[i][1] # "failed"
        /\ story[i][1] = "started" /\ story[j][1] = "started" =>
              \E m \in (i + 1)..(j - 1) : story[m] \in Marks
    BY <1>2, <2>1 DEF Sound, OneByOne
  <2>. QED BY <2>1, <2>2
<1>. QED BY <1>1, <1>2 DEF EndsUpTo, OneUpTo

\* A line or a result leaves the stages as they are.
LEMMA QuietEvent ==
    ASSUME NEW story \in Seq(Events), NEW e \in Events, e[1] \in {"line", "finished"}
    PROVE  /\ ~StageEvent(e)
           /\ Sound(story) => Sound(Append(story, e))
           /\ \A s : Now(story, s) => Now(Append(story, e), s)
           /\ NoFailure(story) => NoFailure(Append(story, e))
           /\ \A s : Whole(story, s) => Whole(Append(story, e), s)
<1>. DEFINE longer == Append(story, e)  n == Len(story) + 1
<1>1. /\ n \in Nat \ {0} /\ DOMAIN longer = 1..n /\ DOMAIN story = 1..(n - 1)
      /\ longer[n] = e /\ \A i \in 1..(n - 1) : longer[i] = story[i]
  BY OneMore
<1>2. e \notin Marks /\ ~StageEvent(e) /\ e[1] # "started" /\ e[1] # "failed"
  BY DEF Marks, StageEvent
<1>. HIDE DEF longer, n
<1>3. ASSUME Sound(story) PROVE Sound(longer)
  <2>0. EndsUpTo(longer, n - 1) /\ OneUpTo(longer, n - 1)
    BY <1>1, <1>3, SoFar
  <2>1. EndsWhatBegan(longer)
    BY <1>1, <1>2, <2>0, EachEnds DEF EndsUpTo
  <2>2. OneByOne(longer)
    BY <1>1, <1>2, <2>0 DEF OneUpTo, OneByOne
  <2>. QED BY <2>1, <2>2 DEF Sound
<1>4. ASSUME NEW s, Now(story, s) PROVE Now(longer, s)
  <2>1. CASE s = None
    BY <1>1, <1>2, <1>4, <2>1 DEF Now, AllEnded
  <2>2. CASE s # None
    BY <1>1, <1>2, <1>4, <2>2 DEF Now
  <2>. QED BY <2>1, <2>2
<1>5. NoFailure(story) => NoFailure(longer)
  BY <1>1, <1>2 DEF NoFailure
<1>6. \A s : Whole(story, s) => Whole(longer, s)
  BY <1>1 DEF Whole
<1>. QED BY <1>2, <1>3, <1>4, <1>5, <1>6 DEF longer

\* A stage begins.
LEMMA StartEvent ==
    ASSUME NEW story \in Seq(Events), NEW s \in Stages,
           Sound(story), AllEnded(story), NoFailure(story)
    PROVE  LET longer == Append(story, <<"started", s>>) IN
           /\ longer \in Seq(Events)
           /\ Sound(longer) /\ Now(longer, s) /\ NoFailure(longer)
           /\ \A x : Whole(story, x) => Whole(longer, x)
<1>. DEFINE e == <<"started", s>>  longer == Append(story, e)  n == Len(story) + 1
<1>0. e \in Events
  BY DEF Events
<1>1. /\ n \in Nat \ {0} /\ DOMAIN longer = 1..n /\ DOMAIN story = 1..(n - 1)
      /\ longer[n] = e /\ \A i \in 1..(n - 1) : longer[i] = story[i]
      /\ longer \in Seq(Events)
  BY <1>0, OneMore
<1>2. e \notin Marks /\ e[1] = "started"
  BY DEF Marks
<1>. HIDE DEF longer, n
<1>. HIDE DEF e
<1>sofar. EndsUpTo(longer, n - 1) /\ OneUpTo(longer, n - 1)
  BY <1>1, SoFar
<1>3. EndsWhatBegan(longer)
  BY <1>1, <1>2, <1>sofar, EachEnds DEF EndsUpTo
<1>4. OneByOne(longer)
  <2>. SUFFICES ASSUME NEW i \in 1..n, NEW j \in 1..n, i < j, StageEvent(longer[j])
                PROVE  /\ longer[i][1] # "failed"
                       /\ longer[i][1] = "started" /\ longer[j][1] = "started" =>
                            \E m \in (i + 1)..(j - 1) : longer[m] \in Marks
    BY <1>1 DEF OneByOne
  <2>1. CASE j < n
    BY <1>1, <2>1, <1>sofar DEF OneUpTo
  <2>2. CASE j = n
    <3>1. i \in 1..(n - 1) /\ longer[i] = story[i]
      BY <1>1, <2>2
    <3>2. longer[i][1] # "failed"
      BY <1>1, <3>1 DEF NoFailure
    <3>3. ASSUME longer[i][1] = "started" PROVE \E m \in (i + 1)..(j - 1) : longer[m] \in Marks
      BY <1>1, <2>2, <3>1, <3>3 DEF AllEnded
    <3>. QED BY <3>2, <3>3
  <2>. QED BY <1>1, <2>1, <2>2
<1>5. Now(longer, s)
  BY <1>1, HubAssumption DEF Now, e
<1>6. NoFailure(longer)
  BY <1>1, <1>2 DEF NoFailure
<1>7. \A x : Whole(story, x) => Whole(longer, x)
  BY <1>1 DEF Whole
<1>. QED BY <1>1, <1>3, <1>4, <1>5, <1>6, <1>7 DEF Sound, longer, e

\* The stage under way ends.
LEMMA EndEvent ==
    ASSUME NEW story \in Seq(Events), NEW s \in Stages, NEW mark \in {"ok", "failed", "skipped"},
           Sound(story), Now(story, s), NoFailure(story)
    PROVE  LET longer == Append(story, <<mark, s>>) IN
           /\ longer \in Seq(Events)
           /\ Sound(longer) /\ AllEnded(longer)
           /\ mark # "failed" => NoFailure(longer)
           /\ \A x : Whole(story, x) => Whole(longer, x)
           /\ mark = "ok" => Whole(longer, s)
<1>. DEFINE e == <<mark, s>>  longer == Append(story, e)  n == Len(story) + 1
<1>0. e \in Events /\ e \in Marks
  BY DEF Events, Marks
<1>1. /\ n \in Nat \ {0} /\ DOMAIN longer = 1..n /\ DOMAIN story = 1..(n - 1)
      /\ longer[n] = e /\ \A i \in 1..(n - 1) : longer[i] = story[i]
      /\ longer \in Seq(Events)
  BY <1>0, OneMore
<1>2. e[1] = mark /\ e[2] = s /\ e[1] # "started"
  OBVIOUS
<1>3. PICK b \in 1..(n - 1) : /\ story[b] = <<"started", s>>
                              /\ \A m \in 1..(n - 1) : b < m => ~StageEvent(story[m])
  BY <1>1, HubAssumption DEF Now
<1>. HIDE DEF longer, n, e
<1>sofar. EndsUpTo(longer, n - 1) /\ OneUpTo(longer, n - 1)
  BY <1>1, SoFar
<1>4. EndsWhatBegan(longer)
  <2>. SUFFICES ASSUME NEW j \in 1..n, longer[j] \in Marks
                PROVE  EndsAt(longer, j)
    BY <1>1, EachEnds
  <2>1. CASE j < n
    BY <1>1, <2>1, <1>sofar DEF EndsUpTo
  <2>2. CASE j = n
    <3>1. longer[b] = <<"started", longer[j][2]>> /\ b \in 1..(j - 1)
      BY <1>1, <1>2, <1>3, <2>2
    <3>2. \A m \in (b + 1)..(j - 1) : ~StageEvent(longer[m])
      BY <1>1, <1>3, <2>2
    <3>. QED BY <3>1, <3>2 DEF EndsAt
  <2>. QED BY <1>1, <2>1, <2>2
<1>5. OneByOne(longer)
  <2>. SUFFICES ASSUME NEW i \in 1..n, NEW j \in 1..n, i < j, StageEvent(longer[j])
                PROVE  /\ longer[i][1] # "failed"
                       /\ longer[i][1] = "started" /\ longer[j][1] = "started" =>
                            \E m \in (i + 1)..(j - 1) : longer[m] \in Marks
    BY <1>1 DEF OneByOne
  <2>1. CASE j < n
    BY <1>1, <2>1, <1>sofar DEF OneUpTo
  <2>2. CASE j = n
    BY <1>1, <1>2, <2>2 DEF NoFailure
  <2>. QED BY <1>1, <2>1, <2>2
<1>6. AllEnded(longer)
  BY <1>0, <1>1, <1>2 DEF AllEnded
<1>7. mark # "failed" => NoFailure(longer)
  BY <1>1, <1>2 DEF NoFailure
<1>8. \A x : Whole(story, x) => Whole(longer, x)
  BY <1>1 DEF Whole
<1>9. mark = "ok" => Whole(longer, s)
  <2>1. longer[b] = <<"started", s>> /\ longer[n] = <<mark, s>> /\ b \in 1..n /\ n \in 1..n
    BY <1>1, <1>3 DEF e
  <2>. QED BY <1>1, <2>1 DEF Whole
<1>. QED BY <1>1, <1>4, <1>5, <1>6, <1>7, <1>8, <1>9 DEF Sound, longer, e

NoResult(story) == \A i \in DOMAIN story : story[i][1] # "finished"

Under(d) == At(d) \in Calls \cup {"wait"}

\* What Told says of a run that is under way.
Telling(story, p) ==
    /\ story \in Seq(Events) /\ Sound(story)
    /\ Now(story, StageOf(p)) /\ NoFailure(story) /\ NoResult(story)
    /\ \A s \in Passed(p) : Whole(story, s)

LEMMA UnderWay ==
    ASSUME NEW d \in Deploys, Told(d), Under(d)
    PROVE  Telling(told[d], At(d)) /\ run[d].result # "success"
BY DEF Told, Telling, NoResult, Under, Calls, Fetching

LEMMA StillUnderWay ==
    ASSUME NEW d \in Deploys, Under(d)', Telling(told[d]', At(d)'), run'[d].result # "success"
    PROVE  Told(d)'
BY DEF Told, Telling, NoResult, NoFailure, Under, Calls, Fetching

\* One event more that is not the last.
LEMMA NoResultYet ==
    ASSUME NEW story \in Seq(Events), NEW e \in Events, e[1] # "finished", NoResult(story)
    PROVE  NoResult(Append(story, e))
BY OneMore DEF NoResult

LEMMA SomeEvents ==
    /\ \A s \in Stages, mark \in {"ok", "failed", "skipped"} :
          <<mark, s>> \in Events /\ <<mark, s>>[1] # "finished"
    /\ \A s \in Stages : <<"started", s>> \in Events /\ <<"started", s>>[1] # "finished"
    /\ Said \in Events /\ Said[1] = "line"
    /\ \A r \in Results : <<"finished", r>> \in Events /\ <<"finished", r>>[1] = "finished"
BY DEF Events, Marks, Said

LEMMA StageNamed ==
    /\ \A p : StageOf(p) # None => StageOf(p) \in Stages
    /\ \A p \in {"new", "wait", "prepare", "summary", "flag", "end", "over"} : StageOf(p) = None
    /\ \A p \in {"build", "start", "health", "route", "on_create", "gc"} :
          StageOf(p) = p /\ StageOf(p) # None
    /\ \A p \in Fetching : StageOf(p) = "fetch" /\ StageOf(p) # None
BY PipelineAssumption, HubAssumption DEF StageOf, StageNames, Fetching

\* The next stage, if any, begins.
LEMMA StartsNext ==
    ASSUME NEW story, NEW from, NEW p \in Calls \cup {"wait"},
           Telling(story, from),
           StageOf(from) = None,
           \A s \in Passed(p) : Whole(story, s),
           p \notin {"pull", "reset"}
    PROVE  /\ Started(p) = <<>> \/ (Started(p) = <<<<"started", StageOf(p)>>>> /\ StageOf(p) \in Stages)
           /\ Started(p) = <<>> => Telling(story, p)
           /\ Started(p) # <<>> => Telling(Append(story, <<"started", StageOf(p)>>), p)
<1>1. CASE StageOf(p) = None
  <2>1. Started(p) = <<>>
    BY <1>1 DEF Started
  <2>. QED BY <1>1, <2>1 DEF Telling
<1>2. CASE StageOf(p) # None
  <2>1. StageOf(p) \in Stages /\ Started(p) = <<<<"started", StageOf(p)>>>>
    BY <1>2, StageNamed DEF Started
  <2>. DEFINE e == <<"started", StageOf(p)>>  longer == Append(story, e)
  <2>2. AllEnded(story)
    BY DEF Telling, Now
  <2>3. /\ longer \in Seq(Events) /\ Sound(longer) /\ Now(longer, StageOf(p)) /\ NoFailure(longer)
        /\ \A x : Whole(story, x) => Whole(longer, x)
    BY <2>1, <2>2, StartEvent DEF Telling
  <2>4. NoResult(longer)
    BY <2>1, SomeEvents, NoResultYet DEF Telling
  <2>5. <<<<"started", StageOf(p)>>>> # <<>>
    OBVIOUS
  <2>. QED BY <2>1, <2>3, <2>4, <2>5 DEF Telling
<1>. QED BY <1>1, <1>2

\* A call returned, its stage ended with mark if it ended, the next one is p.
LEMMA NextCallTold ==
    ASSUME NEW d \in Deploys, Told(d), Under(d), told \in [Deploys -> Seq(Events)],
           NEW mark \in {None, "ok", "skipped"}, NEW p \in Calls \cup {"wait"},
           told' = [told EXCEPT ![d] = @ \o ((IF mark = None THEN <<>>
                                              ELSE <<<<mark, StageOf(At(d))>>>>) \o Started(p))],
           At(d)' = p, run'[d].result = run[d].result,
           mark = None => \/ StageOf(At(d)) = None /\ p \notin Fetching
                          \/ At(d) \in Fetching /\ p \in {"pull", "reset"},
           mark # None => StageOf(At(d)) # None /\ p \notin Fetching,
           \A s \in Passed(p) : s \in Passed(At(d)) \/ (mark = "ok" /\ s = StageOf(At(d)))
    PROVE  Told(d)'
<1>. DEFINE story == told[d]  from == At(d)
            events == (IF mark = None THEN <<>> ELSE <<<<mark, StageOf(from)>>>>) \o Started(p)
<1>1. told'[d] = story \o events /\ story \in Seq(Events)
  OBVIOUS
<1>6. story \in Seq(Events)
  BY <1>1
<1>2. Telling(story, from) /\ run'[d].result # "success" /\ Under(d)'
  BY UnderWay DEF Under
<1>0. None # "ok" /\ None # "skipped"
  BY HubAssumption
<1>4. \A s \in Passed(p) : s \in Passed(from) \/ (mark = "ok" /\ s = StageOf(from))
  OBVIOUS
<1>5. /\ mark = None => \/ StageOf(from) = None /\ p \notin Fetching
                        \/ from \in Fetching /\ p \in {"pull", "reset"}
      /\ mark # None => StageOf(from) # None /\ p \notin Fetching
  OBVIOUS
<1>3. Telling(story \o events, p)
  <2>. HIDE DEF story, from, events
  <2>1. CASE mark = None /\ from \in Fetching
    <3>1. p \in {"pull", "reset"} /\ Started(p) = <<>> /\ StageOf(p) = StageOf(from) /\ Passed(p) = {}
      BY <1>5, <2>1, StageNamed DEF Started, Passed, Up, Fetching
    <3>2. story \o events = story
      <4>1. events = <<>> \o <<>>
        BY <2>1, <3>1 DEF events
      <4>. QED BY <1>6, <4>1, SomeEvents, OneAdded
    <3>. QED BY <1>2, <3>1, <3>2 DEF Telling
  <2>2. CASE mark = None /\ from \notin Fetching
    <3>1. StageOf(from) = None /\ p \notin Fetching
      BY <1>5, <2>2
    <3>2. \A s \in Passed(p) : Whole(story, s)
      BY <1>0, <1>2, <1>4, <2>2 DEF Telling
    <3>3. /\ Started(p) = <<>> \/ (Started(p) = <<<<"started", StageOf(p)>>>> /\ StageOf(p) \in Stages)
          /\ Started(p) = <<>> => Telling(story, p)
          /\ Started(p) # <<>> => Telling(Append(story, <<"started", StageOf(p)>>), p)
      <4>1. p \notin {"pull", "reset"}
        BY <3>1 DEF Fetching
      <4>. QED BY <1>2, <3>1, <3>2, <4>1, StartsNext
    <3>4. CASE Started(p) = <<>>
      <4>1. story \o events = story
        <5>1. events = <<>> \o <<>>
          BY <2>2, <3>4 DEF events
        <5>. QED BY <1>6, <5>1, SomeEvents, OneAdded
      <4>. QED BY <3>3, <3>4, <4>1
    <3>5. CASE Started(p) # <<>>
      <4>1. story \o events = Append(story, <<"started", StageOf(p)>>)
        <5>1. events = <<>> \o <<<<"started", StageOf(p)>>>>
          BY <2>2, <3>3, <3>5 DEF events
        <5>2. <<"started", StageOf(p)>> \in Events
          BY <3>3, <3>5, SomeEvents
        <5>. QED BY <1>6, <5>1, <5>2, OneAdded
      <4>. QED BY <3>3, <3>5, <4>1
    <3>. QED BY <3>4, <3>5
  <2>3. CASE mark # None
    <3>. DEFINE e == <<mark, StageOf(from)>>  longer == Append(story, e)
    <3>1. StageOf(from) \in Stages /\ p \notin Fetching /\ mark \in {"ok", "skipped"}
      BY <1>5, <2>3, StageNamed
    <3>2. /\ longer \in Seq(Events) /\ Sound(longer) /\ AllEnded(longer) /\ NoFailure(longer)
          /\ \A x : Whole(story, x) => Whole(longer, x)
          /\ mark = "ok" => Whole(longer, StageOf(from))
      BY <1>2, <3>1, EndEvent DEF Telling
    <3>3. NoResult(longer)
      BY <1>1, <1>2, <3>1, SomeEvents, NoResultYet DEF Telling
    <3>4. \A s \in Passed(p) : Whole(longer, s)
      BY <1>2, <1>4, <3>2 DEF Telling
    <3>5. e \in Events /\ story \o (<<e>> \o <<>>) = longer
      <4>1. e \in Events
        BY <3>1, SomeEvents
      <4>. QED BY <1>6, <4>1, OneAdded
    <3>. HIDE DEF longer
    <3>6. Telling(longer, "new")
      <4>1. StageOf("new") = None /\ Passed("new") = {}
        BY StageNamed DEF Passed, Up
      <4>. QED BY <3>2, <3>3, <4>1 DEF Telling, Now
    <3>7. /\ Started(p) = <<>> \/ (Started(p) = <<<<"started", StageOf(p)>>>> /\ StageOf(p) \in Stages)
          /\ Started(p) = <<>> => Telling(longer, p)
          /\ Started(p) # <<>> => Telling(Append(longer, <<"started", StageOf(p)>>), p)
      <4>1. StageOf("new") = None /\ p \notin {"pull", "reset"}
        BY <3>1, StageNamed DEF Fetching
      <4>. QED BY <3>4, <3>6, <4>1, StartsNext
    <3>8. CASE Started(p) = <<>>
      <4>1. events = <<e>> \o <<>>
        BY <2>3, <3>8 DEF events
      <4>. QED BY <3>5, <3>7, <3>8, <4>1
    <3>9. CASE Started(p) # <<>>
      <4>. DEFINE begins == <<"started", StageOf(p)>>
      <4>1. events = <<e>> \o <<begins>>
        BY <2>3, <3>7, <3>9 DEF events
      <4>2. begins \in Events
        BY <3>7, <3>9, SomeEvents
      <4>3. story \o events = Append(longer, begins)
        <5>. HIDE DEF e, begins
        <5>. QED BY <1>6, <3>5, <4>1, <4>2, TwoAdded DEF longer
      <4>. QED BY <3>7, <3>9, <4>3
    <3>. QED BY <3>8, <3>9
  <2>. QED BY <2>1, <2>2, <2>3
<1>. HIDE DEF events
<1>. QED BY <1>1, <1>2, <1>3, StillUnderWay

\* A line more.
LEMMA SaidMore ==
    ASSUME NEW story \in Seq(Events), Sound(story), NoResult(story)
    PROVE  LET longer == Append(story, Said) IN
           /\ longer \in Seq(Events) /\ Sound(longer) /\ NoResult(longer)
           /\ \A s : Now(story, s) => Now(longer, s)
           /\ AllEnded(story) => AllEnded(longer)
           /\ NoFailure(story) => NoFailure(longer)
           /\ \A s : Whole(story, s) => Whole(longer, s)
<1>1. /\ Said \in Events /\ Said[1] \in {"line", "finished"} /\ Said[1] # "finished"
  BY SomeEvents
<1>2. /\ Sound(story) => Sound(Append(story, Said))
      /\ \A s : Now(story, s) => Now(Append(story, Said), s)
      /\ NoFailure(story) => NoFailure(Append(story, Said))
      /\ \A s : Whole(story, s) => Whole(Append(story, Said), s)
  BY <1>1, QuietEvent
<1>3. NoResult(Append(story, Said)) /\ Append(story, Said) \in Seq(Events)
  BY <1>1, NoResultYet
<1>4. AllEnded(story) => AllEnded(Append(story, Said))
  BY <1>2 DEF Now
<1>. QED BY <1>2, <1>3, <1>4

\* What Told says of a run that has come to its end.
LEMMA AtEndTold ==
    ASSUME NEW d \in Deploys, NEW longer, told'[d] = longer, At(d)' = "end", run'[d].result \in Results,
           longer \in Seq(Events), Sound(longer), NoResult(longer),
           run'[d].result # "canceled" => AllEnded(longer),
           run'[d].result = "success" => NoFailure(longer) /\ \A s \in Main : Whole(longer, s),
           \A i \in DOMAIN longer : longer[i][1] = "failed" => Len(longer) <= i + 1
    PROVE  Told(d)'
<1>1. \A i \in DOMAIN longer : longer[i][1] = "failed" => Len(longer) <= i + 1 /\ Len(longer) <= i + 2
  OBVIOUS
<1>. QED BY <1>1 DEF Told, NoResult, Calls, Fetching

LEMMA LineTold ==
    ASSUME NEW d \in Deploys, Told(d), told \in [Deploys -> Seq(Events)], Line(d), At(d) \in Points
    PROVE  Told(d)'
<1>. DEFINE story == told[d]  longer == Append(story, Said)
<1>1. /\ told'[d] = longer /\ story \in Seq(Events) /\ run' = run
      /\ At(d)' = At(d) /\ Begun(d) /\ (At(d) = "end" => run[d].result = "success")
  <2>1. story \o <<Said>> = longer
    BY SomeEvents, OneAdded
  <2>. QED BY <2>1 DEF Line, Publish, At
<1>2. Sound(story) /\ NoResult(story)
  BY <1>1 DEF Told, NoResult, Begun
<1>3. /\ longer \in Seq(Events) /\ Sound(longer) /\ NoResult(longer)
      /\ \A s : Now(story, s) => Now(longer, s)
      /\ AllEnded(story) => AllEnded(longer)
      /\ NoFailure(story) => NoFailure(longer)
      /\ \A s : Whole(story, s) => Whole(longer, s)
  BY <1>1, <1>2, SaidMore
<1>. HIDE DEF longer
<1>4. CASE At(d) = "end"
  <2>1. /\ AllEnded(story) /\ NoFailure(story) /\ \A s \in Main : Whole(story, s)
        /\ run[d].result \in Results
    BY <1>1, <1>4 DEF Told
  <2>. QED BY <1>1, <1>3, <1>4, <2>1, AtEndTold, PipelineAssumption DEF NoFailure
<1>5. CASE At(d) # "end"
  <2>1. Under(d) /\ Under(d)'
    BY <1>1, <1>5 DEF Begun, Under, Points
  <2>2. Telling(story, At(d)) /\ run[d].result # "success"
    BY <2>1, UnderWay
  <2>3. Telling(longer, At(d))
    BY <1>3, <2>2 DEF Telling
  <2>. QED BY <1>1, <2>1, <2>2, <2>3, StillUnderWay
<1>. QED BY <1>4, <1>5

LEMMA CollectTold ==
    ASSUME NEW d \in Deploys, Told(d), told \in [Deploys -> Seq(Events)],
           At(d) = "gc", At(d)' = "end", run'[d].result = "success",
           told' = [told EXCEPT ![d] = @ \o <<<<"ok", "gc">>>>]
    PROVE  Told(d)'
<1>. DEFINE story == told[d]  e == <<"ok", "gc">>  longer == Append(story, e)
<1>1. "gc" \in Stages /\ StageOf("gc") = "gc" /\ Under(d) /\ Passed("gc") = Main
  BY PipelineAssumption, StageNamed DEF StageNames, Under, Calls, Passed, Up
<1>2. Telling(story, "gc")
  BY <1>1, UnderWay
<1>3. /\ longer \in Seq(Events) /\ Sound(longer) /\ AllEnded(longer) /\ NoFailure(longer)
      /\ \A x : Whole(story, x) => Whole(longer, x)
  <2>. DEFINE stage == "gc"  mark == "ok"
  <2>1. stage \in Stages /\ mark \in {"ok", "failed", "skipped"} /\ mark # "failed"
    BY <1>1
  <2>2. story \in Seq(Events) /\ Sound(story) /\ Now(story, stage) /\ NoFailure(story)
    BY <1>1, <1>2 DEF Telling
  <2>3. longer = Append(story, <<mark, stage>>)
    OBVIOUS
  <2>. HIDE DEF stage, mark, longer
  <2>. QED BY <2>1, <2>2, <2>3, EndEvent
<1>4. NoResult(longer)
  BY <1>1, <1>2, SomeEvents, NoResultYet DEF Telling
<1>5. told'[d] = longer
  <2>1. e \in Events /\ story \in Seq(Events)
    BY <1>1, SomeEvents
  <2>2. story \o <<e>> = longer
    BY <2>1, OneAdded
  <2>. QED BY <2>2
<1>6. \A s \in Main : Whole(longer, s)
  BY <1>1, <1>2, <1>3 DEF Telling
<1>. HIDE DEF longer
<1>. QED BY <1>3, <1>4, <1>5, <1>6, AtEndTold, PipelineAssumption DEF NoFailure

LEMMA BreakTold ==
    ASSUME NEW d \in Deploys, Told(d), told \in [Deploys -> Seq(Events)], Under(d),
           At(d)' = "end", run'[d].result = (IF At(d) = "gc" THEN "success" ELSE "failed"),
           told' = [told EXCEPT ![d] = @ \o Append(FailedMark(d), Said)]
    PROVE  Told(d)'
<1>. DEFINE story == told[d]  stage == StageOf(At(d))
            mark == IF At(d) = "gc" THEN "skipped" ELSE "failed"
            e == <<mark, stage>>  ended == Append(story, e)
<1>1. Telling(story, At(d)) /\ story \in Seq(Events) /\ Said \in Events
  BY UnderWay, SomeEvents
<1>2. CASE stage = None
  <2>. DEFINE longer == Append(story, Said)
  <2>1. told'[d] = longer
    <3>1. FailedMark(d) = <<>>
      BY <1>2 DEF FailedMark
    <3>2. story \o Append(<<>>, Said) = longer
      BY <1>1, OneAdded
    <3>. QED BY <3>1, <3>2
  <2>2. AllEnded(story)
    BY <1>1, <1>2 DEF Telling, Now
  <2>3. /\ longer \in Seq(Events) /\ Sound(longer) /\ NoResult(longer)
        /\ AllEnded(longer) /\ NoFailure(longer)
    BY <1>1, <2>2, SaidMore DEF Telling
  <2>4. run'[d].result # "success"
    BY <1>2, StageNamed
  <2>. HIDE DEF longer
  <2>. QED BY <2>1, <2>3, <2>4, AtEndTold, PipelineAssumption DEF NoFailure
<1>3. CASE stage # None
  <2>. DEFINE longer == Append(ended, Said)
  <2>1. stage \in Stages /\ mark \in {"ok", "failed", "skipped"}
    BY <1>3, StageNamed
  <2>2. e \in Events /\ e[1] # "finished" /\ e[1] = mark
    BY <2>1, SomeEvents
  <2>3. told'[d] = longer
    <3>1. FailedMark(d) = <<e>>
      BY <1>3 DEF FailedMark
    <3>. HIDE DEF e
    <3>2. story \o Append(<<e>>, Said) = longer
      BY <1>1, <2>2, TwoAdded
    <3>. QED BY <3>1, <3>2
  <2>4. /\ ended \in Seq(Events) /\ Sound(ended) /\ AllEnded(ended)
        /\ mark # "failed" => NoFailure(ended)
        /\ \A x : Whole(story, x) => Whole(ended, x)
    BY <1>1, <2>1, EndEvent DEF Telling
  <2>5. NoResult(ended)
    BY <1>1, <2>2, NoResultYet DEF Telling
  <2>6. /\ longer \in Seq(Events) /\ Sound(longer) /\ NoResult(longer) /\ AllEnded(longer)
        /\ NoFailure(ended) => NoFailure(longer)
        /\ \A x : Whole(ended, x) => Whole(longer, x)
    BY <2>4, <2>5, SaidMore
  <2>7. \A i \in DOMAIN longer : longer[i][1] = "failed" => Len(longer) <= i + 1
    <3>. DEFINE n == Len(story)
    <3>1. /\ n \in Nat /\ DOMAIN ended = 1..(n + 1) /\ Len(ended) = n + 1
          /\ \A i \in 1..n : ended[i] = story[i] /\ ended[i][1] # "failed"
      <4>1. \A i \in 1..n : story[i][1] # "failed"
        BY <1>1 DEF Telling, NoFailure
      <4>. QED BY <1>1, <2>2, <4>1, OneMore
    <3>. HIDE DEF n, ended
    <3>2. /\ DOMAIN longer = 1..(n + 2) /\ Len(longer) = n + 2
          /\ \A i \in 1..(n + 1) : longer[i] = ended[i]
      BY <1>1, <2>4, <3>1, OneMore
    <3>. HIDE DEF longer
    <3>3. \A i \in 1..(n + 2) : longer[i][1] = "failed" => i >= n + 1
      BY <3>1, <3>2
    <3>. QED BY <3>1, <3>2, <3>3
  <2>8. run'[d].result = "success" => NoFailure(longer) /\ \A s \in Main : Whole(longer, s)
    <3>. SUFFICES ASSUME At(d) = "gc" PROVE NoFailure(longer) /\ \A s \in Main : Whole(longer, s)
      OBVIOUS
    <3>1. Passed("gc") = Main
      BY DEF Passed, Up
    <3>2. \A s \in Main : Whole(story, s)
      BY <1>1, <3>1 DEF Telling
    <3>. QED BY <2>4, <2>6, <3>2
  <2>. HIDE DEF longer
  <2>. QED BY <2>3, <2>6, <2>7, <2>8, AtEndTold, PipelineAssumption
<1>. QED BY <1>2, <1>3

LEMMA CancelTold ==
    ASSUME NEW d \in Deploys, Told(d), told \in [Deploys -> Seq(Events)], Under(d),
           At(d)' = "end", run'[d].result = "canceled",
           told' = [told EXCEPT ![d] = @ \o <<Said>>]
    PROVE  Told(d)'
<1>. DEFINE story == told[d]  longer == Append(story, Said)
<1>1. Telling(story, At(d)) /\ story \in Seq(Events) /\ Said \in Events
  BY UnderWay, SomeEvents
<1>2. told'[d] = longer
  BY <1>1, OneAdded
<1>3. longer \in Seq(Events) /\ Sound(longer) /\ NoResult(longer) /\ NoFailure(longer)
  BY <1>1, SaidMore DEF Telling
<1>. HIDE DEF longer
<1>. QED BY <1>2, <1>3, AtEndTold, PipelineAssumption DEF NoFailure

\* The result is the last a run tells.
LEMMA OverTold ==
    ASSUME NEW d \in Deploys, Told(d), told \in [Deploys -> Seq(Events)],
           At(d)' = "over", NEW result \in Results, run'[d].result = result,
           told' = [told EXCEPT ![d] = Append(@, <<"finished", result>>)],
           \/ Under(d) /\ result = "failed"
           \/ At(d) = "end" /\ run[d].result = result
    PROVE  Told(d)'
<1>. DEFINE story == told[d]  e == <<"finished", result>>  longer == Append(story, e)
            n == Len(story) + 1
<1>1. told'[d] = longer /\ story \in Seq(Events) /\ e \in Events /\ e[1] = "finished"
  BY SomeEvents
<1>2. /\ longer \in Seq(Events) /\ n \in Nat \ {0}
      /\ DOMAIN longer = 1..n /\ DOMAIN story = 1..(n - 1) /\ Len(longer) = n
      /\ longer[n] = e /\ \A i \in 1..(n - 1) : longer[i] = story[i]
  BY <1>1, OneMore
<1>3. /\ Sound(story) => Sound(longer)
      /\ NoFailure(story) => NoFailure(longer)
      /\ \A s : Whole(story, s) => Whole(longer, s)
  BY <1>1, QuietEvent
<1>4. /\ Sound(story) /\ NoResult(story)
      /\ result = "success" => NoFailure(story) /\ \A s \in Main : Whole(story, s)
      /\ \A i \in DOMAIN story : story[i][1] = "failed" => Len(story) <= i + 1
  <2>1. CASE Under(d) /\ result = "failed"
    BY <2>1, UnderWay DEF Telling, NoFailure
  <2>2. CASE At(d) = "end" /\ run[d].result = result
    BY <2>2 DEF Told, NoResult
  <2>. QED BY <2>1, <2>2
<1>. HIDE DEF longer, e, n
<1>5. \A i \in DOMAIN longer : longer[i][1] = "failed" => Len(longer) <= i + 2
  <2>. SUFFICES ASSUME NEW i \in 1..n, longer[i][1] = "failed" PROVE n <= i + 2
    BY <1>2
  <2>1. CASE i = n
    BY <1>2, <2>1
  <2>2. CASE i < n
    <3>1. i \in DOMAIN story /\ story[i][1] = "failed"
      BY <1>2, <2>2
    <3>2. Len(story) <= i + 1
      BY <1>4, <3>1
    <3>. QED BY <1>1, <3>2 DEF n
  <2>. QED BY <1>2, <2>1, <2>2
<1>6. \A i \in DOMAIN longer : longer[i][1] = "finished" => i = Len(longer)
  <2>. SUFFICES ASSUME NEW i \in 1..n, longer[i][1] = "finished" PROVE i = n
    BY <1>2
  <2>1. CASE i < n
    <3>1. i \in DOMAIN story /\ story[i][1] = "finished"
      BY <1>2, <2>1
    <3>. QED BY <1>4, <3>1 DEF NoResult
  <2>. QED BY <1>2, <2>1
<1>. QED BY <1>1, <1>2, <1>3, <1>4, <1>5, <1>6 DEF Told, Calls, Fetching

Stories == told \in [Deploys -> Seq(Events)] /\ \A d \in Deploys : Told(d)

LEMMA SameTold ==
    ASSUME NEW d \in Deploys, Told(d), told'[d] = told[d],
           At(d)' = At(d), run'[d].result = run[d].result
    PROVE  Told(d)'
BY DEF Told

\* A step of one run.
LEMMA OneTells ==
    ASSUME Stories, NEW d \in Deploys, NEW story, told' = [told EXCEPT ![d] = story],
           \A o \in Deploys \ {d} : run'[o] = run[o],
           Told(d)'
    PROVE  Stories'
<1>1. story \in Seq(Events)
  BY DEF Told, Stories
<1>2. \A o \in Deploys \ {d} : Told(o)'
  BY SameTold DEF Stories, At
<1>. QED BY <1>1, <1>2 DEF Stories

LEMMA MoveTold ==
    ASSUME Typed, Stories, NEW d \in Deploys, Under(d),
           NEW mark \in {None, "ok", "skipped"}, NEW p \in Calls \cup {"wait"}, Move(d, mark, p),
           mark = None => \/ StageOf(At(d)) = None /\ p \notin Fetching
                          \/ At(d) \in Fetching /\ p \in {"pull", "reset"},
           mark # None => StageOf(At(d)) # None /\ p \notin Fetching,
           \A s \in Passed(p) : s \in Passed(At(d)) \/ (mark = "ok" /\ s = StageOf(At(d)))
    PROVE  Stories'
<1>1. /\ At(d)' = p /\ run'[d].result = run[d].result
      /\ \A o \in Deploys \ {d} : run'[o] = run[o]
  BY DEF Move, Typed, Run, At
<1>2. told' = [told EXCEPT ![d] = @ \o ((IF mark = None THEN <<>>
                                         ELSE <<<<mark, StageOf(At(d))>>>>) \o Started(p))]
  BY DEF Move, Publish
<1>3. Told(d)'
  BY <1>1, <1>2, NextCallTold DEF Stories
<1>. QED BY <1>1, <1>2, <1>3, OneTells

LEMMA BeginTold ==
    ASSUME Typed, Stories, NEW d \in Deploys, Begin(d)
    PROVE  Stories'
<1>. DEFINE e == <<"started", "fetch">>
<1>1. "fetch" \in Stages /\ <<>> \in Seq(Events) /\ e \in Events /\ e[1] # "finished"
  BY PipelineAssumption, SomeEvents DEF StageNames
<1>2. told' = [told EXCEPT ![d] = <<e>>] /\ At(d) = "new"
  BY DEF Begin
<1>3. /\ At(d)' \in {"pull", "clone"} /\ run'[d].result = run[d].result
      /\ \A o \in Deploys \ {d} : run'[o] = run[o]
  <2>. DEFINE r == [run[d] EXCEPT !.at = FirstCall(KeyOf[d]), !.asof = tip[RepoOf[d]]]
  <2>1. run[d] \in Run
    BY DEF Typed
  <2>2. r.at = FirstCall(KeyOf[d]) /\ r.result = run[d].result
    BY <2>1 DEF Run
  <2>3. run' = [run EXCEPT ![d] = r]
    BY DEF Begin, Typed
  <2>. HIDE DEF r
  <2>. QED BY <2>2, <2>3 DEF At, Typed, FirstCall
<1>4. Telling(<<e>>, "clone") /\ Telling(<<e>>, "pull")
  <2>. DEFINE stage == "fetch"
  <2>1. Sound(<<>>) /\ AllEnded(<<>>) /\ NoFailure(<<>>) /\ NoResult(<<>>)
    BY DEF Sound, EndsWhatBegan, OneByOne, AllEnded, NoFailure, NoResult
  <2>2. Append(<<>>, e) = <<e>>
    <3>. HIDE DEF e
    <3>. QED BY <1>1
  <2>3. NoResult(<<e>>)
    BY <1>1, <2>1, <2>2, NoResultYet
  <2>4. e = <<"started", stage>> /\ stage \in Stages
    BY <1>1
  <2>5. StageOf("clone") = stage /\ StageOf("pull") = stage /\ Passed("clone") = {} /\ Passed("pull") = {}
    BY StageNamed DEF Passed, Up, Fetching
  <2>. HIDE DEF e, stage
  <2>6. <<e>> \in Seq(Events) /\ Sound(<<e>>) /\ Now(<<e>>, stage) /\ NoFailure(<<e>>)
    BY <1>1, <2>1, <2>2, <2>4, StartEvent
  <2>. QED BY <2>3, <2>5, <2>6 DEF Telling
<1>5. run[d].result # "success"
  BY <1>2 DEF Stories, Told
<1>6. Told(d)'
  <2>1. told'[d] = <<e>>
    BY <1>2 DEF Stories
  <2>. HIDE DEF e
  <2>. QED BY <1>3, <1>4, <1>5, <2>1, StillUnderWay DEF Under, Calls, Fetching
<1>. HIDE DEF e
<1>. QED BY <1>2, <1>3, <1>6, OneTells

LEMMA ResetTold ==
    ASSUME Typed, Stories, NEW d \in Deploys, DoReset(d)
    PROVE  Stories'
<1>. DEFINE mark == "ok"  p == "prepare"
<1>0. /\ StageOf(At(d)) = "fetch" /\ None # "fetch" /\ StageOf(p) = None /\ At(d) = "reset"
      /\ Passed(p) = {"fetch"} /\ p \in Calls \cup {"wait"} /\ p \notin Fetching
      /\ mark \in {None, "ok", "skipped"} /\ mark # None
  <2>1. At(d) = "reset"
    BY DEF DoReset
  <2>2. StageOf("reset") = "fetch" /\ StageOf("reset") # None /\ StageOf("prepare") = None
    <3>1. "reset" \in Fetching
      BY DEF Fetching
    <3>. QED BY <3>1, StageNamed
  <2>3. Passed(p) = {"fetch"} /\ p \in Calls \cup {"wait"} /\ p \notin Fetching
    BY DEF Passed, Up, Calls, Fetching
  <2>4. None # mark
    BY HubAssumption
  <2>. QED BY <2>1, <2>2, <2>3, <2>4
<1>1. /\ At(d)' = p /\ run'[d].result = run[d].result
      /\ \A o \in Deploys \ {d} : run'[o] = run[o]
  <2>. DEFINE r == [run[d] EXCEPT !.at = "prepare", !.sha = Wanted(d)]
  <2>1. run[d] \in Run
    BY DEF Typed
  <2>2. r.at = "prepare" /\ r.result = run[d].result
    BY <2>1 DEF Run
  <2>3. run' = [run EXCEPT ![d] = r]
    BY DEF DoReset, Typed
  <2>. HIDE DEF r
  <2>. QED BY <2>2, <2>3 DEF At, Typed
<1>2. Started(p) = <<>> /\ <<<<mark, "fetch">>>> \o <<>> = <<<<mark, "fetch">>>>
  BY <1>0 DEF Started
<1>3. told' = [told EXCEPT ![d] = @ \o <<<<mark, "fetch">>>>]
  BY DEF DoReset, Publish
<1>. HIDE DEF mark, p
<1>4. told' = [told EXCEPT ![d] = @ \o ((IF mark = None THEN <<>>
                                         ELSE <<<<mark, StageOf(At(d))>>>>) \o Started(p))]
  BY <1>0, <1>2, <1>3
<1>5. Under(d)
  BY <1>0 DEF Under, Calls, Fetching
<1>6. \A s \in Passed(p) : s \in Passed(At(d)) \/ (mark = "ok" /\ s = StageOf(At(d)))
  BY <1>0 DEF mark
<1>7. Told(d)'
  BY <1>0, <1>1, <1>4, <1>5, <1>6, NextCallTold DEF Stories
<1>. QED BY <1>1, <1>3, <1>7, OneTells

LEMMA EndedRun ==
    ASSUME Typed, NEW d \in Deploys, NEW p, NEW result,
           run' = [run EXCEPT ![d].at = p, ![d].hung = FALSE, ![d].result = result]
    PROVE  /\ At(d)' = p /\ run'[d].result = result
           /\ \A o \in Deploys \ {d} : run'[o] = run[o]
<1>. DEFINE r == [run[d] EXCEPT !.at = p, !.hung = FALSE, !.result = result]
<1>1. run[d] \in Run
  BY DEF Typed
<1>2. r.at = p /\ r.result = result
  BY <1>1 DEF Run
<1>3. run' = [run EXCEPT ![d] = r]
  BY DEF Typed
<1>. HIDE DEF r
<1>. QED BY <1>2, <1>3 DEF At, Typed

LEMMA StepTold ==
    ASSUME Typed, Stories, NEW d \in Deploys, Step(d)
    PROVE  Stories'
<1>0. /\ None \notin {"ok", "failed", "skipped"} /\ Told(d) /\ told \in [Deploys -> Seq(Events)]
  BY HubAssumption DEF Stories
<1>1. CASE DoClone(d)
  <2>1. Move(d, None, "pull") /\ At(d) = "clone" /\ Passed("pull") = {}
    BY <1>1 DEF DoClone, Passed, Up
  <2>. QED BY <2>1, MoveTold DEF Under, Calls, Fetching
<1>2. CASE DoPull(d)
  <2>1. Move(d, None, "reset") /\ At(d) = "pull" /\ Passed("reset") = {}
    BY <1>2 DEF DoPull, Passed, Up
  <2>. QED BY <2>1, MoveTold DEF Under, Calls, Fetching
<1>3. CASE DoReset(d)
  BY <1>3, ResetTold
<1>4. CASE Prepare(d) \/ Acquired(d)
  <2>1. PICK p \in {"build", "wait"} : Move(d, None, p)
    BY <1>4 DEF Prepare, Acquired
  <2>2. At(d) \in {"prepare", "wait"}
    BY <1>4 DEF Prepare, Acquired
  <2>3. StageOf(At(d)) = None /\ Passed(At(d)) = {"fetch"} /\ Passed(p) = {"fetch"}
    <3>1. Passed("prepare") = {"fetch"} /\ Passed("wait") = {"fetch"} /\ Passed("build") = {"fetch"}
      BY DEF Passed, Up
    <3>2. StageOf("prepare") = None /\ StageOf("wait") = None
      BY StageNamed
    <3>. QED BY <2>1, <2>2, <3>1, <3>2
  <2>. QED BY <2>1, <2>2, <2>3, MoveTold DEF Under, Calls, Fetching
<1>5. CASE Build(d) \/ StartStack(d) \/ Healthy(d) \/ Seed(d)
  <2>1. PICK p \in {"start", "health", "summary", "flag"} : Move(d, "ok", p) /\ <<At(d), p>> \in
           {<<"build", "start">>, <<"start", "health">>, <<"health", "summary">>, <<"on_create", "flag">>}
    BY <1>5 DEF Build, StartStack, Healthy, Seed
  <2>2. StageOf(At(d)) = At(d) /\ StageOf(At(d)) # None
    BY <2>1, StageNamed
  <2>3. Passed(p) \subseteq Passed(At(d)) \cup {At(d)}
    BY <2>1 DEF Passed, Up, Main
  <2>. QED BY <1>0, <2>1, <2>2, <2>3, MoveTold DEF Under, Calls, Fetching
<1>6. AfterRoute(d) \in {"on_create", "gc"}
  BY DEF AfterRoute
<1>7. CASE Summary(d) \/ Flag(d)
  <2>1. PICK p \in {"route", "on_create", "gc"} : Move(d, None, p)
    BY <1>6, <1>7 DEF Summary, Flag
  <2>2. At(d) \in {"summary", "flag"}
    BY <1>7 DEF Summary, Flag
  <2>3. StageOf(At(d)) = None /\ Passed(At(d)) = Main /\ Passed(p) = Main
    BY <2>1, <2>2, StageNamed DEF Passed, Up
  <2>. QED BY <2>1, <2>2, <2>3, MoveTold DEF Under, Calls, Fetching
<1>8. CASE Route(d)
  <2>1. PICK mark \in {"ok", "skipped"} : Move(d, mark, AfterRoute(d))
    BY <1>8 DEF Route
  <2>2. At(d) = "route"
    BY <1>8 DEF Route
  <2>3. StageOf(At(d)) # None /\ Passed(At(d)) = Main /\ Passed(AfterRoute(d)) = Main
    BY <1>6, <2>2, StageNamed DEF Passed, Up
  <2>. QED BY <1>0, <1>6, <2>1, <2>2, <2>3, MoveTold DEF Under, Calls, Fetching
<1>9. CASE Collect(d)
  <2>1. run' = [run EXCEPT ![d].at = "end", ![d].result = "success"]
    BY <1>9 DEF Collect
  <2>2. At(d)' = "end" /\ run'[d].result = "success" /\ \A o \in Deploys \ {d} : run'[o] = run[o]
    BY <2>1 DEF At, Typed, Run
  <2>3. At(d) = "gc" /\ told' = [told EXCEPT ![d] = @ \o <<<<"ok", "gc">>>>]
    BY <1>9 DEF Collect, Publish
  <2>4. Told(d)'
    BY <1>0, <2>2, <2>3, CollectTold
  <2>. QED BY <2>2, <2>3, <2>4, OneTells
<1>10. CASE End(d)
  <2>1. /\ At(d) = "end" /\ run' = [run EXCEPT ![d].at = "over"]
        /\ told' = [told EXCEPT ![d] = Append(@, <<"finished", run[d].result>>)]
    BY <1>10 DEF End
  <2>2. /\ At(d)' = "over" /\ run'[d].result = run[d].result
        /\ \A o \in Deploys \ {d} : run'[o] = run[o]
    BY <2>1 DEF At, Typed, Run
  <2>3. run[d].result \in Results
    BY <1>0, <2>1 DEF Told
  <2>4. Told(d)'
    BY <1>0, <2>1, <2>2, <2>3, OverTold
  <2>. QED BY <2>1, <2>2, <2>4, OneTells
<1>11. CASE Error(d) \/ Late(d) \/ GiveUp(d)
  <2>1. Under(d) /\ Break(d)
    BY <1>11 DEF Error, Late, GiveUp, Under, Calls, Timed, Fetching
  <2>. DEFINE result == IF At(d) = "gc" THEN "success" ELSE "failed"
  <2>2. run' = [run EXCEPT ![d].at = "end", ![d].hung = FALSE, ![d].result = result]
    BY <2>1 DEF Break
  <2>3. told' = [told EXCEPT ![d] = @ \o Append(FailedMark(d), Said)]
    BY <2>1 DEF Break, Publish
  <2>. HIDE DEF result
  <2>4. At(d)' = "end" /\ run'[d].result = result /\ \A o \in Deploys \ {d} : run'[o] = run[o]
    BY <2>2, EndedRun
  <2>5. Told(d)'
    BY <1>0, <2>1, <2>3, <2>4, BreakTold DEF result
  <2>. QED BY <2>3, <2>4, <2>5, OneTells
<1>. QED BY <1>1, <1>2, <1>3, <1>4, <1>5, <1>7, <1>8, <1>9, <1>10, <1>11 DEF Step

LEMMA CutTold ==
    ASSUME Typed, Stories, NEW d \in Deploys, Cancel(d) \/ Panic(d)
    PROVE  Stories'
<1>0. Told(d) /\ told \in [Deploys -> Seq(Events)]
  BY DEF Stories
<1>1. CASE Cancel(d)
  <2>1. /\ Under(d) /\ told' = [told EXCEPT ![d] = @ \o <<Said>>]
        /\ run' = [run EXCEPT ![d].at = "end", ![d].hung = FALSE, ![d].result = "canceled"]
    BY <1>1 DEF Cancel, Under, Publish
  <2>2. At(d)' = "end" /\ run'[d].result = "canceled" /\ \A o \in Deploys \ {d} : run'[o] = run[o]
    BY <2>1, EndedRun
  <2>3. Told(d)'
    BY <1>0, <2>1, <2>2, CancelTold
  <2>. QED BY <2>1, <2>2, <2>3, OneTells
<1>2. CASE Panic(d)
  <2>1. /\ Under(d) /\ told' = [told EXCEPT ![d] = Append(@, <<"finished", "failed">>)]
        /\ run' = [run EXCEPT ![d].at = "over", ![d].hung = FALSE, ![d].result = "failed"]
    BY <1>2 DEF Panic, Under
  <2>2. At(d)' = "over" /\ run'[d].result = "failed" /\ \A o \in Deploys \ {d} : run'[o] = run[o]
    BY <2>1, EndedRun
  <2>3. "failed" \in Results
    BY PipelineAssumption
  <2>4. Told(d)'
    BY <1>0, <2>1, <2>2, <2>3, OverTold
  <2>. QED BY <2>1, <2>2, <2>4, OneTells
<1>. QED BY <1>1, <1>2

LEMMA CrashTold ==
    ASSUME Typed, Stories, Crash
    PROVE  Stories'
<1>1. ASSUME NEW d \in Deploys PROVE Told(d)'
  <2>1. told'[d] = told[d] /\ Told(d) /\ run[d] \in Run
    BY DEF Crash, Stories, Typed
  <2>2. CASE Begun(d)
    <3>1. At(d)' = "over" /\ run'[d].result = run[d].result
      BY <2>1, <2>2 DEF Crash, At, Run
    <3>. QED BY <2>1, <2>2, <3>1 DEF Told, Begun, Calls, Fetching
  <2>3. CASE ~Begun(d)
    <3>1. At(d)' = At(d) /\ run'[d].result = run[d].result
      BY <2>3 DEF Crash, At
    <3>. QED BY <2>1, <3>1, SameTold
  <2>. QED BY <2>2, <2>3
<1>. QED BY <1>1 DEF Stories, Crash

LEMMA StoriesNext ==
    ASSUME Typed, Stories, [Next]_vars
    PROVE  Stories'
<1>1. ASSUME told' = told, \A d \in Deploys : At(d)' = At(d) /\ run'[d].result = run[d].result
      PROVE  Stories'
  BY <1>1, SameTold DEF Stories
<1>2. ASSUME NEW d \in Deploys, Line(d) PROVE Stories'
  <2>1. run[d] \in Run
    BY DEF Typed
  <2>2. At(d) \in Points
    BY <2>1 DEF Run, At
  <2>3. Told(d)'
    BY <1>2, <2>2, LineTold DEF Stories
  <2>. QED BY <1>2, <2>3, OneTells DEF Line, Publish
<1>3. ASSUME NEW d \in Deploys, Pass(d) \/ Hang(d) PROVE Stories'
  <2>1. \A o \in Deploys : At(o)' = At(o) /\ run'[o].result = run[o].result
    BY <1>3 DEF Pass, Hang, Typed, Run, At
  <2>. QED BY <1>1, <1>3, <2>1 DEF Pass, Hang, hub
<1>4. ASSUME NEW v \in Viewers, ReadOn(v) \/ Come(v) PROVE Stories'
  BY <1>1, <1>4 DEF ReadOn, Come, Read, Replay, Receive, Lag, Subscribe, At
<1>5. ASSUME NEW r \in Repos, Origin(r) PROVE Stories'
  BY <1>1, <1>5 DEF Origin, At, hub
<1>6. CASE UNCHANGED vars
  BY <1>1, <1>6 DEF vars, At, hub
<1>. QED BY <1>2, <1>3, <1>4, <1>5, <1>6, BeginTold, StepTold, CutTold, CrashTold DEF Next

LEMMA StoriesInit == Init => Stories
<1>. SUFFICES ASSUME Init PROVE Stories
  OBVIOUS
<1>1. \A d \in Deploys : told[d] = <<>> /\ At(d) = "new" /\ run[d].result = None
  BY DEF Init, HubInit, NewRun, At
<1>2. <<>> \in Seq(Events) /\ Sound(<<>>)
  BY DEF Sound, EndsWhatBegan, OneByOne
<1>3. None # "success"
  BY HubAssumption, PipelineAssumption
<1>4. ASSUME NEW d \in Deploys PROVE Told(d)
  <2>1. told[d] = <<>> /\ At(d) = "new" /\ run[d].result # "success" /\ DOMAIN told[d] = {}
    BY <1>1, <1>3
  <2>. QED BY <1>2, <2>1 DEF Told, Calls, Fetching
<1>. QED BY <1>4 DEF Stories, Init, HubInit

\* What a run tells is true: a stage at a time, each it ends was begun, none
\* follows a failure, and one that succeeds has told every stage of it.
THEOREM StoriesAreTrue == Spec => []StoryTrue
<1>1. Init => Typed /\ SlotsKept /\ Stories
  BY TypedInit, StoriesInit
<1>2. Typed /\ SlotsKept /\ Stories /\ [Next]_vars => (Typed /\ SlotsKept /\ Stories)'
  BY TypedNext, StoriesNext
<1>3. Stories => StoryTrue
  <2>. SUFFICES ASSUME Stories, NEW d \in Deploys
                PROVE  /\ EndsWhatBegan(told[d]) /\ OneByOne(told[d])
                       /\ At(d) = "end" /\ run[d].result # "canceled" => AllEnded(told[d])
                       /\ run[d].result = "success" =>
                            {"started", "ok"} \X {"fetch", "build", "start", "health"}
                               \subseteq {told[d][i] : i \in DOMAIN told[d]}
    BY DEF StoryTrue
  <2>1. Told(d)
    BY DEF Stories
  <2>2. ASSUME run[d].result = "success", NEW word \in {"started", "ok"}, NEW s \in Main
        PROVE  <<word, s>> \in {told[d][i] : i \in DOMAIN told[d]}
    BY <2>1, <2>2 DEF Told, Whole
  <2>3. /\ EndsWhatBegan(told[d]) /\ OneByOne(told[d])
        /\ At(d) = "end" /\ run[d].result # "canceled" => AllEnded(told[d])
    BY <2>1 DEF Told, Sound
  <2>. QED BY <2>2, <2>3 DEF Main
<1>. QED BY <1>1, <1>2, <1>3, PTL DEF Spec

-----------------------------------------------------------------------------
(* What viewers see.                                                        *)

Count(story, e, from, to) == Cardinality({i \in from..to : story[i] = e})

\* What a viewer w has seen of the story of a run at p: what it shows is of the
\* events it read, what it skipped is not what failed, and its live events
\* begin where its backlog ends.
Fits(w, story, p) ==
    /\ w.at # "away"
    /\ w.first >= 1 /\ w.first <= w.next /\ w.next <= Len(story) + 1
    /\ w.live = w.upto + 1 /\ w.live <= Len(story) + 1
    /\ w.next <= w.upto => ~w.lagged
    /\ ~w.lagged => \A e \in Marks : w.shown[e] = Count(story, e, w.first, w.next - 1)
    /\ \A i \in 1..(w.next - 1) : story[i][1] = "failed" => w.shown[story[i]] > 0
    /\ w.at = "done" => w.pane = None /\ w.next = Len(story) + 1 /\ p = "over"

Seen(v) == LET d == view[v].of IN
           IF d = None THEN view[v].at = "away"
           ELSE d \in Deploys /\ Fits(view[v], told[d], At(d))

Sights == /\ view \in [Viewers -> View] /\ \A v \in Viewers : Seen(v)
          /\ open = {d \in Deploys : Begun(d)}

\* A story has its failure near its end and its result at the end.
EndsWell(story, p) ==
    /\ \A i \in DOMAIN story : story[i][1] = "failed" => Len(story) <= i + 2
    /\ \A i \in DOMAIN story : story[i][1] = "finished" => i = Len(story) /\ p = "over"

LEMMA CountMore ==
    ASSUME NEW story, NEW e, NEW from \in Nat, NEW n \in Nat, from <= n
    PROVE  /\ Count(story, e, from, n - 1) \in Nat
           /\ Count(story, e, from, n)
                 = Count(story, e, from, n - 1) + (IF story[n] = e THEN 1 ELSE 0)
<1>. DEFINE S == {i \in from..(n - 1) : story[i] = e}
            T == {i \in from..n : story[i] = e}
<1>1. IsFiniteSet(S)
  <2>1. IsFiniteSet(from..(n - 1))
    BY FS_Interval
  <2>. QED BY <2>1, FS_Subset
<1>2. Cardinality(S) \in Nat
  BY <1>1, FS_CardinalityType
<1>3. CASE story[n] = e
  <2>1. T = S \cup {n} /\ n \notin S
    BY <1>3
  <2>2. Cardinality(S \cup {n}) = Cardinality(S) + 1
    BY <1>1, <2>1, FS_AddElement
  <2>. QED BY <1>2, <1>3, <2>1, <2>2 DEF Count
<1>4. CASE story[n] # e
  <2>1. T = S
    BY <1>4
  <2>2. Count(story, e, from, n) = Cardinality(T)
        /\ Count(story, e, from, n - 1) = Cardinality(S)
    BY DEF Count
  <2>. HIDE DEF S, T
  <2>. QED BY <1>2, <1>4, <2>1, <2>2
<1>. QED BY <1>3, <1>4

LEMMA Shown ==
    ASSUME NEW w \in View, NEW e \in Events
    PROVE  LET u == Show(w, e) IN
           /\ u \in View
           /\ u.of = w.of /\ u.first = w.first /\ u.upto = w.upto /\ u.live = w.live
           /\ u.next = w.next /\ u.lagged = w.lagged
           /\ \A x \in Marks : u.shown[x] = w.shown[x] + (IF x = e THEN 1 ELSE 0)
           /\ e[1] # "finished" => u.at = w.at
           /\ e[1] = "finished" => u.at = "done" /\ u.pane = None
<1>0. w.shown \in [Marks -> Nat] /\ \A x \in Marks : w.shown[x] \in Nat /\ w.shown[x] + 0 = w.shown[x]
  BY DEF View
<1>1. CASE \E s \in Stages : e = <<"started", s>>
  <2>1. PICK s \in Stages : e = <<"started", s>>
    BY <1>1
  <2>2. e[1] = "started" /\ e[2] = s /\ e \notin Marks
    BY <2>1 DEF Marks
  <2>3. Show(w, e) = [w EXCEPT !.pane = s]
    BY <2>2 DEF Show
  <2>. DEFINE u == [w EXCEPT !.pane = s]
  <2>4. u \in View /\ u.shown = w.shown
        /\ u.of = w.of /\ u.first = w.first /\ u.upto = w.upto /\ u.live = w.live
        /\ u.next = w.next /\ u.lagged = w.lagged /\ u.at = w.at
    BY <2>1 DEF View
  <2>. HIDE DEF u
  <2>. QED BY <1>0, <2>2, <2>3, <2>4 DEF u
<1>2. CASE e \in Marks
  <2>1. e[1] \in {"ok", "failed", "skipped"}
    BY <1>2 DEF Marks
  <2>. DEFINE more == [w.shown EXCEPT ![e] = @ + 1]
              u == [w EXCEPT !.pane = None, !.shown = more]
  <2>2. Show(w, e) = u
    BY <1>2, <2>1 DEF Show
  <2>3. /\ more \in [Marks -> Nat]
        /\ \A x \in Marks : more[x] = w.shown[x] + (IF x = e THEN 1 ELSE 0)
    BY <1>0, <1>2
  <2>. HIDE DEF more
  <2>4. u \in View /\ u.shown = more
        /\ u.of = w.of /\ u.first = w.first /\ u.upto = w.upto /\ u.live = w.live
        /\ u.next = w.next /\ u.lagged = w.lagged /\ u.at = w.at
    BY <2>3 DEF View
  <2>. HIDE DEF u
  <2>. QED BY <1>2, <2>1, <2>2, <2>3, <2>4
<1>3. CASE \E r \in Results : e = <<"finished", r>>
  <2>1. PICK r \in Results : e = <<"finished", r>>
    BY <1>3
  <2>2. e[1] = "finished" /\ e[2] = r /\ e \notin Marks
    BY <2>1 DEF Marks
  <2>3. Show(w, e) = [w EXCEPT !.pane = None, !.at = "done", !.result = r]
    BY <2>2 DEF Show
  <2>. DEFINE u == [w EXCEPT !.pane = None, !.at = "done", !.result = r]
  <2>4. u \in View /\ u.shown = w.shown /\ u.pane = None /\ u.at = "done"
        /\ u.of = w.of /\ u.first = w.first /\ u.upto = w.upto /\ u.live = w.live
        /\ u.next = w.next /\ u.lagged = w.lagged
    BY DEF View
  <2>. HIDE DEF u
  <2>. QED BY <1>0, <2>2, <2>3, <2>4 DEF u
<1>4. CASE e = <<"line", None>>
  <2>1. e[1] = "line" /\ e \notin Marks
    BY <1>4 DEF Marks
  <2>2. Show(w, e) = w
    BY <2>1 DEF Show
  <2>. QED BY <1>0, <2>1, <2>2
<1>. QED BY <1>1, <1>2, <1>3, <1>4 DEF Events

\* A viewer reads the next event.
LEMMA ReadFits ==
    ASSUME NEW w \in View, NEW story \in Seq(Events), NEW p, Fits(w, story, p), EndsWell(story, p),
           w.at = "following", w.next <= Len(story)
    PROVE  LET u == Show([w EXCEPT !.next = w.next + 1], story[w.next]) IN
           u \in View /\ u.of = w.of /\ Fits(u, story, p)
<1>. DEFINE n == w.next  e == story[n]  x == [w EXCEPT !.next = n + 1]  u == Show(x, e)
<1>1. /\ n \in 1..Len(story) /\ n \in Nat /\ w.first \in Nat
      /\ w.live \in Nat /\ w.upto \in Nat /\ Len(story) \in Nat /\ DOMAIN story = 1..Len(story)
  BY DEF Fits, View
<1>2. e \in Events
  BY <1>1
<1>3. /\ x \in View /\ x.of = w.of /\ x.next = n + 1 /\ x.first = w.first /\ x.upto = w.upto
      /\ x.live = w.live /\ x.lagged = w.lagged /\ x.shown = w.shown /\ x.at = "following"
  <2>1. n + 1 \in Nat
    BY <1>1
  <2>. HIDE DEF n
  <2>. QED BY <2>1 DEF View
<1>. HIDE DEF x, e
<1>4. /\ u \in View
      /\ u.of = w.of /\ u.first = w.first /\ u.upto = w.upto /\ u.live = w.live
      /\ u.next = n + 1 /\ u.lagged = w.lagged
      /\ \A z \in Marks : u.shown[z] = w.shown[z] + (IF z = e THEN 1 ELSE 0)
      /\ e[1] # "finished" => u.at = "following"
      /\ e[1] = "finished" => u.at = "done" /\ u.pane = None
  BY <1>2, <1>3, Shown
<1>. HIDE DEF u
<1>5. ASSUME ~u.lagged, NEW z \in Marks
      PROVE  u.shown[z] = Count(story, z, u.first, u.next - 1)
  <2>1. w.shown[z] = Count(story, z, w.first, n - 1)
    BY <1>4, <1>5 DEF Fits
  <2>2. Count(story, z, w.first, n)
           = Count(story, z, w.first, n - 1) + (IF e = z THEN 1 ELSE 0)
    BY <1>1, CountMore DEF Fits, e
  <2>3. u.next - 1 = n
    BY <1>1, <1>4
  <2>. QED BY <1>4, <2>1, <2>2, <2>3
<1>6. ASSUME NEW i \in 1..(u.next - 1), story[i][1] = "failed"
      PROVE  u.shown[story[i]] > 0
  <2>1. \A j \in 1..(n - 1) : story[j][1] = "failed" => w.shown[story[j]] > 0
    BY DEF Fits
  <2>2. i \in 1..n /\ story[i] \in Events
    BY <1>1, <1>4
  <2>3. story[i] \in Marks
    BY <1>6, <2>2 DEF Events, Marks
  <2>4. \A z \in Marks : w.shown[z] \in Nat
    BY DEF View
  <2>5. CASE i = n
    <3>1. story[i] = e
      BY <2>5 DEF e
    <3>. QED BY <1>4, <2>3, <2>4, <3>1
  <2>6. CASE i # n
    <3>1. w.shown[story[i]] > 0
      BY <1>1, <1>6, <2>1, <2>2, <2>6
    <3>. QED BY <1>4, <2>3, <2>4, <3>1
  <2>. QED BY <2>5, <2>6
<1>7. u.at = "done" => u.pane = None /\ u.next = Len(story) + 1 /\ p = "over"
  <2>1. e[1] = "finished" => n = Len(story) /\ p = "over"
    BY <1>1 DEF EndsWell, e
  <2>. QED BY <1>4, <2>1
<1>8. /\ w.first >= 1 /\ w.first <= n /\ w.live = w.upto + 1 /\ w.live <= Len(story) + 1
      /\ n <= w.upto => ~w.lagged
  BY DEF Fits
<1>9. /\ u.first >= 1 /\ u.first <= u.next /\ u.next <= Len(story) + 1
      /\ u.live = u.upto + 1 /\ u.live <= Len(story) + 1
      /\ u.next <= u.upto => ~u.lagged
  BY <1>1, <1>4, <1>8
<1>10. u.at # "away"
  BY <1>4
<1>. QED BY <1>4, <1>5, <1>6, <1>7, <1>9, <1>10 DEF Fits, u, x, e

\* A viewer that fell behind skips to what the ring still has.
LEMMA LagFits ==
    ASSUME NEW w \in View, NEW story \in Seq(Events), NEW p, Fits(w, story, p), EndsWell(story, p),
           w.at = "following", w.next >= w.live, w.next < Len(story) - Ring + 1
    PROVE  LET u == [w EXCEPT !.next = Len(story) - Ring + 1, !.lagged = TRUE] IN
           u \in View /\ u.of = w.of /\ Fits(u, story, p)
<1>. DEFINE n == Len(story)  u == [w EXCEPT !.next = n - Ring + 1, !.lagged = TRUE]
<1>1. /\ n \in Nat /\ w.first \in Nat /\ w.next \in Nat /\ DOMAIN story = 1..n
      /\ w.live \in Nat /\ w.upto \in Nat /\ Ring \in Nat /\ Ring >= 3
  BY HubAssumption DEF View
<1>2. /\ u \in View /\ u.of = w.of /\ u.next = n - Ring + 1 /\ u.first = w.first
      /\ u.upto = w.upto /\ u.live = w.live /\ u.lagged = TRUE /\ u.at = "following"
  <2>1. n - Ring + 1 \in Nat
    BY <1>1
  <2>. QED BY <2>1 DEF View
<1>. HIDE DEF u, n
<1>3. ASSUME NEW i \in 1..(u.next - 1) PROVE story[i][1] # "failed"
  <2>1. i \in DOMAIN story /\ ~(n <= i + 2)
    BY <1>1, <1>2
  <2>. QED BY <2>1 DEF EndsWell, n
<1>4. w.first >= 1 /\ w.first <= w.next /\ w.live = w.upto + 1 /\ w.live <= n + 1
  BY DEF Fits, n
<1>5. w.next < n - Ring + 1
  BY DEF n
<1>6. /\ u.first >= 1 /\ u.first <= u.next /\ u.next <= n + 1 /\ u.live = u.upto + 1
      /\ u.live <= n + 1 /\ ~(u.next <= u.upto)
  BY <1>1, <1>2, <1>4, <1>5
<1>. QED BY <1>2, <1>3, <1>6 DEF Fits, u, n

\* A viewer comes: what of the story is not kept for it has no failure.
LEMMA ComeFits ==
    ASSUME NEW story \in Seq(Events), NEW p, NEW d \in Deploys,
           \A i \in DOMAIN story : story[i][1] = "failed" => Len(story) <= i + 1
    PROVE  LET kept == Kept(Len(story))
               live == Len(story) + 1
               u == [Away EXCEPT !.of = d, !.at = "following",
                      !.first = kept.first, !.upto = kept.last, !.live = live,
                      !.next = IF kept.first > kept.last THEN live ELSE kept.first]
           IN  u \in View /\ u.of = d /\ Fits(u, story, p)
<1>. DEFINE n == Len(story)
            first == IF n - Backlog + 1 < 1 THEN 1 ELSE n - Backlog + 1
            next == IF Kept(n).first > Kept(n).last THEN n + 1 ELSE Kept(n).first
            u == [Away EXCEPT !.of = d, !.at = "following", !.first = Kept(n).first,
                              !.upto = Kept(n).last, !.live = n + 1, !.next = next]
<1>1. n \in Nat /\ Backlog \in Nat /\ Backlog >= 2 /\ DOMAIN story = 1..n
  BY HubAssumption
<1>2. Kept(n).first = first /\ Kept(n).last = n
  BY DEF Kept
<1>3. first \in Nat /\ next \in Nat /\ first >= 1 /\ next = first /\ next <= n + 1
      /\ (first = 1 \/ first <= n - 1)
  BY <1>1, <1>2
<1>. HIDE DEF first, next, n
<1>4. /\ u \in View /\ u.of = d /\ u.at = "following" /\ u.first = first /\ u.upto = n
      /\ u.live = n + 1 /\ u.next = next /\ u.lagged = FALSE
      /\ u.shown = [e \in Marks |-> 0]
  <2>. DEFINE f == Kept(n).first  l == Kept(n).last
  <2>2. f = first /\ l = n /\ f \in Nat /\ l \in Nat /\ n + 1 \in Nat
    BY <1>1, <1>2, <1>3
  <2>. HIDE DEF f, l
  <2>. DEFINE a == [Away EXCEPT !.of = d, !.at = "following", !.first = f]
              b == [a EXCEPT !.upto = l, !.live = n + 1, !.next = next]
  <2>3. u = b
    BY DEF f, l
  <2>. DEFINE zero == [e \in Marks |-> 0]
  <2>0. zero \in [Marks -> Nat]
    OBVIOUS
  <2>. HIDE DEF zero
  <2>4. Away \in View /\ Away.lagged = FALSE /\ Away.shown = zero
    <3>1. Away = [of |-> None, at |-> "away", first |-> 0, upto |-> 0, live |-> 0, next |-> 0,
                  lagged |-> FALSE, pane |-> None, shown |-> zero, result |-> None]
      BY DEF Away, zero
    <3>. QED BY <2>0, <3>1 DEF View
  <2>5. /\ a \in View /\ a.of = d /\ a.at = "following" /\ a.first = f
        /\ a.lagged = FALSE /\ a.shown = zero
    BY <2>2, <2>4 DEF View
  <2>. HIDE DEF a, u
  <2>6. /\ b \in View /\ b.of = d /\ b.at = "following" /\ b.first = f /\ b.upto = l
        /\ b.live = n + 1 /\ b.next = next /\ b.lagged = FALSE /\ b.shown = zero
    BY <1>3, <2>2, <2>5 DEF View
  <2>. QED BY <2>2, <2>3, <2>6 DEF zero
<1>. HIDE DEF u
<1>5. ASSUME NEW e \in Marks PROVE u.shown[e] = Count(story, e, u.first, u.next - 1)
  <2>1. {i \in u.first..(u.next - 1) : story[i] = e} = {}
    BY <1>3, <1>4
  <2>. QED BY <1>4, <2>1, FS_EmptySet DEF Count
<1>6. ASSUME NEW i \in 1..(u.next - 1) PROVE story[i][1] # "failed"
  <2>1. i \in DOMAIN story /\ ~(n <= i + 1)
    BY <1>1, <1>3, <1>4
  <2>. QED BY <2>1 DEF n
<1>7. /\ u.first >= 1 /\ u.first <= u.next /\ u.next <= n + 1 /\ u.live = u.upto + 1
      /\ u.live <= n + 1 /\ ~u.lagged /\ u.at # "away" /\ u.at # "done"
  BY <1>1, <1>3, <1>4
<1>. QED BY <1>4, <1>5, <1>6, <1>7 DEF Fits, u, n, next

\* The story goes on, but for one that is over.
LEMMA GrowFits ==
    ASSUME NEW w \in View, NEW story \in Seq(Events), NEW longer \in Seq(Events), NEW p, NEW q,
           Fits(w, story, p), Len(story) <= Len(longer),
           \A i \in 1..Len(story) : longer[i] = story[i],
           p = "over" => longer = story /\ q = "over"
    PROVE  Fits(w, longer, q)
<1>1. /\ Len(story) \in Nat /\ Len(longer) \in Nat /\ w.next \in Nat /\ w.first \in Nat
      /\ w.live \in Nat /\ w.upto \in Nat
  BY DEF View
<1>2. /\ w.at # "away" /\ w.first >= 1 /\ w.first <= w.next /\ w.next <= Len(story) + 1
      /\ w.live = w.upto + 1 /\ w.live <= Len(story) + 1
      /\ w.next <= w.upto => ~w.lagged
  BY DEF Fits
<1>3. \A i \in 1..(w.next - 1) : longer[i] = story[i]
  BY <1>1, <1>2
<1>4. ASSUME NEW e
      PROVE  Count(longer, e, w.first, w.next - 1) = Count(story, e, w.first, w.next - 1)
  <2>1. \A i \in w.first..(w.next - 1) : longer[i] = story[i]
    BY <1>1, <1>2, <1>3
  <2>2. {i \in w.first..(w.next - 1) : longer[i] = e}
           = {i \in w.first..(w.next - 1) : story[i] = e}
    BY <2>1
  <2>. QED BY <2>2 DEF Count
<1>5. ~w.lagged => \A e \in Marks : w.shown[e] = Count(longer, e, w.first, w.next - 1)
  BY <1>4 DEF Fits
<1>6. \A i \in 1..(w.next - 1) : longer[i][1] = "failed" => w.shown[longer[i]] > 0
  BY <1>3 DEF Fits
<1>7. w.at = "done" => w.pane = None /\ w.next = Len(longer) + 1 /\ q = "over"
  BY DEF Fits
<1>8. w.next <= Len(longer) + 1 /\ w.live <= Len(longer) + 1
  BY <1>1, <1>2
<1>. QED BY <1>2, <1>5, <1>6, <1>7, <1>8 DEF Fits

LEMMA StoryEndsWell ==
    ASSUME Stories, NEW d \in Deploys
    PROVE  told[d] \in Seq(Events) /\ EndsWell(told[d], At(d))
BY DEF Stories, Told, EndsWell

\* A step of one viewer.
LEMMA OneSees ==
    ASSUME Sights, NEW v \in Viewers, NEW u \in View, view' = [view EXCEPT ![v] = u],
           u.of \in Deploys, Fits(u, told[u.of], At(u.of)), UNCHANGED <<told, run, open>>
    PROVE  Sights'
<1>1. view' \in [Viewers -> View] /\ view'[v] = u /\ \A o \in Viewers \ {v} : view'[o] = view[o]
  BY DEF Sights
<1>2. \A d : At(d)' = At(d) /\ told'[d] = told[d] /\ (Begun(d)' <=> Begun(d))
  BY DEF At, Begun
<1>3. \A o \in Viewers \ {v} : Seen(o)'
  BY <1>1, <1>2 DEF Sights, Seen
<1>4. Seen(v)'
  BY <1>1, <1>2, HubAssumption DEF Seen
<1>5. open' = {d \in Deploys : Begun(d)'}
  BY <1>2 DEF Sights
<1>. QED BY <1>1, <1>3, <1>4, <1>5 DEF Sights

LEMMA ReadSights ==
    ASSUME Stories, Sights, NEW v \in Viewers, Read(v), UNCHANGED run
    PROVE  Sights'
<1>. DEFINE w == view[v]  d == w.of
<1>1. /\ w \in View /\ w.at = "following" /\ d \in Deploys /\ Fits(w, told[d], At(d))
  BY DEF Sights, Seen, Read, Replay, Receive, Lag, Live, Following
<1>2. told[d] \in Seq(Events) /\ EndsWell(told[d], At(d)) /\ UNCHANGED <<told, open>>
  BY <1>1, StoryEndsWell DEF Read, Replay, Receive, Lag
<1>3. CASE Replay(v) \/ Receive(v)
  <2>1. /\ w.next \in Nat /\ w.live \in Nat /\ w.upto \in Nat /\ Len(told[d]) \in Nat
        /\ w.live = w.upto + 1 /\ w.live <= Len(told[d]) + 1
    BY <1>1, <1>2 DEF View, Fits
  <2>2. w.next <= Len(told[d])
    BY <1>1, <1>3, <2>1 DEF Replay, Receive, Live, Following
  <2>. DEFINE u == Show([w EXCEPT !.next = w.next + 1], told[d][w.next])
  <2>3. view' = [view EXCEPT ![v] = u]
    BY <1>3, <2>1 DEF Replay, Receive, ShowNext, Sights
  <2>4. u \in View /\ u.of = d /\ Fits(u, told[d], At(d))
    BY <1>1, <1>2, <2>2, ReadFits
  <2>. HIDE DEF u, d
  <2>. QED BY <1>1, <1>2, <2>3, <2>4, OneSees
<1>4. CASE Lag(v)
  <2>1. w.next >= w.live /\ w.next < Len(told[d]) - Ring + 1
    BY <1>4 DEF Lag, Live, Oldest
  <2>. DEFINE u == [w EXCEPT !.next = Len(told[d]) - Ring + 1, !.lagged = TRUE]
  <2>2. u \in View /\ u.of = d /\ Fits(u, told[d], At(d))
    BY <1>1, <1>2, <2>1, LagFits
  <2>3. view' = [view EXCEPT ![v] = u]
    <3>. DEFINE m == Oldest(v)
    <3>1. m = Len(told[d]) - Ring + 1
      BY DEF Oldest
    <3>2. view' = [view EXCEPT ![v].next = m, ![v].lagged = TRUE]
      BY <1>4 DEF Lag
    <3>. HIDE DEF m, d
    <3>. QED BY <3>1, <3>2 DEF Sights
  <2>. HIDE DEF u, d
  <2>. QED BY <1>1, <1>2, <2>2, <2>3, OneSees
<1>. QED BY <1>3, <1>4 DEF Read

LEMMA ComeSights ==
    ASSUME Typed, Stories, Sights, NEW v \in Viewers, Come(v)
    PROVE  Sights'
<1>1. PICK d \in Deploys : Subscribe(v, d)
  BY DEF Come
<1>2. Told(d) /\ told[d] \in Seq(Events) /\ d \in open /\ UNCHANGED <<told, open, run>>
  BY <1>1 DEF Subscribe, Stories, Come
<1>3. \A i \in DOMAIN told[d] : told[d][i][1] = "failed" => Len(told[d]) <= i + 1
  <2>1. Begun(d) /\ At(d) \in Points
    BY <1>2 DEF Sights, Typed, Run, At
  <2>2. At(d) = "end" \/ Under(d)
    BY <2>1 DEF Begun, Under, Points
  <2>. QED BY <1>2, <2>2, UnderWay DEF Told, Telling, NoFailure
<1>. DEFINE kept == Kept(Len(told[d]))  live == Len(told[d]) + 1
            u == [Away EXCEPT !.of = d, !.at = "following",
                      !.first = kept.first, !.upto = kept.last, !.live = live,
                      !.next = IF kept.first > kept.last THEN live ELSE kept.first]
<1>4. u \in View /\ u.of = d /\ Fits(u, told[d], At(d))
  BY <1>2, <1>3, ComeFits
<1>5. view' = [view EXCEPT ![v] = u]
  BY <1>1 DEF Subscribe
<1>. HIDE DEF u
<1>. QED BY <1>2, <1>4, <1>5, OneSees

\* Nobody reads, and what is told only grows, up to the end of the run.
Grows == \A d \in Deploys : /\ Len(told[d]) <= Len(told'[d])
                            /\ \A i \in 1..Len(told[d]) : told'[d][i] = told[d][i]
                            /\ At(d) = "over" => told'[d] = told[d] /\ At(d)' = "over"

LEMMA OthersSee ==
    ASSUME Stories, Stories', Sights, Grows, view' = view, open' = {d \in Deploys : Begun(d)'}
    PROVE  Sights'
<1>1. ASSUME NEW v \in Viewers PROVE Seen(v)'
  <2>. DEFINE w == view[v]  d == w.of
  <2>1. w \in View /\ Seen(v) /\ view'[v] = w
    BY DEF Sights
  <2>2. CASE d = None
    BY <2>1, <2>2 DEF Seen
  <2>3. CASE d # None
    <3>1. d \in Deploys /\ Fits(w, told[d], At(d)) /\ told[d] \in Seq(Events) /\ told'[d] \in Seq(Events)
      BY <2>1, <2>3 DEF Seen, Stories
    <3>2. /\ Len(told[d]) <= Len(told'[d])
          /\ \A i \in 1..Len(told[d]) : told'[d][i] = told[d][i]
          /\ At(d) = "over" => told'[d] = told[d] /\ At(d)' = "over"
      BY <3>1 DEF Grows
    <3>. HIDE DEF w, d
    <3>3. Fits(w, told'[d], At(d)')
      BY <2>1, <3>1, <3>2, GrowFits
    <3>. QED BY <2>1, <2>3, <3>1, <3>3 DEF Seen, w, d
  <2>. QED BY <2>2, <2>3
<1>. QED BY <1>1 DEF Sights

LEMMA PublishSights ==
    ASSUME Stories, Stories', Sights, NEW d \in Deploys, NEW events \in Seq(Events), Publish(d, events),
           \A o \in Deploys \ {d} : At(o)' = At(o), Begun(d), Begun(d)'
    PROVE  Sights'
<1>1. told' = [told EXCEPT ![d] = @ \o events] /\ open' = open /\ view' = view
  BY DEF Publish
<1>2. told \in [Deploys -> Seq(Events)]
  BY DEF Stories
<1>3. Grows
  <2>1. told'[d] = told[d] \o events /\ told[d] \in Seq(Events)
    BY <1>1, <1>2
  <2>2. Len(told[d]) <= Len(told'[d]) /\ \A i \in 1..Len(told[d]) : told'[d][i] = told[d][i]
    <3>. DEFINE story == told[d]
    <3>1. story \in Seq(Events) /\ told'[d] = story \o events
      BY <2>1
    <3>. HIDE DEF story
    <3>2. Len(story) <= Len(story \o events) /\ \A i \in 1..Len(story) : (story \o events)[i] = story[i]
      BY <3>1
    <3>. QED BY <3>1, <3>2 DEF story
  <2>3. At(d) # "over"
    BY DEF Begun
  <2>4. \A o \in Deploys \ {d} : told'[o] = told[o] /\ told[o] \in Seq(Events)
    BY <1>1, <1>2
  <2>. QED BY <2>2, <2>3, <2>4 DEF Grows
<1>4. open' = {o \in Deploys : Begun(o)'}
  BY <1>1 DEF Sights, Begun
<1>. QED BY <1>1, <1>3, <1>4, OthersSee

\* The result is told, the stream closed.
LEMMA CloseSights ==
    ASSUME Stories, Stories', Sights, NEW d \in Deploys, NEW e \in Events,
           told' = [told EXCEPT ![d] = Append(@, e)], open' = open \ {d}, view' = view,
           \A o \in Deploys \ {d} : At(o)' = At(o), Begun(d), At(d)' = "over"
    PROVE  Sights'
<1>1. told \in [Deploys -> Seq(Events)]
  BY DEF Stories
<1>2. Grows
  <2>1. told'[d] = Append(told[d], e) /\ told[d] \in Seq(Events)
    BY <1>1
  <2>2. Len(told[d]) <= Len(told'[d]) /\ \A i \in 1..Len(told[d]) : told'[d][i] = told[d][i]
    <3>. DEFINE story == told[d]  longer == told'[d]
    <3>1. story \in Seq(Events) /\ longer = Append(story, e)
      BY <2>1
    <3>. HIDE DEF story, longer
    <3>2. Len(story) <= Len(longer) /\ \A i \in 1..Len(story) : longer[i] = story[i]
      BY <3>1
    <3>. QED BY <3>2 DEF story, longer
  <2>3. At(d) # "over"
    BY DEF Begun
  <2>4. \A o \in Deploys \ {d} : told'[o] = told[o] /\ told[o] \in Seq(Events)
    BY <1>1
  <2>. QED BY <2>2, <2>3, <2>4 DEF Grows
<1>3. open' = {o \in Deploys : Begun(o)'}
  BY DEF Sights, Begun
<1>. QED BY <1>2, <1>3, OthersSee

LEMMA BeginSights ==
    ASSUME Typed, Stories, Stories', Sights, NEW d \in Deploys, Begin(d)
    PROVE  Sights'
<1>1. /\ At(d) = "new" /\ told[d] = <<>> /\ told' = [told EXCEPT ![d] = <<<<"started", "fetch">>>>]
      /\ told \in [Deploys -> Seq(Events)] /\ open' = open \cup {d} /\ view' = view
  BY DEF Begin, Stories, Told
<1>2. At(d)' \in {"pull", "clone"} /\ \A o \in Deploys \ {d} : At(o)' = At(o)
  <2>. DEFINE r == [run[d] EXCEPT !.at = FirstCall(KeyOf[d]), !.asof = tip[RepoOf[d]]]
  <2>1. run[d] \in Run
    BY DEF Typed
  <2>2. r.at = FirstCall(KeyOf[d])
    BY <2>1 DEF Run
  <2>3. run' = [run EXCEPT ![d] = r]
    BY DEF Begin, Typed
  <2>. HIDE DEF r
  <2>. QED BY <2>2, <2>3 DEF At, Typed, FirstCall
<1>3. Grows
  <2>1. \A o \in Deploys \ {d} : told'[o] = told[o] /\ told[o] \in Seq(Events)
    BY <1>1
  <2>2. told'[d] \in Seq(Events)
    BY DEF Stories
  <2>. HIDE DEF Begin
  <2>3. Len(told[d]) = 0 /\ Len(told'[d]) \in Nat
    BY <1>1, <2>2
  <2>. QED BY <1>1, <1>2, <2>1, <2>3 DEF Grows
<1>4. open' = {o \in Deploys : Begun(o)'}
  BY <1>1, <1>2 DEF Sights, Begun
<1>. QED BY <1>1, <1>3, <1>4, OthersSee

LEMMA MoveSights ==
    ASSUME Typed, Stories, Stories', Sights, NEW d \in Deploys, Begun(d),
           NEW mark \in {None, "ok", "skipped"}, NEW p \in Calls \cup {"wait"}, Move(d, mark, p),
           mark # None => StageOf(At(d)) # None
    PROVE  Sights'
<1>1. At(d)' = p /\ \A o \in Deploys \ {d} : At(o)' = At(o)
  BY DEF Move, Typed, Run, At
<1>. DEFINE ended == IF mark = None THEN <<>> ELSE <<<<mark, StageOf(At(d))>>>>
<1>2. ended \in Seq(Events)
  <2>. DEFINE s == StageOf(At(d))
  <2>1. mark # None => s \in Stages /\ mark \in {"ok", "failed", "skipped"}
    BY StageNamed
  <2>. HIDE DEF s
  <2>2. mark # None => <<mark, s>> \in Events
    BY <2>1, SomeEvents
  <2>. QED BY <2>2 DEF s
<1>3. Started(p) \in Seq(Events)
  BY StageNamed, SomeEvents DEF Started
<1>4. Publish(d, ended \o Started(p))
  BY DEF Move
<1>. HIDE DEF ended
<1>5. ended \o Started(p) \in Seq(Events)
  BY <1>2, <1>3
<1>6. Begun(d)'
  BY <1>1 DEF Begun, Calls, Fetching
<1>. QED BY <1>1, <1>4, <1>5, <1>6, PublishSights

LEMMA StepSights ==
    ASSUME Typed, Stories, Stories', Sights, NEW d \in Deploys, Step(d)
    PROVE  Sights'
<1>0. None \notin {"ok", "failed", "skipped"}
  BY HubAssumption
<1>1. CASE DoClone(d) \/ DoPull(d) \/ Prepare(d) \/ Acquired(d) \/ Summary(d) \/ Flag(d)
  <2>1. \E p \in Calls \cup {"wait"} : Move(d, None, p)
    BY <1>1 DEF DoClone, DoPull, Prepare, Acquired, Summary, Flag, Calls, Fetching, AfterRoute
  <2>2. Begun(d)
    BY <1>1 DEF DoClone, DoPull, Prepare, Acquired, Summary, Flag, Begun
  <2>. QED BY <2>1, <2>2, MoveSights
<1>2. CASE Build(d) \/ StartStack(d) \/ Healthy(d) \/ Seed(d) \/ Route(d)
  <2>1. \E mark \in {"ok", "skipped"}, p \in Calls \cup {"wait"} : Move(d, mark, p)
    BY <1>2 DEF Build, StartStack, Healthy, Seed, Route, Calls, Fetching, AfterRoute
  <2>2. At(d) \in {"build", "start", "health", "on_create", "route"}
    BY <1>2 DEF Build, StartStack, Healthy, Seed, Route
  <2>3. Begun(d) /\ StageOf(At(d)) # None
    BY <2>2, StageNamed DEF Begun
  <2>. QED BY <2>1, <2>3, MoveSights
<1>3. CASE DoReset(d) \/ Collect(d)
  <2>1. \E s \in {"fetch", "gc"} : Publish(d, <<<<"ok", s>>>>)
    BY <1>3 DEF DoReset, Collect
  <2>2. Begun(d)
    BY <1>3 DEF DoReset, Collect, Begun
  <2>3. /\ \A o \in Deploys \ {d} : At(o)' = At(o)
        /\ At(d)' \in {"prepare", "end"}
    <3>1. CASE DoReset(d)
      <4>. DEFINE r == [run[d] EXCEPT !.at = "prepare", !.sha = Wanted(d)]
      <4>1. r.at = "prepare" /\ run' = [run EXCEPT ![d] = r]
        BY <3>1 DEF DoReset, Typed, Run
      <4>. HIDE DEF r
      <4>. QED BY <4>1 DEF At, Typed
    <3>2. CASE Collect(d)
      <4>. DEFINE r == [run[d] EXCEPT !.at = "end", !.result = "success"]
      <4>1. r.at = "end" /\ run' = [run EXCEPT ![d] = r]
        BY <3>2 DEF Collect, Typed, Run
      <4>. HIDE DEF r
      <4>. QED BY <4>1 DEF At, Typed
    <3>. QED BY <1>3, <3>1, <3>2
  <2>4. \A s \in {"fetch", "gc"} : <<<<"ok", s>>>> \in Seq(Events)
    <3>1. \A s \in {"fetch", "gc"} : <<"ok", s>> \in Events
      BY SomeEvents, PipelineAssumption DEF StageNames
    <3>. QED BY <3>1
  <2>5. Begun(d)'
    BY <2>3 DEF Begun
  <2>. QED BY <2>1, <2>2, <2>3, <2>4, <2>5, PublishSights
<1>4. CASE End(d)
  <2>1. /\ At(d) = "end" /\ run' = [run EXCEPT ![d].at = "over"] /\ view' = view /\ open' = open \ {d}
        /\ told' = [told EXCEPT ![d] = Append(@, <<"finished", run[d].result>>)]
    BY <1>4 DEF End
  <2>2. At(d)' = "over" /\ \A o \in Deploys \ {d} : At(o)' = At(o)
    BY <2>1 DEF At, Typed, Run
  <2>3. <<"finished", run[d].result>> \in Events
    BY <2>1, SomeEvents DEF Stories, Told
  <2>4. Begun(d)
    BY <2>1 DEF Begun
  <2>. QED BY <2>1, <2>2, <2>3, <2>4, CloseSights
<1>5. CASE Error(d) \/ Late(d) \/ GiveUp(d)
  <2>1. Under(d) /\ Break(d)
    BY <1>5 DEF Error, Late, GiveUp, Under, Calls, Timed, Fetching
  <2>2. At(d)' = "end" /\ \A o \in Deploys \ {d} : run'[o] = run[o]
    <3>. DEFINE result == IF At(d) = "gc" THEN "success" ELSE "failed"
    <3>1. run' = [run EXCEPT ![d].at = "end", ![d].hung = FALSE, ![d].result = result]
      BY <2>1 DEF Break
    <3>. HIDE DEF result
    <3>. QED BY <3>1, EndedRun
  <2>3. FailedMark(d) \in Seq(Events) /\ Said \in Events
    <3>. DEFINE s == StageOf(At(d))  mark == IF At(d) = "gc" THEN "skipped" ELSE "failed"
    <3>1. s # None => s \in Stages
      BY StageNamed
    <3>2. mark \in {"ok", "failed", "skipped"} /\ FailedMark(d) = IF s = None THEN <<>> ELSE <<<<mark, s>>>>
      BY DEF FailedMark
    <3>. HIDE DEF s, mark
    <3>3. s # None => <<mark, s>> \in Events
      BY <3>1, <3>2, SomeEvents
    <3>. QED BY <3>2, <3>3, SomeEvents
  <2>4. Append(FailedMark(d), Said) \in Seq(Events)
    BY <2>3
  <2>5. Begun(d) /\ Begun(d)'
    BY <2>1, <2>2 DEF Begun, Under, Calls, Fetching
  <2>6. Publish(d, Append(FailedMark(d), Said)) /\ \A o \in Deploys \ {d} : At(o)' = At(o)
    BY <2>1, <2>2 DEF Break, At
  <2>. QED BY <2>2, <2>4, <2>5, <2>6, PublishSights
<1>. QED BY <1>1, <1>2, <1>3, <1>4, <1>5 DEF Step

LEMMA CutSights ==
    ASSUME Typed, Stories, Stories', Sights, NEW d \in Deploys, Cancel(d) \/ Panic(d)
    PROVE  Sights'
<1>1. CASE Cancel(d)
  <2>1. /\ Under(d) /\ Publish(d, <<Said>>)
        /\ run' = [run EXCEPT ![d].at = "end", ![d].hung = FALSE, ![d].result = "canceled"]
    BY <1>1 DEF Cancel, Under
  <2>2. At(d)' = "end" /\ \A o \in Deploys \ {d} : run'[o] = run[o]
    BY <2>1, EndedRun
  <2>3. <<Said>> \in Seq(Events) /\ Begun(d) /\ Begun(d)'
    BY <2>1, <2>2, SomeEvents DEF Begun, Under, Calls, Fetching
  <2>. QED BY <2>1, <2>2, <2>3, PublishSights DEF At
<1>2. CASE Panic(d)
  <2>1. /\ Under(d) /\ told' = [told EXCEPT ![d] = Append(@, <<"finished", "failed">>)]
        /\ run' = [run EXCEPT ![d].at = "over", ![d].hung = FALSE, ![d].result = "failed"]
        /\ view' = view /\ open' = open \ {d}
    BY <1>2 DEF Panic, Under
  <2>2. At(d)' = "over" /\ \A o \in Deploys \ {d} : run'[o] = run[o]
    BY <2>1, EndedRun
  <2>3. <<"finished", "failed">> \in Events /\ Begun(d)
    BY <2>1, SomeEvents, PipelineAssumption DEF Begun, Under, Calls, Fetching
  <2>. QED BY <2>1, <2>2, <2>3, CloseSights DEF At
<1>. QED BY <1>1, <1>2

LEMMA CrashSights ==
    ASSUME Typed, Sights, Crash
    PROVE  Sights'
<1>1. /\ told' = told /\ open' = {} /\ view' = Cuts
      /\ run' = [d \in Deploys |-> IF Begun(d) THEN [run[d] EXCEPT !.at = "over", !.hung = FALSE]
                                   ELSE run[d]]
  BY DEF Crash
<1>2. ASSUME NEW d \in Deploys PROVE ~Begun(d)' /\ (At(d) = "over" => At(d)' = "over")
  <2>1. run[d] \in Run
    BY DEF Typed
  <2>2. CASE Begun(d)
    <3>1. At(d)' = "over"
      BY <1>1, <2>1, <2>2 DEF At, Run
    <3>. QED BY <3>1 DEF Begun
  <2>3. CASE ~Begun(d)
    <3>1. At(d)' = At(d)
      BY <1>1, <2>3 DEF At
    <3>. QED BY <2>3, <3>1 DEF Begun
  <2>. QED BY <2>2, <2>3
<1>3. ASSUME NEW v \in Viewers PROVE view'[v] \in View /\ Seen(v)'
  <2>. DEFINE w == view[v]  u == view'[v]
  <2>1. w \in View /\ Seen(v) /\ u = (IF Following(v) THEN [w EXCEPT !.at = "cut"] ELSE w)
    BY <1>1 DEF Sights, Cuts
  <2>2. /\ u \in View /\ u.of = w.of /\ u.first = w.first /\ u.upto = w.upto /\ u.live = w.live
        /\ u.next = w.next /\ u.lagged = w.lagged /\ u.shown = w.shown /\ u.pane = w.pane
        /\ u.at = (IF w.at = "following" THEN "cut" ELSE w.at)
    BY <2>1 DEF View, Following
  <2>. HIDE DEF u, w
  <2>3. CASE w.of = None
    BY <2>1, <2>2, <2>3 DEF Seen, u, w
  <2>4. CASE w.of # None
    <3>1. w.of \in Deploys /\ Fits(w, told[w.of], At(w.of))
      BY <2>1, <2>4 DEF Seen, w
    <3>2. PICK d \in Deploys : d = w.of
      BY <3>1
    <3>. DEFINE story == told[d]  p == At(d)  q == At(d)'
    <3>3. (p = "over" => q = "over") /\ Fits(w, story, p)
      BY <1>2, <3>1, <3>2
    <3>. HIDE DEF story, p, q
    <3>4. u.at # "away" /\ (u.at = "done" => w.at = "done")
      BY <2>2, <3>3 DEF Fits
    <3>5. Fits(u, story, q)
      BY <2>2, <3>3, <3>4 DEF Fits
    <3>. QED BY <1>1, <2>2, <2>4, <3>2, <3>5 DEF Seen, u, w, story, q
  <2>. QED BY <2>2, <2>3, <2>4 DEF u
<1>4. view' \in [Viewers -> View]
  BY <1>1, <1>3 DEF Cuts
<1>. QED BY <1>1, <1>2, <1>3, <1>4 DEF Sights

LEMMA SightsNext ==
    ASSUME Typed, Stories, Stories', Sights, [Next]_vars
    PROVE  Sights'
<1>1. ASSUME UNCHANGED hub, \A d \in Deploys : At(d)' = At(d)
      PROVE  Sights'
  <2>1. \A d \in Deploys : Begun(d)' <=> Begun(d)
    BY <1>1 DEF Begun
  <2>2. \A v \in Viewers : Seen(v)'
    BY <1>1 DEF Sights, Seen, hub
  <2>. QED BY <1>1, <2>1, <2>2 DEF Sights, hub
<1>2. ASSUME NEW d \in Deploys, Line(d) PROVE Sights'
  <2>1. Publish(d, <<Said>>) /\ UNCHANGED run /\ Begun(d)
    BY <1>2 DEF Line
  <2>2. <<Said>> \in Seq(Events)
    BY SomeEvents
  <2>. QED BY <2>1, <2>2, PublishSights DEF At, Begun
<1>3. ASSUME NEW d \in Deploys, Pass(d) \/ Hang(d) PROVE Sights'
  <2>1. \A o \in Deploys : At(o)' = At(o)
    BY <1>3 DEF Pass, Hang, Typed, Run, At
  <2>. QED BY <1>1, <1>3, <2>1 DEF Pass, Hang
<1>4. ASSUME NEW v \in Viewers, ReadOn(v) PROVE Sights'
  BY <1>4, ReadSights DEF ReadOn
<1>5. ASSUME NEW r \in Repos, Origin(r) PROVE Sights'
  BY <1>1, <1>5 DEF Origin, At
<1>6. CASE UNCHANGED vars
  BY <1>1, <1>6 DEF vars, At
<1>. QED BY <1>2, <1>3, <1>4, <1>5, <1>6, BeginSights, StepSights, CutSights, ComeSights, CrashSights
         DEF Next

LEMMA SightsInit == Init => Sights
<1>. SUFFICES ASSUME Init PROVE Sights
  OBVIOUS
<1>1. Away \in View /\ Away.of = None /\ Away.at = "away"
  BY DEF Away, View
<1>2. \A d \in Deploys : ~Begun(d)
  BY DEF Init, NewRun, Begun, At
<1>3. \A v \in Viewers : view[v] = Away
  BY DEF Init, HubInit
<1>. QED BY <1>1, <1>2, <1>3 DEF Sights, Seen, Init, HubInit

\* Whoever follows a deployment shows what it told: as long as it keeps up each
\* mark of it, and however far behind it fell what failed; its backlog and its
\* live events meet, however many of each the hub keeps.
THEOREM ViewersAreShownTheStory == Spec => []ViewersSeeTheStory
<1>1. Init => Typed /\ SlotsKept /\ Stories /\ Sights
  BY TypedInit, StoriesInit, SightsInit
<1>2. Typed /\ SlotsKept /\ Stories /\ Sights /\ [Next]_vars
      => (Typed /\ SlotsKept /\ Stories /\ Sights)'
  BY TypedNext, StoriesNext, SightsNext
<1>3. Stories /\ Sights => ViewersSeeTheStory
  <2>. SUFFICES ASSUME Stories, Sights, NEW v \in Viewers
                PROVE  /\ view[v].of # None /\ ~view[v].lagged =>
                             \A e \in Marks :
                               view[v].shown[e]
                                 = Times(view[v].of, e, view[v].first, view[v].next - 1)
                       /\ view[v].at = "done" =>
                             /\ view[v].pane = None
                             /\ \A e \in Marks :
                                  /\ e[1] = "failed"
                                  /\ \E i \in DOMAIN told[view[v].of] : told[view[v].of][i] = e
                                  => view[v].shown[e] > 0
    BY DEF ViewersSeeTheStory, NothingBetween, FailureShown
  <2>. DEFINE w == view[v]  d == w.of
  <2>1. CASE d = None
    BY <2>1 DEF Sights, Seen
  <2>2. CASE d # None
    <3>1. d \in Deploys /\ Fits(w, told[d], At(d)) /\ told[d] \in Seq(Events)
      BY <2>2 DEF Sights, Seen, Stories
    <3>2. ~w.lagged => \A e \in Marks : w.shown[e] = Times(d, e, w.first, w.next - 1)
      BY <3>1 DEF Fits, Times, Count
    <3>3. ASSUME w.at = "done", NEW e \in Marks, e[1] = "failed",
                 NEW i \in DOMAIN told[d], told[d][i] = e
          PROVE  w.shown[e] > 0
      <4>1. i \in 1..(w.next - 1)
        BY <3>1, <3>3 DEF Fits
      <4>. QED BY <3>1, <3>3, <4>1 DEF Fits
    <3>4. w.at = "done" => w.pane = None
      BY <3>1 DEF Fits
    <3>. QED BY <3>2, <3>3, <3>4
  <2>. QED BY <2>1, <2>2
<1>. QED BY <1>1, <1>2, <1>3, PTL DEF Spec
=============================================================================
