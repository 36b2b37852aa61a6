------------------------ MODULE SecretFilesProofs ------------------------
(***************************************************************************)
(* Proofs about SecretFiles, for any injectors, layers, names and troubles.*)
(*                                                                         *)
(* The properties are about injectors that nothing disturbs, so the first  *)
(* thing to know is that such an injector is the only one (Alone): then    *)
(* what it has read is what is there, and what it has written stays.       *)
(***************************************************************************)
EXTENDS SecretFiles, SequenceTheorems, TLAPS

\* The layers yet to load end with the layer of the key.
Ends(i) == job[i].at = "load" =>
              /\ job[i].layers # <<>>
              /\ \A k \in DOMAIN job[i].layers : job[i].layers[k] = Key <=> k = Len(job[i].layers)

Typed == /\ stored \in [Layers -> [push : Nat, names : SUBSET Names]]
         /\ declared \in Stacks /\ commit \in Commits
         /\ disk \in [Names -> Values \cup {None}] /\ manifest \in SUBSET Files
         /\ job \in [Injectors -> Job]
         /\ gone \subseteq {i \in Injectors : job[i].at \in Threaded}
         /\ calm \in SUBSET Injectors
         /\ spent \in [Kinds -> Nat]
         /\ \A i \in Injectors : Ends(i)

\* An injector nothing disturbs is the only one, and it has started.  As long as
\* none overlapped there is never more than one.
Alone == /\ \A i \in calm : job[i].at # "idle" /\ (i \in Active => Active = {i})
         /\ spent["overlap"] = 0 => \A i, j \in Active : i = j
-----------------------------------------------------------------------------
(* Steps of one injector. *)

At(i) == job[i].at

\* What an injector under way does: its own job changes, and nothing of what
\* others have to go by.
Works(i) == /\ i \in Active
            /\ \E r \in Job : job' = [job EXCEPT ![i] = r] /\ r.at # "idle"
            /\ gone' \subseteq gone \cup {i} /\ (i \in gone' => job'[i].at \in Threaded)
            /\ calm' = calm /\ spent' \in [Kinds -> Nat] /\ spent'["overlap"] = spent["overlap"]

LEMMA EmptyIsJob == \A stage \in Stages : Empty(stage) \in Job /\ Empty(stage).at = stage
BY FilesAssumption, EmptySeq DEF Empty, Nothing, Job, Commits

LEMMA SpendTyped ==
    ASSUME Typed, NEW kind \in Kinds, Spend(kind)
    PROVE  /\ spent' \in [Kinds -> Nat]
           /\ \A k \in Kinds \ {kind} : spent'[k] = spent[k]
           /\ spent'[kind] # 0
<1>1. spent' = [spent EXCEPT ![kind] = @ + 1] /\ spent \in [Kinds -> Nat]
  BY DEF Spend, Typed
<1>. QED BY <1>1

LEMMA WorksAlone ==
    ASSUME Typed, Alone, NEW i \in Injectors, Works(i)
    PROVE  /\ job' \in [Injectors -> Job]
           /\ \A j \in Injectors \ {i} : job'[j] = job[j]
           /\ (gone \subseteq {j \in Injectors : job[j].at \in Threaded})' /\ Active' \subseteq Active
           /\ \A j \in calm : j \in Active => j = i
           /\ Alone'
<1>1. PICK r \in Job : job' = [job EXCEPT ![i] = r] /\ r.at # "idle"
  BY DEF Works
<1>2. /\ job' \in [Injectors -> Job] /\ job'[i] = r
      /\ \A j \in Injectors \ {i} : job'[j] = job[j]
  BY <1>1 DEF Typed
<1>3. Active' \subseteq Active /\ Active \subseteq Active' \cup {i}
  BY <1>2 DEF Active, Works
<1>4. (gone \subseteq {j \in Injectors : job[j].at \in Threaded})'
  BY <1>2 DEF Works, Typed
<1>5. \A j \in calm : j \in Active => j = i
  BY DEF Works, Alone
<1>6. Alone'
  <2>1. ASSUME NEW c \in calm PROVE job'[c].at # "idle"
    BY <1>1, <1>2 DEF Alone, Typed
  <2>2. ASSUME NEW c \in calm, c \in Active' PROVE Active' = {c}
    BY <1>3, <2>2 DEF Alone
  <2>. QED BY <1>3, <2>1, <2>2 DEF Alone, Works
<1>. QED BY <1>2, <1>3, <1>4, <1>5, <1>6

\* What a job goes on to.
LEMMA JobFields ==
    ASSUME NEW r \in Job
    PROVE  /\ r.at \in Stages /\ r.layers \in Seq(Layers) /\ r.todo \in SUBSET Files
           /\ r.prior \in SUBSET Files /\ r.sha \in Commits
           /\ r.merged \in [Names -> Values \cup {None}]
BY DEF Job

LEMMA LoadTyped ==
    ASSUME Typed, NEW i \in Injectors, Load(i)
    PROVE  /\ Works(i) /\ Ends(i)'
           /\ (\A n \in Names : Over(i, Head(job[i].layers))[n] \in Values \cup {None})
<1>. DEFINE line == job[i].layers  l == Head(line)
<1>1. job[i] \in Job /\ job[i].at = "load" /\ Ends(i)
  BY DEF Typed, Load
<1>2. line \in Seq(Layers) /\ line # <<>>
  BY <1>1 DEF Ends, Job
<1>3. /\ l \in Layers /\ l = line[1] /\ Len(line) \in Nat /\ Len(line) >= 1
      /\ Tail(line) \in Seq(Layers) /\ Len(Tail(line)) = Len(line) - 1
      /\ \A k \in 1..(Len(line) - 1) : Tail(line)[k] = line[k + 1]
  BY <1>2
<1>4. stored[l].push \in Nat
  BY <1>3 DEF Typed
<1>5. \A n \in Names : Over(i, l)[n] \in Values \cup {None}
  BY <1>1, <1>3, <1>4 DEF Over, Job, Values
<1>6. Over(i, l) \in [Names -> Values \cup {None}]
  BY <1>5 DEF Over
<1>. DEFINE then == IF l # Key THEN "load"
                    ELSE IF i \in Deploys /\ Over(i, l) = Nothing THEN "override" ELSE "env"
            r == IF l # Key /\ stored[l].names = {} THEN Empty("failed")
                 ELSE [job[i] EXCEPT !.at = then, !.layers = Tail(line), !.merged = Over(i, l)]
<1>7. then \in Stages \ {"idle"}
  <2>1. {"load", "override", "env"} \subseteq Stages \ {"idle"}
    BY DEF Stages, Threaded
  <2>. QED BY <2>1
<1>8. r \in Job /\ r.at # "idle"
  <2>1. [job[i] EXCEPT !.at = then, !.layers = Tail(line), !.merged = Over(i, l)] \in Job
    <3>. HIDE DEF then, l, line
    <3>. QED BY <1>1, <1>3, <1>6, <1>7 DEF Job
  <2>2. Empty("failed") \in Job /\ Empty("failed").at = "failed"
    BY EmptyIsJob DEF Stages
  <2>3. [job[i] EXCEPT !.at = then, !.layers = Tail(line), !.merged = Over(i, l)].at = then
    <3>. HIDE DEF then, l, line
    <3>. QED BY <1>1 DEF Job
  <2>. QED BY <1>7, <2>1, <2>2, <2>3
<1>9. job' = [job EXCEPT ![i] = r]
  BY DEF Load
<1>10. i \in Active /\ i \notin gone
  BY <1>1 DEF Active, Typed, Threaded
<1>11. Works(i)
  <2>. HIDE DEF r
  <2>. QED BY <1>8, <1>9, <1>10 DEF Works, Load, observed, Typed, Active
<1>12. Ends(i)'
  <2>1. job'[i] = r
    BY <1>9 DEF Typed
  <2>2. CASE l # Key /\ stored[l].names = {}
    BY <2>1, <2>2, EmptyIsJob DEF Ends, Stages
  <2>3. CASE l = Key
    <3>1. r = [job[i] EXCEPT !.at = then, !.layers = Tail(line), !.merged = Over(i, l)]
      BY <2>3
    <3>2. r.at = then
      <4>. HIDE DEF then, line, l
      <4>. QED BY <1>1, <3>1 DEF Job
    <3>3. then # "load"
      BY <2>3
    <3>. HIDE DEF r, then
    <3>. QED BY <2>1, <3>2, <3>3 DEF Ends
  <2>4. CASE l # Key /\ stored[l].names # {}
    <3>1. r.layers = Tail(line)
      <4>1. r = [job[i] EXCEPT !.at = then, !.layers = Tail(line), !.merged = Over(i, l)]
        BY <2>4
      <4>. HIDE DEF then, line, l
      <4>. QED BY <1>1, <4>1 DEF Job
    <3>2. \A k \in DOMAIN line : line[k] = Key <=> k = Len(line)
      BY <1>1 DEF Ends
    <3>3. Len(line) # 1
      BY <1>3, <2>4, <3>2
    <3>4. Tail(line) # <<>>
      <4>1. Len(Tail(line)) # 0
        <5>. HIDE DEF line
        <5>. QED BY <1>3, <3>3
      <4>. QED BY <4>1, EmptySeq
    <3>5. \A k \in 1..(Len(line) - 1) : Tail(line)[k] = Key <=> k = Len(line) - 1
      <4>. TAKE k \in 1..(Len(line) - 1)
      <4>1. k + 1 \in 1..Len(line) /\ DOMAIN line = 1..Len(line) /\ Tail(line)[k] = line[k + 1]
        <5>1. DOMAIN line = 1..Len(line)
          BY <1>2
        <5>2. Tail(line)[k] = line[k + 1]
          BY <1>3
        <5>. HIDE DEF line
        <5>3. k + 1 \in 1..Len(line)
          BY <1>3
        <5>. QED BY <5>1, <5>2, <5>3
      <4>2. line[k + 1] = Key <=> k + 1 = Len(line)
        BY <3>2, <4>1
      <4>3. k \in Int /\ Len(line) \in Int
        BY <1>3
      <4>. HIDE DEF line
      <4>4. k + 1 = Len(line) <=> k = Len(line) - 1
        BY <4>3
      <4>. QED BY <4>1, <4>2, <4>4
    <3>6. DOMAIN Tail(line) = 1..(Len(line) - 1)
      BY <1>3
    <3>. HIDE DEF r
    <3>7. job'[i].layers = Tail(line)
      BY <2>1, <3>1
    <3>. HIDE DEF line
    <3>. QED BY <1>3, <3>4, <3>5, <3>6, <3>7 DEF Ends
  <2>. QED BY <2>2, <2>3, <2>4
<1>. QED BY <1>5, <1>11, <1>12

\* Each of the other steps of an injector.
Acts(i) == Env(i) \/ Read(i) \/ Put(i) \/ Turn(i) \/ Sweep(i) \/ Note(i)
           \/ Override(i) \/ Up(i) \/ Record(i) \/ Fail(i) \/ Drop(i)

LEMMA GoTyped ==
    ASSUME Typed, NEW i \in Injectors, NEW stage \in Stages \ {"idle", "load"}, Go(i, stage)
    PROVE  /\ \E r \in Job : job' = [job EXCEPT ![i] = r] /\ r.at \notin {"idle", "load"}
           /\ gone' = gone \ {i}
<1>. DEFINE r == IF i \in gone THEN Empty("failed") ELSE [job[i] EXCEPT !.at = stage]
<1>1. Empty("failed") \in Job /\ Empty("failed").at = "failed"
  BY EmptyIsJob DEF Stages
<1>2. job[i] \in Job
  BY DEF Typed
<1>3. [job[i] EXCEPT !.at = stage] \in Job /\ [job[i] EXCEPT !.at = stage].at = stage
  BY <1>2 DEF Job
<1>4. r \in Job /\ r.at \notin {"idle", "load"}
  BY <1>1, <1>3
<1>5. job' = [job EXCEPT ![i] = r] /\ gone' = gone \ {i}
  BY DEF Go
<1>. HIDE DEF r
<1>. QED BY <1>4, <1>5

LEMMA ActsWork ==
    ASSUME Typed, NEW i \in Injectors, Acts(i)
    PROVE  Works(i) /\ Ends(i)'
<1>1. job[i] \in Job /\ job \in [Injectors -> Job] /\ Ends(i)
  BY DEF Typed
<1>2. i \in Active
  BY DEF Acts, Env, Read, Put, Turn, Sweep, Note, Override, Up, Record, Fail, Drop, Active
<1>3. calm' = calm
  BY DEF Acts, Env, Read, Put, Turn, Sweep, Note, Override, Up, Record, Fail, Drop, observed
<1>4. spent' \in [Kinds -> Nat] /\ spent'["overlap"] = spent["overlap"]
  <2>1. CASE Fail(i) \/ Drop(i)
    BY <2>1, SpendTyped DEF Fail, Drop, Kinds
  <2>. QED BY <2>1 DEF Acts, Env, Read, Put, Turn, Sweep, Note, Override, Up, Record, Typed
<1>5. Empty("failed") \in Job /\ Empty("failed").at = "failed"
      /\ Empty("ok") \in Job /\ Empty("ok").at = "ok"
  BY EmptyIsJob DEF Stages
<1>6. ASSUME NEW r \in Job, job' = [job EXCEPT ![i] = r], r.at \notin {"idle", "load"},
             gone' \subseteq gone \cup {i}, i \in gone' => r.at \in Threaded
      PROVE  Works(i) /\ Ends(i)'
  <2>1. job'[i] = r
    BY <1>1, <1>6
  <2>. QED BY <1>2, <1>3, <1>4, <1>6, <2>1 DEF Works, Ends
<1>7. CASE Env(i) \/ Note(i) \/ Override(i)
  <2>1. PICK stage \in Stages \ {"idle", "load"} : Go(i, stage)
    BY <1>7 DEF Env, Note, Override, Stages, Threaded
  <2>. QED BY <1>6, <2>1, GoTyped
<1>8. CASE Read(i) \/ Put(i) \/ Turn(i) \/ Sweep(i)
  <2>. DEFINE r == job'[i]
  <2>1. job' = [job EXCEPT ![i] = r] /\ gone' = gone
    BY <1>1, <1>8 DEF Read, Put, Turn, Sweep
  <2>2. Read(i) => r = [job[i] EXCEPT !.at = "put", !.prior = manifest, !.todo = Current(i)]
    BY <1>1 DEF Read
  <2>3. Put(i) \/ Sweep(i) => \E f \in Files : r = [job[i] EXCEPT !.todo = job[i].todo \ {f}]
    BY <1>1, JobFields DEF Put, Sweep
  <2>4. Turn(i) => r = [job[i] EXCEPT !.at = "sweep", !.todo = Stale(i)]
    BY <1>1 DEF Turn
  <2>5. Read(i) => r \in Job /\ r.at = "put"
    <3>1. Current(i) \in SUBSET Files /\ manifest \in SUBSET Files /\ "put" \in Stages
      BY DEF Current, Typed, Stages, Threaded
    <3>. HIDE DEF r
    <3>. QED BY <1>1, <2>2, <3>1 DEF Job
  <2>6. Put(i) \/ Sweep(i) => r \in Job /\ r.at \in {"put", "sweep"}
    <3>. SUFFICES ASSUME Put(i) \/ Sweep(i) PROVE r \in Job /\ r.at \in {"put", "sweep"}
      OBVIOUS
    <3>1. PICK f \in Files : r = [job[i] EXCEPT !.todo = job[i].todo \ {f}]
      BY <2>3
    <3>2. job[i].todo \ {f} \in SUBSET Files /\ job[i].at \in {"put", "sweep"}
      BY <1>1, JobFields DEF Put, Sweep
    <3>. HIDE DEF r
    <3>. QED BY <1>1, <3>1, <3>2 DEF Job
  <2>7. Turn(i) => r \in Job /\ r.at = "sweep"
    <3>1. Stale(i) \in SUBSET Files /\ "sweep" \in Stages
      BY <1>1, JobFields DEF Stale, Stages, Threaded
    <3>. HIDE DEF r
    <3>. QED BY <1>1, <2>4, <3>1 DEF Job
  <2>8. r \in Job /\ r.at \in {"put", "sweep"}
    BY <1>8, <2>5, <2>6, <2>7
  <2>. HIDE DEF r
  <2>. QED BY <1>6, <2>1, <2>8 DEF Threaded
<1>9. CASE Up(i)
  <2>. DEFINE r == [job[i] EXCEPT !.at = "record"]
  <2>1. r \in Job /\ r.at = "record"
    BY <1>1 DEF Job, Stages
  <2>2. job' = [job EXCEPT ![i] = r] /\ gone' = gone /\ i \notin gone
    BY <1>1, <1>9 DEF Up, Typed, Threaded
  <2>. HIDE DEF r
  <2>. QED BY <1>6, <2>1, <2>2
<1>10. CASE Record(i)
  <2>1. i \notin gone
    BY <1>10 DEF Record, Typed, Threaded
  <2>. QED BY <1>5, <1>6, <1>10, <2>1 DEF Record
<1>11. CASE Fail(i)
  BY <1>5, <1>6, <1>11 DEF Fail
<1>12. CASE Drop(i)
  <2>1. CASE job[i].at \in Threaded /\ gone' = gone \cup {i} /\ UNCHANGED job
    <3>1. job' = [job EXCEPT ![i] = job[i]]
      BY <1>1, <2>1
    <3>2. job[i].at \notin {"idle", "load"}
      BY <2>1 DEF Threaded
    <3>. QED BY <1>1, <1>6, <2>1, <3>1, <3>2
  <2>2. CASE job' = [job EXCEPT ![i] = Empty("failed")] /\ UNCHANGED gone
    <3>1. i \notin gone
      BY <1>12 DEF Drop
    <3>. QED BY <1>5, <1>6, <2>2, <3>1
  <2>. QED BY <1>12, <2>1, <2>2 DEF Drop
<1>. QED BY <1>7, <1>8, <1>9, <1>10, <1>11, <1>12 DEF Acts

\* What it does to the work tree.
LEMMA TreeTyped ==
    ASSUME Typed, NEW i \in Injectors, Acts(i)
    PROVE  (disk \in [Names -> Values \cup {None}] /\ manifest \in SUBSET Files)'
<1>1. /\ disk \in [Names -> Values \cup {None}] /\ manifest \in SUBSET Files
      /\ job[i].merged \in [Names -> Values \cup {None}]
  BY JobFields DEF Typed
<1>2. manifest' \in SUBSET Files
  BY <1>1 DEF Acts, Env, Read, Put, Turn, Sweep, Note, Override, Up, Record, Fail, Drop, tree, Current
<1>3. CASE Env(i)
  BY <1>1, <1>2, <1>3 DEF Env, Names
<1>4. CASE Put(i) \/ Sweep(i)
  <2>1. PICK f \in Files, v \in Values \cup {None} : disk' = [disk EXCEPT ![f] = v]
    <3>1. job[i].todo \in SUBSET Files
      BY JobFields DEF Typed
    <3>2. CASE Put(i)
      <4>1. PICK f \in job[i].todo : disk' = [disk EXCEPT ![f] = job[i].merged[f]]
        BY <3>2 DEF Put
      <4>. QED BY <1>1, <3>1, <4>1 DEF Names
    <3>3. CASE Sweep(i)
      <4>1. PICK f \in job[i].todo : disk' = [disk EXCEPT ![f] = None]
        BY <3>3 DEF Sweep
      <4>. QED BY <3>1, <4>1
    <3>. QED BY <1>4, <3>2, <3>3
  <2>. QED BY <1>1, <1>2, <2>1
<1>5. CASE ~(Env(i) \/ Put(i) \/ Sweep(i))
  <2>1. disk' = disk
    <3>1. Read(i) \/ Turn(i) \/ Note(i) => disk' = disk
      BY DEF Read, Turn, Note, tree
    <3>2. Override(i) \/ Up(i) \/ Record(i) \/ Fail(i) \/ Drop(i) => disk' = disk
      BY DEF Override, Up, Record, Fail, Drop, tree
    <3>. QED BY <1>5, <3>1, <3>2 DEF Acts
  <2>. QED BY <1>1, <1>2, <2>1
<1>. QED BY <1>2, <1>3, <1>4, <1>5
-----------------------------------------------------------------------------
(* What an injector knows. *)

\* What an injector goes by in its file work.
Sorted(i) == /\ At(i) = "put" => job[i].todo \subseteq Current(i)
             /\ At(i) = "sweep" => job[i].todo \subseteq Stale(i)

\* A deployment tells its own commit.
Tells(d) == /\ d \in Active => job[d].sha = d
            /\ d \in calm /\ At(d) = "up" => override = d
            /\ d \in calm /\ At(d) = "record" => running.sha = d

Inv == Typed /\ Alone /\ (\A i \in Injectors : Sorted(i)) /\ (\A d \in Deploys : Tells(d))

\* A step of one injector leaves what the others go by as it is.
LEMMA Others ==
    ASSUME Inv, NEW i \in Injectors, Works(i)
    PROVE  /\ \A j \in Injectors \ {i} : Sorted(j)' /\ (j \in Deploys => Tells(j)') /\ Ends(j)'
           /\ Alone'
<1>1. /\ \A j \in Injectors \ {i} : job'[j] = job[j]
      /\ \A j \in calm : j \in Active => j = i
      /\ Active' \subseteq Active /\ calm' = calm /\ Alone'
  BY WorksAlone DEF Inv, Works
<1>2. ASSUME NEW j \in Injectors \ {i} PROVE Sorted(j)' /\ Ends(j)'
  BY <1>1 DEF Inv, Sorted, Current, Stale, Ends, Typed, At
<1>3. ASSUME NEW j \in Deploys \ {i} PROVE Tells(j)'
  <2>1. j \in Injectors \ {i} /\ job'[j] = job[j] /\ Tells(j)
    BY <1>1 DEF Injectors, Inv
  <2>2. j \in calm => At(j) \notin {"up", "record"}
    BY <1>1, <2>1 DEF Active, At
  <2>. QED BY <1>1, <2>1, <2>2 DEF Tells, At
<1>. QED BY <1>1, <1>2, <1>3

\* The fields of the job of i after each step.
LEMMA After ==
    ASSUME Typed, NEW i \in Injectors
    PROVE  /\ Env(i) => job'[i] = IF i \in gone THEN Empty("failed")
                                  ELSE [job[i] EXCEPT !.at = "files"]
           /\ Note(i) => job'[i] = IF i \in gone THEN Empty("failed")
                                   ELSE [job[i] EXCEPT !.at = "override"]
           /\ Read(i) => job'[i] = [job[i] EXCEPT !.at = "put", !.prior = manifest, !.todo = Current(i)]
           /\ Put(i) \/ Sweep(i) =>
                 \E f \in job[i].todo : job'[i] = [job[i] EXCEPT !.todo = job[i].todo \ {f}]
           /\ Turn(i) => job'[i] = [job[i] EXCEPT !.at = "sweep", !.todo = Stale(i)]
           /\ Override(i) => job'[i] = IF i \in gone THEN Empty("failed")
                                       ELSE [job[i] EXCEPT !.at = "up"]
           /\ Up(i) => job'[i] = [job[i] EXCEPT !.at = "record"]
           /\ Record(i) => job'[i] = Empty("ok")
           /\ Fail(i) => job'[i] = Empty("failed")
           /\ Drop(i) => \/ job[i].at \in Threaded /\ job'[i] = job[i]
                         \/ job'[i] = Empty("failed")
<1>1. job \in [Injectors -> Job] /\ job[i] \in Job
  BY DEF Typed
<1>2. /\ Env(i) => job'[i] = IF i \in gone THEN Empty("failed")
                             ELSE [job[i] EXCEPT !.at = "files"]
      /\ Note(i) => job'[i] = IF i \in gone THEN Empty("failed")
                              ELSE [job[i] EXCEPT !.at = "override"]
      /\ Override(i) => job'[i] = IF i \in gone THEN Empty("failed")
                                  ELSE [job[i] EXCEPT !.at = "up"]
  BY <1>1 DEF Env, Note, Override, Go
<1>3. Read(i) => job'[i] = [job[i] EXCEPT !.at = "put", !.prior = manifest, !.todo = Current(i)]
  BY <1>1 DEF Read
<1>4. Put(i) \/ Sweep(i) =>
          \E f \in job[i].todo : job'[i] = [job[i] EXCEPT !.todo = job[i].todo \ {f}]
  BY <1>1 DEF Put, Sweep
<1>5. Turn(i) => job'[i] = [job[i] EXCEPT !.at = "sweep", !.todo = Stale(i)]
  BY <1>1 DEF Turn
<1>6. Up(i) => job'[i] = [job[i] EXCEPT !.at = "record"]
  BY <1>1 DEF Up
<1>7. /\ Record(i) => job'[i] = Empty("ok")
      /\ Fail(i) => job'[i] = Empty("failed")
      /\ Drop(i) => \/ job[i].at \in Threaded /\ job'[i] = job[i]
                    \/ job'[i] = Empty("failed")
  BY <1>1 DEF Record, Fail, Drop
<1>. QED BY <1>2, <1>3, <1>4, <1>5, <1>6, <1>7

\* And where it stands then.
LEMMA AfterAt ==
    ASSUME Typed, NEW i \in Injectors
    PROVE  /\ Env(i) => job'[i].at \in {"files", "failed"}
           /\ Note(i) => job'[i].at \in {"override", "failed"}
           /\ Read(i) => job'[i].at = "put"
           /\ Put(i) => job'[i].at = "put"
           /\ Turn(i) \/ Sweep(i) => job'[i].at = "sweep"
           /\ Override(i) => job'[i].at \in {"up", "failed"}
           /\ Up(i) => job'[i].at = "record"
           /\ Record(i) => job'[i].at = "ok"
           /\ Fail(i) => job'[i].at = "failed"
           /\ Drop(i) => job'[i].at = "failed" \/ (job'[i].at = job[i].at /\ job[i].at \in Threaded)
<1>1. job[i] \in Job
  BY DEF Typed
<1>2. Empty("failed").at = "failed" /\ Empty("ok").at = "ok"
  BY DEF Empty
<1>3. \A p \in {"files", "override", "up", "record"} : [job[i] EXCEPT !.at = p].at = p
  BY <1>1 DEF Job
<1>4. Env(i) => job'[i].at \in {"files", "failed"}
  BY <1>2, <1>3, After
<1>5. Note(i) => job'[i].at \in {"override", "failed"}
  BY <1>2, <1>3, After
<1>6. Read(i) => job'[i].at = "put"
  <2>1. [job[i] EXCEPT !.at = "put", !.prior = manifest, !.todo = Current(i)].at = "put"
    BY <1>1 DEF Job
  <2>. QED BY <2>1, After
<1>7. Put(i) \/ Sweep(i) => job'[i].at = job[i].at
  <2>1. \A f : [job[i] EXCEPT !.todo = job[i].todo \ {f}].at = job[i].at
    BY <1>1 DEF Job
  <2>2. ASSUME Put(i) \/ Sweep(i) PROVE job'[i].at = job[i].at
    <3>1. PICK f \in job[i].todo : job'[i] = [job[i] EXCEPT !.todo = job[i].todo \ {f}]
      BY <2>2, After
    <3>. QED BY <2>1, <3>1
  <2>. QED BY <2>2
<1>8. Turn(i) => job'[i].at = "sweep"
  <2>1. [job[i] EXCEPT !.at = "sweep", !.todo = Stale(i)].at = "sweep"
    BY <1>1 DEF Job
  <2>. QED BY <2>1, After
<1>9. (Override(i) => job'[i].at \in {"up", "failed"}) /\ (Up(i) => job'[i].at = "record")
  BY <1>2, <1>3, After
<1>10. (Record(i) => job'[i].at = "ok") /\ (Fail(i) => job'[i].at = "failed")
  BY <1>2, After
<1>11. Drop(i) => job'[i].at = "failed" \/ (job'[i].at = job[i].at /\ job[i].at \in Threaded)
  BY <1>2, After
<1>. QED BY <1>4, <1>5, <1>6, <1>7, <1>8, <1>9, <1>10, <1>11 DEF Put, Sweep

\* What was merged stays so, until the injector ends.
LEMMA KeepsMerged ==
    ASSUME Typed, NEW i \in Injectors, Acts(i)
    PROVE  /\ job'[i].at \in {"ok", "failed"} \/
              (job'[i].merged = job[i].merged /\ job'[i].sha = job[i].sha /\ Current(i)' = Current(i))
           /\ job'[i].at \in {"ok", "failed"} => job'[i].todo = {}
<1>1. job[i] \in Job
  BY DEF Typed
<1>2. Empty("failed").at = "failed" /\ Empty("ok").at = "ok"
      /\ Empty("failed").todo = {} /\ Empty("ok").todo = {}
  BY DEF Empty
<1>3. ASSUME job'[i].merged = job[i].merged PROVE Current(i)' = Current(i)
  BY <1>3 DEF Current
<1>4. \A p \in {"files", "override", "up", "record"} :
          LET r == [job[i] EXCEPT !.at = p]
          IN  r.at = p /\ r.merged = job[i].merged /\ r.sha = job[i].sha
  BY <1>1 DEF Job
<1>5. CASE Env(i) \/ Note(i) \/ Override(i) \/ Up(i)
  <2>1. PICK p \in {"files", "override", "up", "record"} :
           job'[i] = Empty("failed") \/ job'[i] = [job[i] EXCEPT !.at = p]
    BY <1>5, After
  <2>. QED BY <1>2, <1>3, <1>4, <2>1
<1>6. CASE Read(i) \/ Turn(i)
  <2>1. CASE Read(i)
    <3>1. LET r == [job[i] EXCEPT !.at = "put", !.prior = manifest, !.todo = Current(i)]
          IN  r.at = "put" /\ r.merged = job[i].merged /\ r.sha = job[i].sha
      BY <1>1 DEF Job
    <3>. QED BY <1>3, <2>1, <3>1, After
  <2>2. CASE Turn(i)
    <3>1. LET r == [job[i] EXCEPT !.at = "sweep", !.todo = Stale(i)]
          IN  r.at = "sweep" /\ r.merged = job[i].merged /\ r.sha = job[i].sha
      BY <1>1 DEF Job
    <3>. QED BY <1>3, <2>2, <3>1, After
  <2>. QED BY <1>6, <2>1, <2>2
<1>7. CASE Put(i) \/ Sweep(i)
  <2>1. PICK f \in job[i].todo : job'[i] = [job[i] EXCEPT !.todo = job[i].todo \ {f}]
    BY <1>7, After
  <2>2. job[i].at \in {"put", "sweep"}
    BY <1>7 DEF Put, Sweep
  <2>. QED BY <1>1, <1>3, <2>1, <2>2 DEF Job
<1>8. CASE Record(i) \/ Fail(i)
  BY <1>2, <1>8, After
<1>9. CASE Drop(i)
  BY <1>2, <1>3, <1>9, After DEF Threaded
<1>. QED BY <1>4, <1>5, <1>6, <1>7, <1>8, <1>9 DEF Acts

LEMMA InvActs ==
    ASSUME Inv, NEW i \in Injectors, Acts(i)
    PROVE  Inv'
<1>1. Typed /\ job[i] \in Job /\ Sorted(i)
  BY DEF Inv, Typed
<1>2. Works(i) /\ Ends(i)'
  BY <1>1, ActsWork
<1>3. Empty("failed").at = "failed" /\ Empty("ok").at = "ok"
  BY DEF Empty
<1>4. stored' = stored /\ declared' = declared
  <2>1. Env(i) \/ Read(i) \/ Put(i) \/ Turn(i) \/ Sweep(i) \/ Note(i) => stored' = stored /\ declared' = declared
    BY DEF Env, Read, Put, Turn, Sweep, Note, registry
  <2>2. Override(i) \/ Up(i) \/ Record(i) \/ Fail(i) \/ Drop(i) => stored' = stored /\ declared' = declared
    BY DEF Override, Up, Record, Fail, Drop, registry
  <2>. QED BY <2>1, <2>2 DEF Acts
<1>5. Typed'
  <2>1. /\ (job \in [Injectors -> Job])' /\ (calm \in SUBSET Injectors)' /\ (spent \in [Kinds -> Nat])'
        /\ (gone \subseteq {j \in Injectors : job[j].at \in Threaded})'
    BY <1>1, <1>2, WorksAlone DEF Works, Inv, Typed
  <2>2. \A j \in Injectors : Ends(j)'
    BY <1>2, Others
  <2>3. (disk \in [Names -> Values \cup {None}] /\ manifest \in SUBSET Files)'
    BY <1>1, TreeTyped
  <2>4. commit' \in Commits
    <3>1. Env(i) \/ Read(i) \/ Put(i) \/ Turn(i) \/ Sweep(i) \/ Note(i) => commit' = commit
      BY DEF Env, Read, Put, Turn, Sweep, Note, registry
    <3>2. Override(i) \/ Up(i) \/ Fail(i) \/ Drop(i) => commit' = commit
      BY DEF Override, Up, Fail, Drop, registry
    <3>3. Record(i) => commit' \in Commits
      BY <1>1 DEF Record, Typed, Commits
    <3>. QED BY <1>1, <3>1, <3>2, <3>3 DEF Acts, Typed
  <2>. QED BY <1>1, <1>4, <2>1, <2>2, <2>3, <2>4 DEF Typed
<1>6. Sorted(i)'
  <2>1. CASE Read(i)
    <3>1. job'[i].at = "put" /\ job'[i].todo = Current(i) /\ job'[i].merged = job[i].merged
      BY <1>1, <2>1, After DEF Job
    <3>. QED BY <3>1 DEF Sorted, At, Current
  <2>2. CASE Turn(i)
    <3>1. /\ job'[i].at = "sweep" /\ job'[i].todo = Stale(i) /\ job'[i].merged = job[i].merged
          /\ job'[i].prior = job[i].prior
      BY <1>1, <2>2, After DEF Job
    <3>. QED BY <3>1 DEF Sorted, At, Current, Stale
  <2>3. CASE Put(i) \/ Sweep(i) \/ Drop(i)
    <3>1. \/ job'[i].at = "failed"
          \/ /\ job'[i].at = job[i].at /\ job'[i].merged = job[i].merged
             /\ job'[i].prior = job[i].prior /\ job'[i].todo \subseteq job[i].todo
      <4>1. CASE Put(i) \/ Sweep(i)
        <5>1. PICK f \in job[i].todo : job'[i] = [job[i] EXCEPT !.todo = job[i].todo \ {f}]
          BY <1>1, <4>1, After
        <5>. QED BY <1>1, <5>1 DEF Job
      <4>2. CASE Drop(i)
        BY <1>1, <1>3, <4>2, After
      <4>. QED BY <2>3, <4>1, <4>2
    <3>. QED BY <1>1, <3>1 DEF Sorted, At, Current, Stale
  <2>4. CASE Env(i) \/ Note(i) \/ Override(i) \/ Up(i) \/ Record(i) \/ Fail(i)
    <3>1. job'[i].at \notin {"put", "sweep"}
      BY <1>1, <2>4, AfterAt
    <3>. QED BY <3>1 DEF Sorted, At
  <2>. QED BY <2>1, <2>2, <2>3, <2>4 DEF Acts
<1>7. ASSUME i \in Deploys PROVE Tells(i)'
  <2>1. Tells(i) /\ job[i].sha = i /\ calm' = calm
    BY <1>2, <1>7 DEF Inv, Tells, Works
  <2>2. i \in Active' => job'[i].sha = i
    BY <1>1, <2>1, KeepsMerged DEF Active
  <2>3. job'[i].at = "up" => override' = i
    <3>1. CASE Override(i)
      BY <2>1, <3>1 DEF Override
    <3>2. CASE ~Override(i)
      <4>1. job'[i].at # "up"
        BY <1>1, <3>2, AfterAt DEF Acts, Threaded
      <4>. QED BY <4>1
    <3>. QED BY <3>1, <3>2
  <2>4. i \in calm /\ job'[i].at = "record" => running'.sha = i
    <3>1. CASE Up(i)
      <4>1. running' = [env |-> [v \in Vars |-> disk[v]], sha |-> override] /\ At(i) = "up"
        BY <3>1 DEF Up, At
      <4>. QED BY <2>1, <4>1 DEF Tells
    <3>2. CASE ~Up(i)
      <4>1. job'[i].at # "record"
        BY <1>1, <3>2, AfterAt DEF Acts, Threaded
      <4>. QED BY <4>1
    <3>. QED BY <3>1, <3>2
  <2>. QED BY <2>1, <2>2, <2>3, <2>4 DEF Tells, At
<1>8. \A j \in Injectors \ {i} : Sorted(j)' /\ (j \in Deploys => Tells(j)')
  BY <1>2, Others
<1>9. (\A j \in Injectors : Sorted(j))' /\ (\A d \in Deploys : Tells(d))'
  BY <1>6, <1>7, <1>8 DEF Injectors
<1>. QED BY <1>2, <1>5, <1>9, Others DEF Inv

LEMMA InvLoad ==
    ASSUME Inv, NEW i \in Injectors, Load(i)
    PROVE  Inv'
<1>1. Typed /\ job[i] \in Job
  BY DEF Inv, Typed
<1>2. Works(i) /\ Ends(i)'
  BY <1>1, LoadTyped
<1>3. Typed'
  <2>1. /\ (job \in [Injectors -> Job])' /\ (calm \in SUBSET Injectors)' /\ (spent \in [Kinds -> Nat])'
        /\ (gone \subseteq {j \in Injectors : job[j].at \in Threaded})'
    BY <1>1, <1>2, WorksAlone DEF Works, Inv, Typed
  <2>2. \A j \in Injectors : Ends(j)'
    BY <1>2, Others
  <2>3. UNCHANGED <<stored, declared, commit, disk, manifest>>
    BY DEF Load, registry, tree
  <2>. QED BY <1>1, <2>1, <2>2, <2>3 DEF Typed
<1>4. /\ job'[i].at \in {"load", "override", "env", "failed"}
      /\ job'[i].at # "failed" => job'[i].sha = job[i].sha
  <2>. DEFINE l == Head(job[i].layers)
              then == IF l # Key THEN "load"
                      ELSE IF i \in Deploys /\ Over(i, l) = Nothing THEN "override" ELSE "env"
              r == [job[i] EXCEPT !.at = then, !.layers = Tail(job[i].layers), !.merged = Over(i, l)]
  <2>1. job'[i] = IF l # Key /\ stored[l].names = {} THEN Empty("failed") ELSE r
    BY <1>1 DEF Load, Typed
  <2>2. r.at = then /\ r.sha = job[i].sha
    <3>. HIDE DEF then, l
    <3>. QED BY <1>1 DEF Job
  <2>3. Empty("failed").at = "failed"
    BY DEF Empty
  <2>4. then \in {"load", "override", "env"}
    OBVIOUS
  <2>. HIDE DEF r, then, l
  <2>. QED BY <2>1, <2>2, <2>3, <2>4
<1>5. Sorted(i)'
  BY <1>4 DEF Sorted, At
<1>6. ASSUME i \in Deploys PROVE Tells(i)'
  <2>1. i \in Active /\ Tells(i)
    BY <1>2, <1>6 DEF Works, Inv
  <2>. QED BY <1>4, <2>1 DEF Tells, At, Active
<1>7. \A j \in Injectors \ {i} : Sorted(j)' /\ (j \in Deploys => Tells(j)')
  BY <1>2, Others
<1>8. (\A j \in Injectors : Sorted(j))' /\ (\A d \in Deploys : Tells(d))'
  BY <1>5, <1>6, <1>7 DEF Injectors
<1>. QED BY <1>2, <1>3, <1>8, Others DEF Inv

\* Where no injector is calm that was not, and no job goes on.
LEMMA InvEdit ==
    ASSUME Inv, NEW l \in Layers, Edit(l)
    PROVE  Inv'
<1>1. /\ UNCHANGED <<declared, commit, disk, manifest, job, gone, override, running>>
      /\ calm' = calm \ Active /\ "edit" \in Kinds
  BY DEF Edit, registry, tree, stack, Kinds
<1>2. spent' \in [Kinds -> Nat] /\ spent'["overlap"] = spent["overlap"]
  BY SpendTyped DEF Edit, Inv, Kinds
<1>3. stored' \in [Layers -> [push : Nat, names : SUBSET Names]]
  <2>1. PICK v \in [push : Nat, names : SUBSET Names] : stored' = [stored EXCEPT ![l] = v]
    <3>1. CASE \E names \in Bundles : stored' = [stored EXCEPT ![l] = [push |-> spent'["edit"], names |-> names]]
      BY <1>1, <1>2, <3>1, FilesAssumption
    <3>2. CASE stored' = [stored EXCEPT ![l] = [push |-> 0, names |-> {}]]
      BY <3>2
    <3>. QED BY <3>1, <3>2 DEF Edit
  <2>. QED BY <2>1 DEF Inv, Typed
<1>4. Active' = Active
  BY <1>1 DEF Active
<1>5. Typed'
  BY <1>1, <1>2, <1>3 DEF Inv, Typed, Ends
<1>6. Alone'
  BY <1>1, <1>2, <1>4 DEF Inv, Alone
<1>7. (\A j \in Injectors : Sorted(j))'
  BY <1>1 DEF Inv, Sorted, At, Current, Stale
<1>8. (\A d \in Deploys : Tells(d))'
  BY <1>1, <1>4 DEF Inv, Tells, At
<1>. QED BY <1>5, <1>6, <1>7, <1>8 DEF Inv

LEMMA InvStart ==
    ASSUME Inv, NEW i \in Injectors, NEW groups \in Stacks, NEW c \in Commits,
           Start(i, groups, c), declared' \in Stacks, i \in Deploys => c = i
    PROVE  Inv'
<1>. DEFINE r == [Empty("load") EXCEPT !.layers = Append(groups, Key), !.sha = c]
<1>1. /\ job' = [job EXCEPT ![i] = r] /\ job[i].at = "idle"
      /\ UNCHANGED <<stored, commit, disk, manifest, gone, override, running>>
  BY DEF Start, tree, stack
<1>2. groups \in Seq(Groups) /\ Key \notin Groups
  BY FilesAssumption
<1>3. /\ r \in Job /\ r.at = "load" /\ r.layers = Append(groups, Key) /\ r.sha = c
  <2>1. Append(groups, Key) \in Seq(Layers)
    <3>1. groups \in Seq(Layers) /\ Key \in Layers
      BY <1>2 DEF Layers
    <3>. QED BY <3>1
  <2>2. Empty("load") \in Job /\ Empty("load").at = "load"
    BY EmptyIsJob DEF Stages
  <2>. HIDE DEF r
  <2>3. [Empty("load") EXCEPT !.layers = Append(groups, Key), !.sha = c] \in Job
    BY <2>1, <2>2 DEF Job
  <2>. QED BY <2>2, <2>3 DEF r, Empty
<1>4. /\ job' \in [Injectors -> Job] /\ job'[i] = r
      /\ \A j \in Injectors \ {i} : job'[j] = job[j]
  BY <1>1, <1>3 DEF Inv, Typed
<1>5. i \notin Active /\ i \notin calm /\ i \notin gone
  BY <1>1 DEF Active, Inv, Alone, Typed, Threaded
<1>6. Active' = Active \cup {i}
  BY <1>3, <1>4 DEF Active
<1>7. /\ spent' \in [Kinds -> Nat]
      /\ IF Active = {} THEN spent' = spent ELSE spent'["overlap"] # 0
      /\ calm' = IF Active = {} THEN calm \cup {i} ELSE calm \ Active
  BY SpendTyped DEF Start, Inv, Typed, Kinds
<1>8. Ends(i)'
  <2>1. /\ Append(groups, Key) # <<>>
        /\ \A k \in DOMAIN Append(groups, Key) :
              Append(groups, Key)[k] = Key <=> k = Len(Append(groups, Key))
    BY <1>2
  <2>. QED BY <1>3, <1>4, <2>1 DEF Ends
<1>9. Typed'
  BY <1>1, <1>4, <1>5, <1>7, <1>8 DEF Inv, Typed, Ends
<1>10. Alone'
  <2>1. \A e \in calm : job[e].at # "idle" /\ e \in Injectors
    BY DEF Inv, Alone, Typed
  <2>2. \A e \in calm' : job'[e].at # "idle"
    BY <1>3, <1>4, <1>7, <2>1
  <2>3. \A e \in calm' : e \in Active' => Active' = {e}
    BY <1>5, <1>6, <1>7
  <2>4. spent'["overlap"] = 0 => \A a, b \in Active' : a = b
    BY <1>6, <1>7
  <2>. QED BY <2>2, <2>3, <2>4 DEF Alone
<1>11. (\A j \in Injectors : Sorted(j))'
  <2>1. Sorted(i)'
    BY <1>3, <1>4 DEF Sorted, At
  <2>2. \A j \in Injectors \ {i} : Sorted(j)'
    BY <1>4 DEF Inv, Sorted, At, Current, Stale
  <2>. QED BY <2>1, <2>2
<1>12. (\A d \in Deploys : Tells(d))'
  <2>1. i \in Deploys => Tells(i)'
    BY <1>3, <1>4 DEF Tells, At
  <2>2. \A j \in Deploys \ {i} : Tells(j)'
    <3>. TAKE j \in Deploys \ {i}
    <3>1. j \in Injectors \ {i} /\ job'[j] = job[j] /\ Tells(j)
      BY <1>4 DEF Injectors, Inv
    <3>2. (j \in Active' => j \in Active) /\ (j \in calm' => j \in calm)
      BY <1>6, <1>7
    <3>. QED BY <1>1, <3>1, <3>2 DEF Tells, At
  <2>. QED BY <2>1, <2>2
<1>. QED BY <1>9, <1>10, <1>11, <1>12 DEF Inv

LEMMA InvCrash ==
    ASSUME Inv, Crash
    PROVE  Inv'
<1>1. /\ UNCHANGED <<stored, declared, commit, disk, manifest, calm>> /\ gone' = {}
      /\ job' = [i \in Injectors |-> IF i \in Active THEN Empty("failed") ELSE job[i]]
  BY DEF Crash, registry, tree, observed
<1>2. spent' \in [Kinds -> Nat] /\ spent'["overlap"] = spent["overlap"]
  BY SpendTyped DEF Crash, Inv, Kinds
<1>3. Empty("failed") \in Job /\ Empty("failed").at = "failed"
  BY EmptyIsJob DEF Stages
<1>4. job' \in [Injectors -> Job] /\ \A i \in Injectors : job'[i].at \in {"idle", "ok", "failed"}
  BY <1>1, <1>3 DEF Inv, Typed, Active
<1>5. \A i \in Injectors : job'[i].at = "idle" => job[i].at = "idle"
  BY <1>1, <1>3
<1>6. Active' = {}
  BY <1>4 DEF Active
<1>7. Typed'
  BY <1>1, <1>2, <1>4 DEF Inv, Typed, Ends
<1>8. Alone'
  BY <1>1, <1>2, <1>5, <1>6 DEF Inv, Alone, Typed
<1>9. (\A j \in Injectors : Sorted(j))'
  BY <1>4 DEF Sorted, At
<1>10. (\A d \in Deploys : Tells(d))'
  BY <1>4, <1>6 DEF Tells, At, Injectors
<1>. QED BY <1>7, <1>8, <1>9, <1>10 DEF Inv
-----------------------------------------------------------------------------
LEMMA InvInit == Init => Inv
<1>. SUFFICES ASSUME Init PROVE Inv
  OBVIOUS
<1>1. Empty("idle") \in Job /\ Empty("idle").at = "idle"
  BY EmptyIsJob DEF Stages
<1>2. \A i \in Injectors : job[i].at = "idle"
  BY <1>1 DEF Init
<1>3. Active = {} /\ calm = {} /\ gone = {}
  BY <1>2 DEF Active, Init
<1>4. Typed
  BY <1>1, <1>2, <1>3 DEF Init, Typed, Nothing, Ends, Commits
<1>5. Alone
  BY <1>3 DEF Alone
<1>6. \A i \in Injectors : Sorted(i)
  BY <1>2 DEF Sorted, At
<1>7. \A d \in Deploys : Tells(d)
  BY <1>2, <1>3 DEF Tells, At, Injectors
<1>. QED BY <1>4, <1>5, <1>6, <1>7 DEF Inv

LEMMA InvStep ==
    ASSUME Inv, [Next]_vars
    PROVE  Inv'
<1>1. ASSUME NEW l \in Layers, Edit(l) PROVE Inv'
  BY <1>1, InvEdit
<1>2. ASSUME NEW d \in Deploys, Deploy(d) PROVE Inv'
  <2>1. PICK groups \in Stacks : Start(d, groups, d) /\ declared' = groups
    BY <1>2 DEF Deploy
  <2>. QED BY <2>1, InvStart DEF Injectors, Commits
<1>3. ASSUME NEW a \in Applies, Apply(a) PROVE Inv'
  <2>1. Start(a, declared, commit) /\ declared' = declared /\ declared \in Stacks
    BY <1>3 DEF Apply, Inv, Typed
  <2>2. a \in Injectors /\ a \notin Deploys /\ commit \in Commits
    BY FilesAssumption DEF Injectors, Inv, Typed
  <2>. QED BY <2>1, <2>2, InvStart
<1>4. ASSUME NEW i \in Injectors, Load(i) \/ Acts(i) PROVE Inv'
  BY <1>4, InvLoad, InvActs
<1>5. CASE Crash
  BY <1>5, InvCrash
<1>6. CASE UNCHANGED vars
  <2>1. UNCHANGED <<stored, declared, commit, disk, manifest, override, running, job, gone, calm, spent>>
    BY <1>6 DEF vars, registry, tree, stack, observed
  <2>2. Active' = Active
    BY <2>1 DEF Active
  <2>. QED BY <2>1, <2>2 DEF Inv, Typed, Alone, Sorted, Tells, Ends, At, Current, Stale
<1>. QED BY <1>1, <1>2, <1>3, <1>4, <1>5, <1>6 DEF Next, Acts

\* A deployment that nothing disturbs has its containers told its own commit,
\* whatever was injected before it.
THEOREM ToldHolds == Spec => []Told
<1>1. Inv => Told
  <2>1. ASSUME Inv, NEW d \in Deploys \cap calm, job[d].at = "record" PROVE running.sha = d
    BY <2>1 DEF Inv, Tells, At
  <2>. QED BY <2>1 DEF Told
<1>. QED BY <1>1, InvInit, InvStep, PTL DEF Spec

\* While an injector that nothing disturbs works, no secret that was there and
\* still is to be is missing, in whatever order it writes and deletes.
THEOREM NothingMissing == Spec => NeverMissing
<1>1. ASSUME Inv, Next, NEW i \in calm \cap calm', job[i].at \in Threaded,
             NEW n \in Names, job[i].merged[n] # None, disk[n] # None
      PROVE  disk'[n] # None
  <2>1. i \in Injectors /\ i \in Active /\ Active = {i} /\ Sorted(i) /\ job[i] \in Job
    <3>1. i \in Injectors /\ i \in calm /\ job[i] \in Job /\ Sorted(i)
      BY <1>1 DEF Inv, Typed
    <3>2. i \in Active
      BY <1>1, <3>1 DEF Active, Threaded
    <3>3. Active = {i}
      BY <1>1, <3>1, <3>2 DEF Inv, Alone
    <3>. QED BY <3>1, <3>2, <3>3
  <2>2. /\ disk \in [Names -> Values \cup {None}] /\ job[i].todo \in SUBSET Files
        /\ Vars \cap Files = {}
    <3>1. job[i].todo \in SUBSET Files
      BY <2>1, JobFields
    <3>. QED BY <1>1, <3>1, FilesAssumption DEF Inv, Typed
  <2>3. CASE Env(i)
    <3>1. disk' = [m \in Names |-> IF m \in Vars THEN job[i].merged[m] ELSE disk[m]]
      BY <2>3 DEF Env
    <3>2. disk'[n] = IF n \in Vars THEN job[i].merged[n] ELSE disk[n]
      BY <3>1
    <3>. QED BY <1>1, <3>2
  <2>4. CASE Put(i)
    <3>1. PICK f \in job[i].todo : disk' = [disk EXCEPT ![f] = job[i].merged[f]]
      BY <2>4 DEF Put
    <3>. QED BY <1>1, <2>2, <3>1
  <2>5. CASE Sweep(i)
    <3>1. PICK f \in job[i].todo : disk' = [disk EXCEPT ![f] = None]
      BY <2>5 DEF Sweep
    <3>2. f \notin Current(i) /\ f \in Files
      BY <2>1, <2>2, <2>5, <3>1 DEF Sweep, Sorted, At, Stale
    <3>3. f # n
      BY <1>1, <3>2 DEF Current
    <3>. QED BY <1>1, <2>2, <3>1, <3>3
  <2>6. ASSUME NEW j \in Injectors, Env(j) \/ Put(j) \/ Sweep(j) PROVE j = i
    <3>1. j \in Active
      BY <2>6 DEF Env, Put, Sweep, Active
    <3>. QED BY <2>1, <3>1
  <2>7. CASE disk' = disk
    BY <1>1, <2>7
  <2>8. disk' = disk \/ \E j \in Injectors : Env(j) \/ Put(j) \/ Sweep(j)
    <3>1. ASSUME NEW l \in Layers, Edit(l) PROVE disk' = disk
      BY <3>1 DEF Edit, tree
    <3>2. ASSUME NEW d \in Injectors, Deploy(d) \/ Apply(d) PROVE disk' = disk
      BY <3>2 DEF Deploy, Apply, Start, tree
    <3>3. Crash => disk' = disk
      BY DEF Crash, tree
    <3>4. ASSUME NEW j \in Injectors, Load(j) \/ Read(j) \/ Turn(j) \/ Note(j) PROVE disk' = disk
      BY <3>4 DEF Load, Read, Turn, Note, tree
    <3>5. ASSUME NEW j \in Injectors, Override(j) \/ Up(j) \/ Record(j) \/ Fail(j) \/ Drop(j)
          PROVE  disk' = disk
      BY <3>5 DEF Override, Up, Record, Fail, Drop, tree
    <3>. QED BY <1>1, <3>1, <3>2, <3>3, <3>4, <3>5 DEF Next, Injectors
  <2>. QED BY <2>3, <2>4, <2>5, <2>6, <2>7, <2>8
<1>2. ASSUME Inv, UNCHANGED vars, NEW i \in calm, NEW n \in Names, disk[n] # None PROVE disk'[n] # None
  BY <1>2 DEF vars, tree
<1>3. Inv /\ [Next]_vars => [\A i \in calm \cap calm' : job[i].at \in Threaded =>
         \A n \in Names : job[i].merged[n] # None /\ disk[n] # None => disk'[n] # None]_vars
  BY <1>1
<1>. QED BY <1>3, InvInit, InvStep, PTL DEF Spec, NeverMissing
-----------------------------------------------------------------------------
(* The layers. *)

Order == Append(declared, Key)

\* v is what the first m layers give for n.
UpTo(m, n, v) ==
    \/ v = None /\ \A k \in 1..m : n \notin stored[Order[k]].names
    \/ \E k \in 1..m : /\ n \in stored[Order[k]].names
                      /\ v = <<Order[k], stored[Order[k]].push>>
                      /\ \A j \in (k + 1)..m : n \notin stored[Order[j]].names

LEMMA UpToAll ==
    ASSUME NEW n, NEW v, declared \in Seq(Groups), UpTo(Len(declared) + 1, n, v)
    PROVE  v = Effective(n)
<1>. DEFINE has == {k \in DOMAIN Order : n \in stored[Order[k]].names}
            last == CHOOSE k \in has : \A j \in has : j <= k
<1>1. DOMAIN Order = 1..(Len(declared) + 1) /\ Len(declared) \in Nat
  BY DEF Order
<1>2. Effective(n) = IF has = {} THEN None ELSE <<Order[last], stored[Order[last]].push>>
  BY DEF Effective, Order
<1>3. CASE v = None /\ \A k \in 1..(Len(declared) + 1) : n \notin stored[Order[k]].names
  BY <1>1, <1>2, <1>3
<1>4. CASE \E k \in 1..(Len(declared) + 1) :
              /\ n \in stored[Order[k]].names
              /\ v = <<Order[k], stored[Order[k]].push>>
              /\ \A j \in (k + 1)..(Len(declared) + 1) : n \notin stored[Order[j]].names
  <2>1. PICK k \in 1..(Len(declared) + 1) :
              /\ n \in stored[Order[k]].names
              /\ v = <<Order[k], stored[Order[k]].push>>
              /\ \A j \in (k + 1)..(Len(declared) + 1) : n \notin stored[Order[j]].names
    BY <1>4
  <2>2. k \in has /\ has \subseteq 1..(Len(declared) + 1)
    BY <1>1, <2>1
  <2>3. \A j \in has : j <= k
    <3>. TAKE j \in has
    <3>1. n \in stored[Order[j]].names /\ j \in 1..(Len(declared) + 1)
      BY <1>1
    <3>2. j \notin (k + 1)..(Len(declared) + 1)
      BY <2>1, <3>1
    <3>. HIDE DEF has
    <3>. QED BY <1>1, <3>1, <3>2
  <2>4. last \in has /\ \A j \in has : j <= last
    <3>. HIDE DEF has
    <3>. QED BY <2>2, <2>3
  <2>5. last = k
    <3>. HIDE DEF has, last
    <3>. QED BY <1>1, <2>2, <2>3, <2>4
  <2>. HIDE DEF last
  <2>. QED BY <1>2, <2>1, <2>2, <2>5
<1>. QED BY <1>3, <1>4 DEF UpTo

\* One layer more.
LEMMA UpToNext ==
    ASSUME NEW m \in Nat, NEW n, NEW v, UpTo(m, n, v)
    PROVE  UpTo(m + 1, n, IF n \in stored[Order[m + 1]].names
                          THEN <<Order[m + 1], stored[Order[m + 1]].push>> ELSE v)
<1>1. CASE n \in stored[Order[m + 1]].names
  <2>1. m + 1 \in 1..(m + 1) /\ (m + 2)..(m + 1) = {}
    OBVIOUS
  <2>. QED BY <1>1, <2>1 DEF UpTo
<1>2. CASE n \notin stored[Order[m + 1]].names
  <2>1. CASE v = None /\ \A k \in 1..m : n \notin stored[Order[k]].names
    <3>1. \A k \in 1..(m + 1) : k \in 1..m \/ k = m + 1
      OBVIOUS
    <3>. QED BY <1>2, <2>1, <3>1 DEF UpTo
  <2>2. CASE \E k \in 1..m : /\ n \in stored[Order[k]].names
                            /\ v = <<Order[k], stored[Order[k]].push>>
                            /\ \A j \in (k + 1)..m : n \notin stored[Order[j]].names
    <3>1. PICK k \in 1..m : /\ n \in stored[Order[k]].names
                           /\ v = <<Order[k], stored[Order[k]].push>>
                           /\ \A j \in (k + 1)..m : n \notin stored[Order[j]].names
      BY <2>2
    <3>2. k \in 1..(m + 1) /\ \A j \in (k + 1)..(m + 1) : j \in (k + 1)..m \/ j = m + 1
      OBVIOUS
    <3>3. \A j \in (k + 1)..(m + 1) : n \notin stored[Order[j]].names
      BY <1>2, <3>1, <3>2
    <3>. QED BY <1>2, <3>1, <3>2, <3>3 DEF UpTo
  <2>. QED BY <2>1, <2>2 DEF UpTo
<1>. QED BY <1>1, <1>2

LEMMA SameLayers ==
    ASSUME UNCHANGED <<stored, declared>>
    PROVE  /\ \A n : Effective(n)' = Effective(n)
           /\ \A m, n, v : UpTo(m, n, v)' <=> UpTo(m, n, v)
           /\ Order' = Order
BY DEF Effective, UpTo, Order
-----------------------------------------------------------------------------
(* What an injector leaves. *)

Past == {"env", "files", "put", "sweep", "override", "up", "record"}

\* What it has read, and what of it is in the tree and in the containers.
Loading(i) == At(i) = "load" =>
    \E m \in 0..Len(declared) :
        /\ Len(job[i].layers) = Len(declared) + 1 - m
        /\ \A k \in 1..Len(job[i].layers) : job[i].layers[k] = Order[m + k]
        /\ \A n \in Names : UpTo(m, n, job[i].merged[n])

Loaded(i) == At(i) \in Past => \A n \in Names : job[i].merged[n] = Effective(n)

VarsIn(i) == At(i) \in {"files", "put", "sweep"} \/ Written(i) =>
                \A v \in Vars : disk[v] = job[i].merged[v]

FilesIn(i) ==
    /\ At(i) = "put" => \A f \in Current(i) \ job[i].todo : disk[f] = job[i].merged[f]
    /\ At(i) = "sweep" \/ Written(i) => \A f \in Current(i) : disk[f] = job[i].merged[f]

Runs(i) == At(i) = "record" => \A v \in Vars : running.env[v] = disk[v]

Leaves(i) == Loading(i) /\ Loaded(i) /\ VarsIn(i) /\ FilesIn(i) /\ Runs(i)

\* Where injectors do not overlap: what the manifest does not tell is known.
Known == \A f \in Files : disk[f] # None => f \in manifest \/ f \in stray

Sweeps(i) ==
    /\ At(i) \in {"put", "sweep"} => job[i].prior = manifest
    /\ At(i) = "sweep" => \A f \in Stale(i) \ job[i].todo : disk[f] = None
    /\ Written(i) => manifest = Current(i)

Left == /\ \A i \in calm : i \in Active => Leaves(i)
        /\ spent["overlap"] = 0 => Known /\ \A i \in Active : Sweeps(i)

\* A step that no injector but i, or none, goes by.
LEMMA OnlyItsOwn ==
    ASSUME Inv, Left, NEW i \in Injectors, Works(i),
           i \in calm /\ i \in Active' => Leaves(i)',
           spent["overlap"] = 0 => Known' /\ (i \in Active' => Sweeps(i)')
    PROVE  Left'
<1>1. /\ \A j \in calm : j \in Active => j = i
      /\ Active' \subseteq Active /\ calm' = calm
      /\ spent'["overlap"] = spent["overlap"]
  BY WorksAlone DEF Inv, Works
<1>2. spent["overlap"] = 0 => \A j \in Active : j = i
  BY DEF Inv, Alone, Works
<1>3. (\A j \in calm : j \in Active => Leaves(j))'
  BY <1>1
<1>4. (spent["overlap"] = 0 => Known /\ \A j \in Active : Sweeps(j))'
  BY <1>1, <1>2
<1>. QED BY <1>3, <1>4 DEF Left

LEMMA LeftLoad ==
    ASSUME Inv, Left, NEW i \in Injectors, Load(i)
    PROVE  Left'
<1>. DEFINE l == Head(job[i].layers)
            then == IF l # Key THEN "load"
                    ELSE IF i \in Deploys /\ Over(i, l) = Nothing THEN "override" ELSE "env"
            r == [job[i] EXCEPT !.at = then, !.layers = Tail(job[i].layers), !.merged = Over(i, l)]
<1>1. /\ Works(i) /\ job[i] \in Job /\ job[i].at = "load" /\ Ends(i)
      /\ UNCHANGED <<stored, declared, disk, manifest, stray, running>>
  BY LoadTyped DEF Inv, Typed, Load, registry, tree, stack, observed
<1>2. declared \in Seq(Groups)
  BY FilesAssumption DEF Inv, Typed
<1>3. job'[i] = IF l # Key /\ stored[l].names = {} THEN Empty("failed") ELSE r
  BY DEF Load, Inv, Typed
<1>4. Known => Known'
  BY <1>1 DEF Known
<1>5. CASE job'[i] = Empty("failed")
  <2>1. i \notin Active'
    BY <1>5 DEF Active, Empty
  <2>. QED BY <1>1, <1>4, <2>1, OnlyItsOwn DEF Left
<1>6. CASE job'[i] = r
  <2>1. r.at = then /\ r.layers = Tail(job[i].layers) /\ r.merged = Over(i, l)
    <3>. HIDE DEF then, l
    <3>. QED BY <1>1 DEF Job
  <2>2. then \notin {"files", "put", "sweep", "up", "record"}
    OBVIOUS
  <2>3. Written(i)' = FALSE
    <3>1. then = "override" => i \in Deploys /\ Over(i, l) = Nothing
      OBVIOUS
    <3>2. i \in Deploys => i \notin Applies
      BY FilesAssumption
    <3>. HIDE DEF then, l, r
    <3>. QED BY <1>6, <2>1, <2>2, <3>1, <3>2 DEF Written
  <2>4. (VarsIn(i) /\ FilesIn(i) /\ Runs(i) /\ Sweeps(i))'
    <3>. HIDE DEF then, l, r
    <3>. QED BY <1>6, <2>1, <2>2, <2>3 DEF VarsIn, FilesIn, Runs, Sweeps, At
  <2>5. ASSUME i \in calm PROVE (Loading(i) /\ Loaded(i))'
    <3>1. Loading(i) /\ i \in Active
      BY <1>1, <2>5 DEF Left, Leaves, Works
    <3>2. PICK m \in 0..Len(declared) :
              /\ Len(job[i].layers) = Len(declared) + 1 - m
              /\ \A k \in 1..Len(job[i].layers) : job[i].layers[k] = Order[m + k]
              /\ \A n \in Names : UpTo(m, n, job[i].merged[n])
      BY <1>1, <3>1 DEF Loading, At
    <3>3. /\ job[i].layers \in Seq(Layers) /\ job[i].layers # <<>>
          /\ Len(declared) \in Nat
      BY <1>1, <1>2, JobFields DEF Ends
    <3>4. l = Order[m + 1]
      BY <3>2, <3>3
    <3>5. \A n \in Names : UpTo(m + 1, n, Over(i, l)[n])
      <4>1. \A n \in Names : Over(i, l)[n] = IF n \in stored[Order[m + 1]].names
                     THEN <<Order[m + 1], stored[Order[m + 1]].push>> ELSE job[i].merged[n]
        BY <3>4 DEF Over
      <4>. QED BY <3>2, <4>1, UpToNext
    <3>6. l = Key <=> m = Len(declared)
      <4>1. l = job[i].layers[1] /\ 1 \in DOMAIN job[i].layers
        BY <3>3
      <4>2. l = Key <=> Len(job[i].layers) = 1
        BY <1>1, <4>1 DEF Ends
      <4>. QED BY <3>2, <3>3, <4>2
    <3>7. Loading(i)'
      <4>1. CASE then = "load"
        <5>1. m + 1 \in 0..Len(declared)
          BY <3>2, <3>3, <3>6, <4>1
        <5>2. Len(Tail(job[i].layers)) = Len(declared) + 1 - (m + 1)
          BY <3>2, <3>3
        <5>3. \A k \in 1..Len(Tail(job[i].layers)) : Tail(job[i].layers)[k] = Order[(m + 1) + k]
          BY <3>2, <3>3
        <5>. HIDE DEF then, l, r
        <5>. QED BY <1>1, <1>6, <2>1, <3>5, <5>1, <5>2, <5>3, SameLayers DEF Loading, At
      <4>2. CASE then # "load"
        <5>. HIDE DEF then, l, r
        <5>. QED BY <1>6, <2>1, <4>2 DEF Loading, At
      <4>. QED BY <4>1, <4>2
    <3>8. Loaded(i)'
      <4>1. CASE then # "load"
        <5>1. m = Len(declared)
          BY <3>6, <4>1
        <5>2. \A n \in Names : Over(i, l)[n] = Effective(n)
          BY <1>2, <3>5, <5>1, UpToAll
        <5>. HIDE DEF then, l, r
        <5>. QED BY <1>1, <1>6, <2>1, <5>2, SameLayers DEF Loaded, At
      <4>2. CASE then = "load"
        <5>. HIDE DEF then, l, r
        <5>. QED BY <1>6, <2>1, <4>2 DEF Loaded, At, Past
      <4>. QED BY <4>1, <4>2
    <3>. QED BY <3>7, <3>8
  <2>. QED BY <1>1, <1>4, <2>4, <2>5, OnlyItsOwn DEF Left, Leaves
<1>. QED BY <1>3, <1>5, <1>6

\* A step that leaves the tree as it is, to a point further on.
LEMMA GoesOn ==
    ASSUME NEW i \in Injectors, NEW r \in Job, NEW p
    PROVE  LET q == [r EXCEPT !.at = p]
           IN  q.at = p /\ q.merged = r.merged /\ q.todo = r.todo /\ q.prior = r.prior
BY DEF Job

LEMMA LeftActs ==
    ASSUME Inv, Left, NEW i \in Injectors, Acts(i)
    PROVE  Left'
<1>1. /\ Works(i) /\ i \in Active /\ Typed /\ job[i] \in Job /\ Sorted(i)
      /\ Vars \cap Files = {}
  BY ActsWork, FilesAssumption DEF Inv, Typed, Works
<1>2. UNCHANGED <<stored, declared>>
  <2>1. Env(i) \/ Read(i) \/ Put(i) \/ Turn(i) \/ Sweep(i) \/ Note(i) => UNCHANGED <<stored, declared>>
    BY DEF Env, Read, Put, Turn, Sweep, Note, registry
  <2>2. Override(i) \/ Up(i) \/ Record(i) \/ Fail(i) \/ Drop(i) => UNCHANGED <<stored, declared>>
    BY DEF Override, Up, Record, Fail, Drop, registry
  <2>. QED BY <2>1, <2>2 DEF Acts
<1>3. /\ i \in calm => Leaves(i)
      /\ spent["overlap"] = 0 => Known /\ Sweeps(i)
  BY <1>1 DEF Left
<1>4. ASSUME i \notin Active', spent["overlap"] = 0 => Known' PROVE Left'
  BY <1>1, <1>4, OnlyItsOwn
<1>5. ASSUME job'[i].at \in {"ok", "failed"} PROVE i \notin Active'
  BY <1>5 DEF Active
<1>6. ASSUME UNCHANGED <<disk, manifest, stray>>, Known PROVE Known'
  BY <1>6 DEF Known
\* Of one that goes on after it has loaded, this is all there is to show.
<1>7. ASSUME At(i) \in Past, job'[i].at \in Past, job'[i].merged = job[i].merged,
             spent["overlap"] = 0 => Known' /\ Sweeps(i)',
             i \in calm => (VarsIn(i) /\ FilesIn(i) /\ Runs(i))'
      PROVE  Left'
  <2>1. i \in calm => Loaded(i)'
    BY <1>2, <1>3, <1>7, SameLayers DEF Leaves, Loaded, At
  <2>2. Loading(i)'
    BY <1>7 DEF Loading, At, Past
  <2>. QED BY <1>1, <1>7, <2>1, <2>2, OnlyItsOwn DEF Leaves
<1>8. CASE Env(i)
  <2>1. /\ disk' = [n \in Names |-> IF n \in Vars THEN job[i].merged[n] ELSE disk[n]]
        /\ At(i) = "env" /\ UNCHANGED <<manifest, stray>>
    BY <1>8 DEF Env, At, observed
  <2>2. Known => Known'
    BY <1>1, <2>1 DEF Known, Names
  <2>3. CASE i \in gone
    <3>1. job'[i].at = "failed"
      <4>1. job'[i] = Empty("failed")
        BY <1>1, <1>8, <2>3, After
      <4>. QED BY <4>1 DEF Empty
    <3>. QED BY <1>3, <1>4, <1>5, <2>2, <3>1
  <2>4. CASE i \notin gone
    <3>1. job'[i].at = "files" /\ job'[i].merged = job[i].merged
      <4>1. job'[i] = [job[i] EXCEPT !.at = "files"]
        BY <1>1, <1>8, <2>4, After
      <4>. QED BY <1>1, <4>1, GoesOn
    <3>2. (VarsIn(i) /\ FilesIn(i) /\ Runs(i))'
      BY <2>1, <3>1 DEF VarsIn, FilesIn, Runs, At, Written, Names
    <3>3. Sweeps(i)'
      BY <3>1 DEF Sweeps, At, Written
    <3>. QED BY <1>3, <1>7, <2>1, <2>2, <3>1, <3>2, <3>3 DEF Past
  <2>. QED BY <2>3, <2>4
<1>9. CASE Read(i)
  <2>1. At(i) = "files" /\ UNCHANGED <<disk, manifest, stray>>
    BY <1>9 DEF Read, At, tree, observed
  <2>2. /\ job'[i].at = "put" /\ job'[i].merged = job[i].merged
        /\ job'[i].todo = Current(i) /\ job'[i].prior = manifest
    BY <1>1, <1>9, After DEF Job
  <2>3. Current(i)' = Current(i)
    BY <2>2 DEF Current
  <2>4. i \in calm => (VarsIn(i) /\ FilesIn(i) /\ Runs(i))'
    BY <1>3, <2>1, <2>2, <2>3 DEF Leaves, VarsIn, FilesIn, Runs, At, Written
  <2>5. Sweeps(i)'
    BY <2>1, <2>2 DEF Sweeps, At, Written
  <2>. QED BY <1>3, <1>6, <1>7, <2>1, <2>2, <2>4, <2>5 DEF Past
<1>10. CASE Put(i)
  <2>1. PICK f \in job[i].todo : disk' = [disk EXCEPT ![f] = job[i].merged[f]]
                                /\ job' = [job EXCEPT ![i].todo = @ \ {f}]
                                /\ stray' = stray \cup {f}
    BY <1>10 DEF Put
  <2>2. At(i) = "put" /\ manifest' = manifest /\ f \in Files /\ f \in Names
    BY <1>1, <1>10, JobFields DEF Put, At, Names
  <2>3. /\ job'[i].at = "put" /\ job'[i].merged = job[i].merged
        /\ job'[i].todo = job[i].todo \ {f} /\ job'[i].prior = job[i].prior
    BY <1>1, <2>1, <2>2 DEF Typed, Job, At
  <2>4. /\ \A n \in Names \ {f} : disk'[n] = disk[n]
        /\ disk'[f] = job[i].merged[f]
    BY <1>1, <2>1, <2>2 DEF Typed
  <2>5. Current(i)' = Current(i) /\ Current(i) \subseteq Names
    BY <2>3 DEF Current, Names
  <2>6. Known => Known'
    BY <2>1, <2>2, <2>4 DEF Known, Names
  <2>7. ASSUME i \in calm PROVE (VarsIn(i) /\ FilesIn(i) /\ Runs(i))'
    <3>1. VarsIn(i) /\ FilesIn(i)
      BY <1>3, <2>7 DEF Leaves
    <3>2. VarsIn(i)'
      BY <1>1, <2>2, <2>3, <2>4, <3>1 DEF VarsIn, At, Names
    <3>3. FilesIn(i)'
      BY <2>2, <2>3, <2>4, <2>5, <3>1 DEF FilesIn, At, Written
    <3>. QED BY <2>3, <3>2, <3>3 DEF Runs, At
  <2>8. spent["overlap"] = 0 => Sweeps(i)'
    BY <1>3, <2>2, <2>3 DEF Sweeps, At, Written
  <2>. QED BY <1>3, <1>7, <2>2, <2>3, <2>6, <2>7, <2>8 DEF Past
<1>11. CASE Turn(i)
  <2>1. At(i) = "put" /\ job[i].todo = {} /\ UNCHANGED <<disk, manifest, stray>>
    BY <1>11 DEF Turn, At, tree, observed
  <2>2. /\ job'[i].at = "sweep" /\ job'[i].merged = job[i].merged
        /\ job'[i].todo = Stale(i) /\ job'[i].prior = job[i].prior
    <3>1. job'[i] = [job[i] EXCEPT !.at = "sweep", !.todo = Stale(i)]
      BY <1>1, <1>11, After
    <3>. QED BY <1>1, <3>1 DEF Job
  <2>3. Current(i)' = Current(i) /\ Stale(i)' = Stale(i)
    BY <2>2 DEF Current, Stale
  <2>4. i \in calm => (VarsIn(i) /\ FilesIn(i) /\ Runs(i))'
    BY <1>3, <2>1, <2>2, <2>3 DEF Leaves, VarsIn, FilesIn, Runs, At, Written
  <2>5. spent["overlap"] = 0 => Sweeps(i)'
    BY <1>3, <2>1, <2>2, <2>3 DEF Sweeps, At, Written
  <2>. QED BY <1>3, <1>6, <1>7, <2>1, <2>2, <2>4, <2>5 DEF Past
<1>12. CASE Sweep(i)
  <2>1. PICK f \in job[i].todo : disk' = [disk EXCEPT ![f] = None]
                                /\ job' = [job EXCEPT ![i].todo = @ \ {f}]
                                /\ stray' = stray \ {f}
    BY <1>12 DEF Sweep
  <2>2. /\ At(i) = "sweep" /\ manifest' = manifest /\ f \in Files /\ f \in Names
        /\ f \notin Current(i)
    BY <1>1, <1>12, JobFields DEF Sweep, At, Names, Sorted, Stale
  <2>3. /\ job'[i].at = "sweep" /\ job'[i].merged = job[i].merged
        /\ job'[i].todo = job[i].todo \ {f} /\ job'[i].prior = job[i].prior
    BY <1>1, <2>1, <2>2 DEF Typed, Job, At
  <2>4. /\ \A n \in Names \ {f} : disk'[n] = disk[n]
        /\ disk'[f] = None
    BY <1>1, <2>1, <2>2 DEF Typed
  <2>5. /\ Current(i)' = Current(i) /\ Current(i) \subseteq Names
        /\ Stale(i)' = Stale(i) /\ Stale(i) \subseteq Names
    BY <1>1, <2>3, JobFields DEF Current, Names, Stale
  <2>6. Known => Known'
    BY <2>1, <2>2, <2>4 DEF Known, Names
  <2>7. ASSUME i \in calm PROVE (VarsIn(i) /\ FilesIn(i) /\ Runs(i))'
    <3>1. VarsIn(i) /\ FilesIn(i)
      BY <1>3, <2>7 DEF Leaves
    <3>2. VarsIn(i)'
      BY <1>1, <2>2, <2>3, <2>4, <3>1 DEF VarsIn, At, Names
    <3>3. FilesIn(i)'
      BY <2>2, <2>3, <2>4, <2>5, <3>1 DEF FilesIn, At, Written
    <3>. QED BY <2>3, <3>2, <3>3 DEF Runs, At
  <2>8. spent["overlap"] = 0 => Sweeps(i)'
    BY <1>3, <2>2, <2>3, <2>4, <2>5 DEF Sweeps, At, Written
  <2>. QED BY <1>3, <1>7, <2>2, <2>3, <2>6, <2>7, <2>8 DEF Past
<1>13. CASE Note(i)
  <2>1. /\ At(i) = "sweep" /\ job[i].todo = {} /\ disk' = disk
        /\ manifest' = Current(i) /\ stray' = stray \ Current(i)
    BY <1>13 DEF Note, At
  <2>2. spent["overlap"] = 0 => Known'
    <3>1. ASSUME spent["overlap"] = 0, NEW f \in Files, disk[f] # None, f \notin Current(i), f \notin stray
          PROVE  FALSE
      <4>1. f \in manifest /\ job[i].prior = manifest
        BY <1>3, <2>1, <3>1 DEF Known, Sweeps
      <4>2. f \in Stale(i)
        BY <3>1, <4>1 DEF Stale
      <4>. QED BY <1>3, <2>1, <3>1, <4>2 DEF Sweeps
    <3>. QED BY <2>1, <3>1 DEF Known
  <2>3. CASE i \in gone
    <3>1. job'[i].at = "failed"
      <4>1. job'[i] = Empty("failed")
        BY <1>1, <1>13, <2>3, After
      <4>. QED BY <4>1 DEF Empty
    <3>. QED BY <1>4, <1>5, <2>2, <3>1
  <2>4. CASE i \notin gone
    <3>1. job'[i].at = "override" /\ job'[i].merged = job[i].merged
      <4>1. job'[i] = [job[i] EXCEPT !.at = "override"]
        BY <1>1, <1>13, <2>4, After
      <4>. QED BY <1>1, <4>1, GoesOn
    <3>2. Current(i)' = Current(i)
      BY <3>1 DEF Current
    <3>3. i \in calm => (VarsIn(i) /\ FilesIn(i) /\ Runs(i))'
      BY <1>3, <2>1, <3>1, <3>2 DEF Leaves, VarsIn, FilesIn, Runs, At
    <3>4. Sweeps(i)'
      BY <2>1, <3>1, <3>2 DEF Sweeps, At
    <3>. QED BY <1>7, <2>1, <2>2, <3>1, <3>3, <3>4 DEF Past
  <2>. QED BY <2>3, <2>4
<1>14. CASE (Override(i) /\ i \notin gone) \/ Up(i)
  <2>1. /\ At(i) \in {"override", "up"} /\ UNCHANGED <<disk, manifest, stray>>
        /\ Up(i) => running'.env = [v \in Vars |-> disk[v]]
    BY <1>14 DEF Override, Up, At, tree, observed
  <2>2. /\ job'[i].at \in {"up", "record"} /\ job'[i].merged = job[i].merged
        /\ job'[i].at = "record" => Up(i)
    <3>1. CASE Override(i) /\ i \notin gone
      <4>1. job'[i] = [job[i] EXCEPT !.at = "up"]
        BY <1>1, <3>1, After
      <4>. QED BY <1>1, <4>1, GoesOn
    <3>2. CASE Up(i)
      <4>1. job'[i] = [job[i] EXCEPT !.at = "record"]
        BY <1>1, <3>2, After
      <4>. QED BY <1>1, <3>2, <4>1, GoesOn
    <3>. QED BY <1>14, <3>1, <3>2
  <2>3. Current(i)' = Current(i) /\ (Written(i)' => Written(i))
    BY <2>1, <2>2 DEF Current, Written, At
  <2>4. i \in calm => (VarsIn(i) /\ FilesIn(i) /\ Runs(i))'
    BY <1>3, <2>1, <2>2, <2>3 DEF Leaves, VarsIn, FilesIn, Runs, At
  <2>5. spent["overlap"] = 0 => Sweeps(i)'
    BY <1>3, <2>1, <2>2, <2>3 DEF Sweeps, At
  <2>. QED BY <1>3, <1>6, <1>7, <2>1, <2>2, <2>4, <2>5 DEF Past
<1>15. CASE Record(i) \/ Fail(i) \/ (Override(i) /\ i \in gone)
  <2>1. UNCHANGED <<disk, manifest, stray>>
    BY <1>15 DEF Record, Fail, Override, tree, observed
  <2>2. job'[i].at \in {"ok", "failed"}
    <3>1. Override(i) /\ i \in gone => job'[i] = Empty("failed")
      BY <1>1, After
    <3>. QED BY <1>1, <1>15, <3>1, AfterAt DEF Empty
  <2>. QED BY <1>3, <1>4, <1>5, <1>6, <2>1, <2>2
<1>16. CASE Drop(i)
  <2>1. UNCHANGED <<disk, manifest, stray, running>>
    BY <1>16 DEF Drop, tree, observed, stack
  <2>2. CASE job[i].at \in Threaded /\ job'[i] = job[i]
    <3>1. job'[i] = job[i]
      BY <2>2
    <3>2. At(i) \in Past
      BY <2>2 DEF At, Past, Threaded
    <3>3. Current(i)' = Current(i) /\ Stale(i)' = Stale(i) /\ (Written(i)' <=> Written(i))
      BY <3>1 DEF Current, Stale, Written
    <3>4. i \in calm => (VarsIn(i) /\ FilesIn(i) /\ Runs(i))'
      BY <1>3, <2>1, <3>1, <3>3 DEF Leaves, VarsIn, FilesIn, Runs, At
    <3>5. spent["overlap"] = 0 => Sweeps(i)'
      BY <1>3, <2>1, <3>1, <3>3 DEF Sweeps, At
    <3>. QED BY <1>3, <1>6, <1>7, <2>1, <3>1, <3>2, <3>4, <3>5 DEF At
  <2>3. CASE job'[i] = Empty("failed")
    <3>1. job'[i].at = "failed"
      BY <2>3 DEF Empty
    <3>. QED BY <1>3, <1>4, <1>5, <1>6, <2>1, <3>1
  <2>. QED BY <1>1, <1>16, <2>2, <2>3, After
<1>. QED BY <1>8, <1>9, <1>10, <1>11, <1>12, <1>13, <1>14, <1>15, <1>16 DEF Acts

\* A push to a layer leaves nobody undisturbed that works.
LEMMA LeftEdit ==
    ASSUME Inv, Left, NEW l \in Layers, Edit(l)
    PROVE  Left'
<1>1. /\ UNCHANGED <<disk, manifest, job, stray>> /\ calm' = calm \ Active
  BY DEF Edit, tree
<1>2. spent'["overlap"] = spent["overlap"]
  BY SpendTyped DEF Edit, Inv, Kinds
<1>3. Active' = Active
  BY <1>1 DEF Active
<1>4. Known => Known'
  BY <1>1 DEF Known
<1>5. \A i \in Active : Sweeps(i) => Sweeps(i)'
  BY <1>1 DEF Sweeps, At, Stale, Current, Written
<1>. QED BY <1>1, <1>2, <1>3, <1>4, <1>5 DEF Left

LEMMA LeftStart ==
    ASSUME Inv, Left, NEW i \in Injectors, NEW groups \in Stacks, NEW c \in Commits,
           Start(i, groups, c), declared' = groups
    PROVE  Left'
<1>. DEFINE r == [Empty("load") EXCEPT !.layers = Append(groups, Key), !.sha = c]
<1>1. /\ job' = [job EXCEPT ![i] = r] /\ job[i].at = "idle" /\ job \in [Injectors -> Job]
      /\ UNCHANGED <<stored, disk, manifest, stray>>
  BY DEF Start, tree, stack, Inv, Typed
<1>2. groups \in Seq(Groups) /\ Len(groups) \in Nat
  BY FilesAssumption
<1>3. r.at = "load" /\ r.layers = Append(groups, Key) /\ r.merged = Nothing
  BY DEF Empty
<1>. HIDE DEF r
<1>4. job'[i] = r /\ \A j \in Injectors \ {i} : job'[j] = job[j]
  BY <1>1
<1>5. i \notin Active /\ i \notin calm /\ Active' = Active \cup {i}
  BY <1>1, <1>3, <1>4 DEF Active, Inv, Alone
<1>6. /\ IF Active = {} THEN spent' = spent ELSE spent'["overlap"] # 0
      /\ calm' = IF Active = {} THEN calm \cup {i} ELSE calm \ Active
  BY SpendTyped DEF Start, Inv, Typed, Kinds
<1>7. Leaves(i)'
  <2>1. Order' = Append(groups, Key) /\ Len(declared') = Len(groups) /\ 0 \in 0..Len(groups)
    BY <1>2 DEF Order
  <2>2. \A n \in Names : UpTo(0, n, job[i].merged[n])'
    BY <1>3, <1>4 DEF UpTo, Nothing
  <2>3. /\ Len(job'[i].layers) = Len(declared') + 1 - 0
        /\ \A k \in 1..Len(job'[i].layers) : job'[i].layers[k] = Order'[0 + k]
    BY <1>2, <1>3, <1>4, <2>1
  <2>4. Loading(i)'
    BY <2>1, <2>2, <2>3 DEF Loading
  <2>5. (Loaded(i) /\ VarsIn(i) /\ FilesIn(i) /\ Runs(i))'
    BY <1>3, <1>4 DEF Loaded, VarsIn, FilesIn, Runs, At, Past, Written
  <2>. QED BY <2>4, <2>5 DEF Leaves
<1>8. Sweeps(i)'
  BY <1>3, <1>4 DEF Sweeps, At, Written
<1>9. Known => Known'
  BY <1>1 DEF Known
<1>10. (\A j \in calm : j \in Active => Leaves(j))'
  BY <1>5, <1>6, <1>7
<1>11. (spent["overlap"] = 0 => Known /\ \A j \in Active : Sweeps(j))'
  BY <1>5, <1>6, <1>8, <1>9 DEF Left
<1>. QED BY <1>10, <1>11 DEF Left

LEMMA LeftStep ==
    ASSUME Inv, Left, [Next]_vars
    PROVE  Left'
<1>1. ASSUME NEW l \in Layers, Edit(l) PROVE Left'
  BY <1>1, LeftEdit
<1>2. ASSUME NEW d \in Deploys, Deploy(d) PROVE Left'
  <2>1. PICK groups \in Stacks : Start(d, groups, d) /\ declared' = groups
    BY <1>2 DEF Deploy
  <2>. QED BY <2>1, LeftStart DEF Injectors, Commits
<1>3. ASSUME NEW a \in Applies, Apply(a) PROVE Left'
  <2>1. Start(a, declared, commit) /\ declared' = declared /\ declared \in Stacks
    BY <1>3 DEF Apply, Inv, Typed
  <2>2. a \in Injectors /\ commit \in Commits
    BY DEF Injectors, Inv, Typed
  <2>. QED BY <2>1, <2>2, LeftStart
<1>4. ASSUME NEW i \in Injectors, Load(i) \/ Acts(i) PROVE Left'
  BY <1>4, LeftLoad, LeftActs
<1>5. CASE Crash
  <2>1. UNCHANGED <<disk, manifest, stray>> /\ Active' = {}
    <3>1. job' = [j \in Injectors |-> IF j \in Active THEN Empty("failed") ELSE job[j]]
      BY <1>5 DEF Crash
    <3>2. \A j \in Injectors : job'[j].at \in {"idle", "ok", "failed"}
      BY <3>1 DEF Active, Empty
    <3>. QED BY <1>5, <3>2 DEF Crash, tree, observed, Active
  <2>2. spent'["overlap"] = spent["overlap"]
    BY <1>5, SpendTyped DEF Crash, Inv, Kinds
  <2>3. Known => Known'
    BY <2>1 DEF Known
  <2>. QED BY <2>1, <2>2, <2>3 DEF Left
<1>6. CASE UNCHANGED vars
  <2>1. UNCHANGED <<stored, declared, disk, manifest, running, job, calm, stray, spent>>
    BY <1>6 DEF vars, registry, tree, stack, observed
  <2>2. Active' = Active /\ (Known => Known')
    BY <2>1 DEF Active, Known
  <2>3. \A i \in Injectors : (Sweeps(i) => Sweeps(i)') /\ (Written(i)' <=> Written(i))
                           /\ Current(i)' = Current(i)
    BY <2>1 DEF Sweeps, At, Stale, Current, Written
  <2>4. \A i \in Injectors : Loading(i) /\ Loaded(i) => (Loading(i) /\ Loaded(i))'
    BY <2>1, SameLayers DEF Loading, Loaded, At
  <2>5. \A i \in Injectors : VarsIn(i) /\ FilesIn(i) /\ Runs(i) => (VarsIn(i) /\ FilesIn(i) /\ Runs(i))'
    BY <2>1, <2>3 DEF VarsIn, FilesIn, Runs, At
  <2>6. Active \subseteq Injectors
    BY DEF Active
  <2>. QED BY <2>1, <2>2, <2>3, <2>4, <2>5, <2>6 DEF Left, Leaves
<1>. QED BY <1>1, <1>2, <1>3, <1>4, <1>5, <1>6 DEF Next, Acts

\* An injector that nothing disturbs leaves the tree with what the key is
\* served, layer over layer, and with nothing of an earlier one but the files of
\* one cut short, and starts the containers with it: for any layers, names and
\* declarations, and whatever failed, was canceled or lost before.
THEOREM ServedIsLeft == Spec => []LeavesWhatIsServed
<1>1. Init => Left
  <2>. SUFFICES ASSUME Init PROVE Left
    OBVIOUS
  <2>1. \A i \in Injectors : job[i].at = "idle"
    BY DEF Init, Empty
  <2>2. Active = {}
    BY <2>1 DEF Active
  <2>3. Known
    BY DEF Init, Known, Nothing, Names
  <2>. QED BY <2>2, <2>3 DEF Left
<1>2. Inv /\ Left => LeavesWhatIsServed
  <2>. SUFFICES ASSUME Inv, Left, NEW i \in calm, Written(i)
                PROVE  /\ \A n \in Names :
                             IF Effective(n) # None THEN disk[n] = Effective(n)
                             ELSE disk[n] # None /\ spent["overlap"] = 0 => n \in stray
                       /\ job[i].at = "record" => \A v \in Vars : running.env[v] = Effective(v)
    BY DEF LeavesWhatIsServed
  <2>1. i \in Injectors /\ i \in Active /\ Leaves(i) /\ job[i] \in Job
    <3>1. i \in Injectors /\ job[i] \in Job
      BY DEF Inv, Typed
    <3>2. i \in Active
      BY <3>1 DEF Written, Active
    <3>. QED BY <3>1, <3>2 DEF Left
  <2>2. \A n \in Names : job[i].merged[n] = Effective(n)
    BY <2>1 DEF Leaves, Loaded, At, Past, Written
  <2>3. /\ \A v \in Vars : disk[v] = job[i].merged[v]
        /\ \A f \in Current(i) : disk[f] = job[i].merged[f]
    BY <2>1 DEF Leaves, VarsIn, FilesIn
  <2>4. ASSUME NEW n \in Names, Effective(n) # None PROVE disk[n] = Effective(n)
    BY <2>2, <2>3, <2>4 DEF Names, Current
  <2>5. ASSUME NEW n \in Names, Effective(n) = None, disk[n] # None, spent["overlap"] = 0
        PROVE  n \in stray
    <3>1. n \in Files /\ n \notin Current(i)
      BY <2>2, <2>3, <2>5 DEF Names, Current
    <3>2. Known /\ manifest = Current(i)
      BY <2>1, <2>5 DEF Left, Sweeps
    <3>. QED BY <2>5, <3>1, <3>2 DEF Known
  <2>6. ASSUME job[i].at = "record", NEW v \in Vars PROVE running.env[v] = Effective(v)
    BY <2>1, <2>2, <2>3, <2>6 DEF Leaves, Runs, At, Names
  <2>. QED BY <2>4, <2>5, <2>6
<1>. QED BY <1>1, <1>2, InvInit, InvStep, LeftStep, PTL DEF Spec
=============================================================================
