---------------------------- MODULE ClientProofs ----------------------------
(***************************************************************************)
(* Proofs about Client, for any commands, releases, deployments and        *)
(* troubles.                                                               *)
(*                                                                         *)
(* That a release does what it is asked rests on what the handshake is     *)
(* worth later: the features a command was gated on are those of the       *)
(* release that answered it (Known), and one that comes up since has them  *)
(* as well, unless it is older (Newer).  That the exit code is true rests  *)
(* on the way each kind of command goes (Path) and on what it has behind   *)
(* it there (Behind).                                                      *)
(***************************************************************************)
EXTENDS Client, TLAPS

\* Where a command of each kind can stand.
Path ==
    CASE cmd.c.kind = "deploy" -> cmd.at \in {"connect", "check", "register", "confirm", "wait",
                                              "probe", "post", "follow", "stream", "done"}
      [] cmd.c.kind = "push"   -> cmd.at \in {"connect", "head", "put", "done"}
      [] cmd.c.kind = "group"  -> cmd.at \in {"connect", "head", "put", "groups", "apply", "done"}
      [] cmd.c.kind = "cancel" -> cmd.at \in {"connect", "list", "cancel", "done"}
      [] cmd.c.kind = "run"    -> cmd.at \in {"connect", "call", "exec", "done"}
      [] cmd.c.kind = "call"   -> cmd.at \in {"connect", "call", "done"}

Places == {"connect", "check", "register", "confirm", "wait", "probe", "post", "follow",
           "stream", "head", "put", "groups", "apply", "list", "cancel", "call", "exec", "done"}

Codes == {"ok", "failed", "error"}

Logins == {"missing", "out", "in"}

CommandType ==
    [c : Commands, at : Places, caps : SUBSET DOMAIN Since, rel : Releases \cup {None},
     older : BOOLEAN, seen : Nat, left : Nat, prev : Logins, todo : SUBSET Deps,
     failures : Nat, code : {0, 1, None}, stream : BOOLEAN, exit : Codes \cup {None}]

DepType ==
    /\ DOMAIN dep \subseteq Deps \cup {Mine}
    /\ dep \in [DOMAIN dep -> Active \cup Good \cup Bad]

Shape ==
    /\ cmd \in CommandType
    /\ agent \in Releases \cup {None}
    /\ bundle \in Nat
    /\ gh \in [login : Logins, key : BOOLEAN]
    /\ DepType

\* What the CLI takes the agent to be capable of is what the release it asked
\* is, and what the command needs is among it.
Known ==
    /\ cmd.at = "connect" => cmd.rel = None
    /\ cmd.rel = None => cmd.caps = {} /\ done = {}
    /\ cmd.rel # None => cmd.caps \subseteq Serves(cmd.rel)
    /\ cmd.at \notin {"connect", "done"} =>
           cmd.rel # None /\ Gated(cmd.c) \subseteq cmd.caps

\* Unless an older release came up, the one that serves is none.
Newer == agent # None /\ cmd.rel # None /\ ~cmd.older => cmd.rel.v <= agent.v

\* What is done when the command stands there.
Behind ==
    /\ cmd.at \in {"groups", "apply"} => \E e \in done : e.what = "put"
    /\ cmd.at \in {"follow", "stream"} => Mine \in DOMAIN dep
    /\ cmd.c.kind = "cancel" => DOMAIN dep = Deps
    /\ cmd.at = "cancel" /\ cmd.failures = 0 =>
           \A d \in Deps : dep[d] \in {"queued", "running"} => d \in cmd.todo

Inv == Shape /\ Path /\ Known /\ Newer /\ Behind /\ ServedAsAsked /\ ExitIsTrue
-----------------------------------------------------------------------------
(* The features of releases.                                                *)

\* A later release has what an earlier one has.
LEMMA ServesGrows ==
    ASSUME NEW r, NEW s, r.v \in Nat, s.v \in Nat, r.v <= s.v
    PROVE  Serves(r) \subseteq Serves(s)
BY DEF Serves, Since

\* The handshake, and the matrix for those before it, promise nothing more
\* than the release has.
LEMMA CapabilitiesServed ==
    ASSUME NEW r \in Releases
    PROVE  Capabilities(r) \subseteq Serves(r)
BY ClientAssumption DEF Capabilities, Serves, LegacyMatrix, Since

\* A command is gated on every field it sends that a release may read over.
LEMMA CarriesGated ==
    ASSUME NEW c \in Commands
    PROVE  Carries(c) \subseteq Gated(c)
<1>1. c.kind \in Verbs
  BY ClientAssumption
<1>. QED BY <1>1 DEF Carries, Gated, Verbs
-----------------------------------------------------------------------------
(* The steps.                                                               *)

\* What no step after the handshake changes of a command.
Kept == /\ cmd'.c = cmd.c /\ cmd'.caps = cmd.caps
        /\ cmd'.rel = cmd.rel /\ cmd'.older = cmd.older

\* Standing elsewhere, and nothing else.
LEMMA GoEffect ==
    ASSUME cmd \in CommandType, NEW pc \in Places, Go(pc)
    PROVE  /\ cmd' \in CommandType /\ Kept /\ cmd'.at = pc
           /\ cmd'.seen = cmd.seen /\ cmd'.todo = cmd.todo /\ cmd'.failures = cmd.failures
BY DEF Go, CommandType, Kept

LEMMA EndEffect ==
    ASSUME cmd \in CommandType, NEW ex \in Codes, End(ex)
    PROVE  /\ cmd' \in CommandType /\ Kept /\ cmd'.at = "done"
           /\ cmd'.exit = ex /\ cmd'.code = cmd.code
<1>1. cmd' = [cmd EXCEPT !.at = "done", !.exit = ex]
  BY DEF End
<1>2. cmd' \in CommandType
  BY <1>1 DEF CommandType, Places
<1>3. cmd'.at = "done" /\ cmd'.exit = ex
  BY <1>1 DEF CommandType
<1>4. Kept /\ cmd'.code = cmd.code
  BY <1>1 DEF CommandType, Kept
<1>. QED BY <1>2, <1>3, <1>4

\* A step of the command, or of the world around it, after the handshake.
LEMMA Onward ==
    ASSUME Inv, cmd.at \notin {"connect", "done"}, cmd' \in CommandType, Kept,
           cmd'.at # "connect", UNCHANGED agent, bundle' \in Nat,
           gh' \in [login : Logins, key : BOOLEAN], DepType',
           ServedAsAsked', Path', Behind', ExitIsTrue'
    PROVE  Inv'
<1>1. Shape'
  BY DEF Inv, Shape
<1>2. Known'
  BY DEF Inv, Known, Kept
<1>3. Newer'
  BY DEF Inv, Newer, Kept
<1>. QED BY <1>1, <1>2, <1>3 DEF Inv

\* What was done stays done as it was asked.
LEMMA Unasked ==
    ASSUME Inv, Kept, UNCHANGED done
    PROVE  ServedAsAsked'
BY DEF Inv, ServedAsAsked, On, Able, Kept

\* A command that ends in an error claims nothing.
LEMMA Failed ==
    ASSUME Inv, End("error"), cmd.c.kind = "cancel" => DOMAIN dep' = Deps
    PROVE  /\ cmd' \in CommandType /\ Kept /\ cmd'.at = "done"
           /\ Path' /\ Behind' /\ ExitIsTrue'
<1>1. /\ cmd' \in CommandType /\ Kept /\ cmd'.at = "done" /\ cmd'.exit = "error"
  BY EndEffect DEF Inv, Shape, Codes
<1>2. cmd'.c \in Commands /\ cmd'.c.kind \in Verbs
  BY <1>1, ClientAssumption DEF CommandType
<1>3. Path'
  BY <1>1, <1>2 DEF Path, Verbs
<1>4. Behind'
  BY <1>1 DEF Behind, Kept
<1>5. ExitIsTrue'
  BY <1>1, <1>2 DEF ExitIsTrue, At, Verbs
<1>. QED BY <1>1, <1>3, <1>4, <1>5

\* An end in an error that leaves the world alone.
LEMMA FailedAlone ==
    ASSUME Inv, cmd.at \notin {"connect", "done"}, End("error"), UNCHANGED World
    PROVE  Inv'
<1>1. bundle' \in Nat /\ gh' \in [login : Logins, key : BOOLEAN] /\ DepType'
  BY DEF World, Inv, Shape, DepType
<1>2. cmd.c.kind = "cancel" => DOMAIN dep' = Deps
  BY DEF World, Inv, Behind
<1>. QED BY <1>1, <1>2, Failed, Unasked, Onward DEF World

\* Where it stands tells what kind it is.
LEMMA PathKinds ==
    ASSUME Inv
    PROVE  /\ cmd.at \in {"check", "register", "confirm", "wait", "probe", "post",
                          "follow", "stream"} => cmd.c.kind = "deploy"
           /\ cmd.at \in {"head", "put"} => cmd.c.kind \in {"push", "group"}
           /\ cmd.at \in {"groups", "apply"} => cmd.c.kind = "group"
           /\ cmd.at \in {"list", "cancel"} => cmd.c.kind = "cancel"
           /\ cmd.at = "exec" => cmd.c.kind = "run"
           /\ cmd.at = "call" => cmd.c.kind \in {"run", "call"}
<1>1. cmd.c.kind \in Verbs
  BY ClientAssumption DEF Inv, Shape, CommandType
<1>. QED BY <1>1 DEF Inv, Path, Verbs

\* The release that serves has what the command was gated on, unless it is older.
LEMMA Held ==
    ASSUME Inv, cmd.at \notin {"connect", "done"}, agent # None, ~cmd.older
    PROVE  cmd.caps \subseteq Serves(agent) /\ Carries(cmd.c) \subseteq Serves(agent)
<1>1. /\ cmd.c \in Commands /\ cmd.rel \in Releases /\ agent \in Releases
      /\ cmd.rel.v <= agent.v
      /\ cmd.caps \subseteq Serves(cmd.rel) /\ Gated(cmd.c) \subseteq cmd.caps
  BY DEF Inv, Shape, CommandType, Known, Newer
<1>2. Serves(cmd.rel) \subseteq Serves(agent)
  BY <1>1, ServesGrows, ClientAssumption
<1>. QED BY <1>1, <1>2, CarriesGated

\* What the agent does now it does as it was asked: of a put this is that the
\* revision it replaces was the one its sender was shown.
LEMMA Asked ==
    ASSUME Inv, cmd.at \notin {"connect", "done"}, agent # None, Kept,
           NEW S, done' \subseteq done \cup {Did(what) : what \in S},
           "put" \in S /\ ~On("force") /\ Able("secret_groups")
               /\ "secret_groups" \in Serves(agent) => bundle = cmd.seen
    PROVE  ServedAsAsked'
<1>1. ASSUME NEW e \in done', ~e.older
      PROVE  /\ e.asked \subseteq e.served
             /\ e.what = "put" /\ ~On("force") /\ Able("secret_groups") => e.old = e.seen
  <2>1. CASE e \in done
    BY <1>1, <2>1 DEF Inv, ServedAsAsked
  <2>2. ASSUME NEW what \in S, e = Did(what)
        PROVE  /\ e.asked \subseteq e.served
               /\ e.what = "put" /\ ~On("force") /\ Able("secret_groups") => e.old = e.seen
    <3>1. /\ e.what = what /\ e.asked = Carries(cmd.c) /\ e.served = Serves(agent)
          /\ e.seen = cmd.seen /\ e.old = bundle /\ e.older = cmd.older
      BY <2>2 DEF Did
    <3>2. cmd.caps \subseteq Serves(agent) /\ Carries(cmd.c) \subseteq Serves(agent)
      BY <1>1, <3>1, Held
    <3>. QED BY <2>2, <3>1, <3>2 DEF Able
  <2>. QED BY <2>1, <2>2
<1>2. On("force")' = On("force") /\ Able("secret_groups")' = Able("secret_groups")
  BY DEF Kept, On, Able
<1>. QED BY <1>1, <1>2 DEF ServedAsAsked
-----------------------------------------------------------------------------
(* A deployment.                                                            *)

\* Before the deployment is asked for, only gh changes.
LEMMA Stroll ==
    ASSUME Inv, cmd.c.kind = "deploy", cmd.at \notin {"connect", "done"},
           cmd' \in CommandType, Kept,
           cmd'.at \in {"register", "confirm", "wait", "probe", "post"},
           UNCHANGED <<agent, bundle, dep, done>>,
           gh' \in [login : Logins, key : BOOLEAN]
    PROVE  Inv'
<1>1. bundle' \in Nat /\ DepType'
  BY DEF Inv, Shape, DepType
<1>2. Path' /\ Behind' /\ ExitIsTrue'
  BY DEF Path, Behind, ExitIsTrue, At, Kept
<1>. QED BY <1>1, <1>2, Unasked, Onward

\* Waiting for the key, or giving up.
LEMMA WaitEffect ==
    ASSUME Inv, Wait
    PROVE  \/ cmd' \in CommandType /\ Kept /\ cmd'.at = "wait"
           \/ End("error")
<1>. DEFINE p == IF ViaGh THEN gh.login ELSE "in"
<1>1. p \in Logins
  BY DEF Inv, Shape, Logins
<1>2. ASSUME cmd' = [cmd EXCEPT !.at = "wait", !.prev = p]
      PROVE  cmd' \in CommandType /\ Kept /\ cmd'.at = "wait"
  <2>. HIDE DEF p
  <2>1. cmd' \in CommandType
    BY <1>1, <1>2 DEF Inv, Shape, CommandType, Places
  <2>2. Kept /\ cmd'.at = "wait"
    BY <1>2 DEF Inv, Shape, CommandType, Kept
  <2>. QED BY <2>1, <2>2
<1>. QED BY <1>2 DEF Wait

\* The look at the repository, the key, and the wait for it.
LEMMA SourceKeeps ==
    ASSUME Inv, Check \/ Register \/ Confirm \/ Tick \/ Probe
    PROVE  Inv'
<1>1. /\ cmd.at \in {"check", "register", "confirm", "wait", "probe"}
      /\ UNCHANGED <<agent, bundle, dep, done>>
      /\ cmd \in CommandType /\ gh \in [login : Logins, key : BOOLEAN]
  BY DEF Check, Register, Confirm, Tick, Probe, At, World, Inv, Shape
<1>2. cmd.c.kind = "deploy"
  BY <1>1, PathKinds
<1>3. gh' \in [login : Logins, key : BOOLEAN] /\ (End("error") => UNCHANGED gh)
  <2>1. [gh EXCEPT !.key = TRUE] \in [login : Logins, key : BOOLEAN]
    BY <1>1
  <2>2. CASE Check \/ Confirm \/ Probe
    BY <1>1, <2>2 DEF Check, Confirm, Probe, World
  <2>3. CASE Register
    <3>1. End("error") => ~Go("confirm")
      BY <1>1, EndEffect, GoEffect DEF Codes, Places
    <3>. QED BY <1>1, <2>1, <2>3, <3>1 DEF Register
  <2>4. CASE Tick
    <3>1. /\ \/ UNCHANGED gh
             \/ gh' = [gh EXCEPT !.key = TRUE]
          /\ \/ UNCHANGED gh
             \/ \E n, q : cmd' = [cmd EXCEPT !.at = "probe", !.left = n, !.prev = q]
      BY <2>4 DEF Tick
    <3>2. End("error") => cmd'.at = "done"
      BY <1>1, EndEffect DEF Codes
    <3>3. (\E n, q : cmd' = [cmd EXCEPT !.at = "probe", !.left = n, !.prev = q]) =>
              cmd'.at = "probe"
      BY <1>1 DEF CommandType
    <3>. QED BY <1>1, <2>1, <3>1, <3>2, <3>3
  <2>. QED BY <2>2, <2>3, <2>4
<1>4. \/ End("error")
      \/ /\ cmd' \in CommandType /\ Kept
         /\ cmd'.at \in {"register", "confirm", "wait", "probe", "post"}
  <2>1. \A pc \in {"register", "confirm", "wait", "post"} :
            Go(pc) => cmd' \in CommandType /\ Kept /\ cmd'.at = pc
    BY <1>1, GoEffect DEF Places
  <2>2. CASE Check \/ Register \/ Confirm \/ Probe
    BY <2>1, <2>2, WaitEffect DEF Check, Register, Confirm, Probe
  <2>3. CASE Tick
    <3>1. CASE End("error")
      BY <3>1
    <3>2. CASE /\ cmd.left > 0
               /\ cmd' = [cmd EXCEPT !.at = "probe", !.left = @ - 1,
                                     !.prev = IF ViaGh THEN gh.login ELSE @]
      <4>. DEFINE n == cmd.left - 1
                  p == IF ViaGh THEN gh.login ELSE cmd.prev
      <4>1. n \in Nat /\ p \in Logins
        BY <1>1, <3>2 DEF CommandType, Logins
      <4>2. cmd' = [cmd EXCEPT !.at = "probe", !.left = n, !.prev = p]
        BY <3>2
      <4>. HIDE DEF n, p
      <4>3. cmd' \in CommandType
        BY <1>1, <4>1, <4>2 DEF CommandType, Places
      <4>4. Kept /\ cmd'.at = "probe"
        BY <1>1, <4>2 DEF CommandType, Kept
      <4>. QED BY <4>3, <4>4
    <3>. QED BY <2>3, <3>1, <3>2 DEF Tick
  <2>. QED BY <2>2, <2>3
<1>5. CASE End("error")
  BY <1>1, <1>3, <1>5, FailedAlone DEF World
<1>6. CASE /\ cmd' \in CommandType /\ Kept
           /\ cmd'.at \in {"register", "confirm", "wait", "probe", "post"}
  BY <1>1, <1>2, <1>3, <1>6, Stroll
<1>. QED BY <1>4, <1>5, <1>6

\* The deployment is accepted and followed, or refused, or the answer lost.
LEMMA PostKeeps ==
    ASSUME Inv, Post
    PROVE  Inv'
<1>1. cmd.at = "post" /\ cmd \in CommandType
  BY DEF Post, Ask, At, Inv, Shape
<1>2. cmd.c.kind = "deploy"
  BY <1>1, PathKinds
<1>3. CASE End("error") /\ UNCHANGED World
  BY <1>1, <1>3, FailedAlone
<1>4. ASSUME Reach(None), UNCHANGED <<agent, bundle, gh>>,
             dep' = [d \in DOMAIN dep \cup {Mine} |-> IF d = Mine THEN "queued" ELSE dep[d]],
             done' = done \cup {Did("deploy")},
             Go("follow") \/ End("error")
      PROVE  Inv'
  <2>1. /\ DOMAIN dep' = DOMAIN dep \cup {Mine} /\ DepType'
        /\ bundle' \in Nat /\ gh' \in [login : Logins, key : BOOLEAN]
    BY <1>4 DEF Inv, Shape, DepType, Active
  <2>2. CASE End("error")
    <3>1. /\ cmd' \in CommandType /\ Kept /\ cmd'.at = "done"
          /\ Path' /\ Behind' /\ ExitIsTrue'
      BY <1>2, <2>2, Failed
    <3>2. ServedAsAsked'
      <4>. DEFINE S == {"deploy"}
      <4>1. done' \subseteq done \cup {Did(what) : what \in S} /\ "put" \notin S
        BY <1>4
      <4>. HIDE DEF S
      <4>. QED BY <1>1, <1>4, <3>1, <4>1, Asked DEF Reach
    <3>. QED BY <1>1, <1>4, <2>1, <3>1, <3>2, Onward
  <2>3. CASE Go("follow")
    <3>1. cmd' \in CommandType /\ Kept /\ cmd'.at = "follow"
      BY <1>1, <2>3, GoEffect DEF Places
    <3>2. ServedAsAsked'
      <4>. DEFINE S == {"deploy"}
      <4>1. done' \subseteq done \cup {Did(what) : what \in S} /\ "put" \notin S
        BY <1>4
      <4>. HIDE DEF S
      <4>. QED BY <1>1, <1>4, <3>1, <4>1, Asked DEF Reach
    <3>3. Path' /\ Behind' /\ ExitIsTrue'
      BY <1>2, <2>1, <3>1 DEF Path, Behind, ExitIsTrue, At, Kept
    <3>. QED BY <1>1, <1>4, <2>1, <3>1, <3>2, <3>3, Onward
  <2>. QED BY <1>4, <2>2, <2>3
<1>5. ASSUME Reach(None), End("error"), UNCHANGED <<agent, bundle, gh, dep, done>>
      PROVE  Inv'
  BY <1>3, <1>5 DEF World
<1>. QED BY <1>3, <1>4, <1>5 DEF Post, Ask

\* Its events.
LEMMA StreamKeeps ==
    ASSUME Inv, Follow \/ Finished \/ StreamEnds
    PROVE  Inv'
<1>1. /\ cmd.at \in {"follow", "stream", "exec"} /\ cmd \in CommandType /\ UNCHANGED World
      /\ cmd.at \in {"follow", "stream"} => cmd.c.kind = "deploy" /\ Mine \in DOMAIN dep
  BY PathKinds DEF Follow, Finished, StreamEnds, Ask, At, World, Inv, Shape, Behind
<1>2. UNCHANGED agent /\ bundle' \in Nat /\ gh' \in [login : Logins, key : BOOLEAN] /\ DepType'
  BY <1>1 DEF World, Inv, Shape, DepType
<1>3. CASE End("error")
  BY <1>1, <1>3, FailedAlone
<1>4. CASE Follow /\ Open("stream")
  <2>1. cmd' \in CommandType /\ Kept /\ cmd'.at = "stream" /\ cmd.at = "follow"
    BY <1>1, <1>4 DEF Follow, Ask, At, Open, CommandType, Places, Kept
  <2>2. Path' /\ Behind' /\ ExitIsTrue'
    BY <1>1, <2>1 DEF Path, Behind, ExitIsTrue, At, Kept, World
  <2>. QED BY <1>1, <1>2, <2>1, <2>2, Unasked, Onward DEF World
<1>5. CASE Finished
  <2>. DEFINE ex == IF dep[Mine] \in Good THEN "ok" ELSE "failed"
  <2>1. End(ex) /\ cmd.at = "stream" /\ dep[Mine] \notin Active
    BY <1>5 DEF Finished, At
  <2>2. dep[Mine] \in Good \cup Bad /\ UNCHANGED dep
    BY <1>1, <2>1 DEF Inv, Shape, DepType, World
  <2>3. cmd' \in CommandType /\ Kept /\ cmd'.at = "done" /\ cmd'.exit = ex
    BY <1>1, <2>1, EndEffect DEF Codes
  <2>4. Path' /\ Behind'
    BY <1>1, <2>1, <2>3 DEF Path, Behind, Kept
  <2>5. ExitIsTrue'
    BY <1>1, <2>1, <2>2, <2>3 DEF ExitIsTrue, At, Kept
  <2>. QED BY <1>1, <1>2, <2>3, <2>4, <2>5, Unasked, Onward DEF World
<1>. QED BY <1>3, <1>4, <1>5 DEF Follow, Ask, StreamEnds
-----------------------------------------------------------------------------
(* The handshake.                                                           *)

LEMMA InitInv == Init => Inv
<1>. SUFFICES ASSUME Init PROVE Inv
  OBVIOUS
<1>1. /\ cmd.c \in Commands /\ cmd.at = "connect" /\ cmd.caps = {} /\ cmd.rel = None
      /\ done = {} /\ cmd.c.kind \in Verbs
  BY ClientAssumption DEF Init
<1>2. cmd \in CommandType
  <2>1. /\ cmd.seen = 0 /\ cmd.left = Polls /\ cmd.prev = "in" /\ cmd.todo = {}
        /\ cmd.failures = 0 /\ cmd.code = None /\ cmd.stream = FALSE /\ cmd.exit = None
        /\ cmd.older = FALSE
    BY DEF Init
  <2>2. cmd = [c |-> cmd.c, at |-> cmd.at, caps |-> cmd.caps, rel |-> cmd.rel,
               older |-> cmd.older, seen |-> cmd.seen, left |-> cmd.left, prev |-> cmd.prev,
               todo |-> cmd.todo, failures |-> cmd.failures, code |-> cmd.code,
               stream |-> cmd.stream, exit |-> cmd.exit]
    BY DEF Init
  <2>3. /\ cmd.at \in Places /\ cmd.caps \in SUBSET DOMAIN Since /\ cmd.rel \in Releases \cup {None}
        /\ cmd.seen \in Nat /\ cmd.left \in Nat /\ cmd.prev \in Logins /\ cmd.todo \in SUBSET Deps
        /\ cmd.failures \in Nat /\ cmd.code \in {0, 1, None} /\ cmd.exit \in Codes \cup {None}
    BY <1>1, <2>1, ClientAssumption DEF Places, Logins
  <2>4. cmd.older \in BOOLEAN /\ cmd.stream \in BOOLEAN
    BY <2>1
  <2>. HIDE DEF Places, Logins
  <2>. QED BY <1>1, <2>2, <2>3, <2>4 DEF CommandType
<1>3. bundle \in Nat /\ agent \in Releases \cup {None}
  BY DEF Init
<1>4. gh \in [login : Logins, key : BOOLEAN]
  BY DEF Init, Logins
<1>5. DepType /\ (cmd.c.kind = "cancel" => DOMAIN dep = Deps)
  <2>1. CASE cmd.c.kind = "cancel"
    BY <2>1 DEF Init, DepType, Active
  <2>2. CASE cmd.c.kind # "cancel"
    BY <2>2 DEF Init, DepType, Active
  <2>. QED BY <2>1, <2>2
<1>6. Path
  BY <1>1 DEF Path, Verbs
<1>7. Known /\ Newer /\ Behind /\ ServedAsAsked /\ ExitIsTrue
  BY <1>1, <1>5 DEF Known, Newer, Behind, ServedAsAsked, ExitIsTrue, At
<1>. QED BY <1>2, <1>3, <1>4, <1>5, <1>6, <1>7 DEF Inv, Shape

\* The first request tells the CLI what the agent is, and it stops there or
\* goes on with what it needs.
LEMMA ConnectKeeps ==
    ASSUME Inv, Connect
    PROVE  Inv'
<1>1. /\ cmd.at = "connect" /\ cmd \in CommandType /\ UNCHANGED World
      /\ cmd.rel = None /\ cmd.caps = {} /\ done = {}
      /\ cmd.c \in Commands /\ cmd.c.kind \in Verbs
  BY ClientAssumption DEF Connect, Ask, At, World, Inv, Shape, Known, CommandType
<1>2. /\ UNCHANGED agent /\ agent \in Releases \cup {None} /\ done' = {}
      /\ bundle' \in Nat /\ gh' \in [login : Logins, key : BOOLEAN] /\ DepType'
      /\ cmd.c.kind = "cancel" => DOMAIN dep' = Deps
  BY <1>1 DEF World, Inv, Shape, DepType, Behind
<1>3. ServedAsAsked'
  BY <1>2 DEF ServedAsAsked
<1>4. CASE End("error")
  <2>1. /\ cmd' \in CommandType /\ Kept /\ cmd'.at = "done"
        /\ Path' /\ Behind' /\ ExitIsTrue'
    BY <1>2, <1>4, Failed
  <2>2. Known' /\ Newer'
    BY <1>1, <1>2, <2>1 DEF Known, Newer, Kept
  <2>. QED BY <1>2, <1>3, <2>1, <2>2 DEF Inv, Shape
<1>5. ASSUME agent # None,
             NEW pc \in {First(cmd.c, Capabilities(agent)), "done"},
             NEW ex \in {cmd.exit, "error"}, pc = "done" => ex = "error",
             pc # "done" => Gated(cmd.c) \subseteq Capabilities(agent),
             cmd' = [cmd EXCEPT !.caps = Capabilities(agent), !.rel = agent,
                                !.at = pc, !.exit = ex]
      PROVE  Inv'
  <2>1. agent \in Releases /\ Capabilities(agent) \subseteq Serves(agent)
        /\ Capabilities(agent) \in SUBSET DOMAIN Since
    BY <1>2, <1>5, CapabilitiesServed DEF Serves
  <2>2. First(cmd.c, Capabilities(agent)) \in {"check", "post", "head", "put", "list", "call"}
    BY DEF First
  <2>3. pc \in Places /\ pc # "connect" /\ ex \in Codes \cup {None}
    BY <1>1, <2>2 DEF CommandType, Places, Codes
  <2>4. cmd' \in CommandType
    BY <1>1, <1>5, <2>1, <2>3 DEF CommandType
  <2>5. /\ cmd'.c = cmd.c /\ cmd'.at = pc /\ cmd'.exit = ex
        /\ cmd'.caps = Capabilities(agent) /\ cmd'.rel = agent
    BY <1>1, <1>5 DEF CommandType
  <2>6. Path'
    BY <1>1, <2>5 DEF Path, First, Verbs
  <2>7. Known'
    BY <1>2, <1>5, <2>1, <2>3, <2>5 DEF Known
  <2>8. Newer'
    BY <1>2, <2>1, <2>5, ClientAssumption DEF Newer
  <2>9. Behind'
    BY <1>2, <2>2, <2>5 DEF Behind
  <2>10. ExitIsTrue'
    <3>1. CASE pc = "done"
      BY <1>1, <1>5, <2>5, <3>1 DEF ExitIsTrue, Verbs
    <3>2. CASE pc # "done"
      BY <2>5, <3>2 DEF ExitIsTrue, At
    <3>. QED BY <3>1, <3>2
  <2>. QED BY <1>2, <1>3, <2>1, <2>4, <2>6, <2>7, <2>8, <2>9, <2>10 DEF Inv, Shape
<1>6. CASE agent # None /\ ~End("error")
  <2>1. CASE Gated(cmd.c) \subseteq Capabilities(agent)
    <3>. DEFINE pc == First(cmd.c, Capabilities(agent))
    <3>1. cmd' = [cmd EXCEPT !.caps = Capabilities(agent), !.rel = agent, !.at = pc]
      BY <1>6, <2>1 DEF Connect, Ask
    <3>2. cmd' = [cmd EXCEPT !.caps = Capabilities(agent), !.rel = agent,
                             !.at = pc, !.exit = cmd.exit]
      BY <1>1, <3>1 DEF CommandType
    <3>3. pc # "done"
      BY DEF First
    <3>. HIDE DEF pc
    <3>4. pc \in {First(cmd.c, Capabilities(agent)), "done"}
      BY DEF pc
    <3>. QED BY <1>5, <1>6, <2>1, <3>2, <3>3, <3>4
  <2>2. CASE ~(Gated(cmd.c) \subseteq Capabilities(agent))
    <3>1. cmd' = [cmd EXCEPT !.caps = Capabilities(agent), !.rel = agent,
                             !.at = "done", !.exit = "error"]
      BY <1>6, <2>2 DEF Connect, Ask
    <3>. QED BY <1>5, <1>6, <3>1
  <2>. QED BY <2>1, <2>2
<1>7. agent # None \/ End("error")
  BY DEF Connect, Ask, Reach
<1>. QED BY <1>4, <1>6, <1>7
-----------------------------------------------------------------------------
(* Secrets.                                                                 *)

\* The revision is shown.
LEMMA ShownEffect ==
    ASSUME cmd \in CommandType, NEW rev \in Nat, Shown(rev)
    PROVE  cmd' \in CommandType /\ Kept /\ cmd'.at = "put"
BY DEF Shown, CommandType, Places, Kept

LEMMA HeadKeeps ==
    ASSUME Inv, Head
    PROVE  Inv'
<1>1. /\ cmd.at = "head" /\ cmd \in CommandType /\ UNCHANGED World
      /\ End("error") \/ \E rev \in Nat : Shown(rev)
  BY DEF Head, Ask, At, Inv, Shape
<1>2. cmd.c.kind \in {"push", "group"}
  BY <1>1, PathKinds
<1>3. CASE End("error")
  BY <1>1, <1>3, FailedAlone
<1>4. ASSUME NEW rev \in Nat, Shown(rev)
      PROVE  Inv'
  <2>1. cmd' \in CommandType /\ Kept /\ cmd'.at = "put"
    BY <1>1, <1>4, ShownEffect
  <2>2. Path' /\ Behind' /\ ExitIsTrue'
    BY <1>2, <2>1 DEF Path, Behind, ExitIsTrue, At, Kept
  <2>3. UNCHANGED agent /\ bundle' \in Nat /\ gh' \in [login : Logins, key : BOOLEAN] /\ DepType'
    BY <1>1 DEF World, Inv, Shape, DepType
  <2>. QED BY <1>1, <2>1, <2>2, <2>3, Unasked, Onward DEF World
<1>. QED BY <1>1, <1>3, <1>4

\* A write that goes through replaces what its sender was shown, or is not
\* guarded; the command ends well only when the write is applied as well, if
\* that was asked.
LEMMA PutKeeps ==
    ASSUME Inv, Put
    PROVE  Inv'
<1>1. cmd.at = "put" /\ cmd \in CommandType /\ cmd.seen \in Nat /\ bundle \in Nat
  BY DEF Put, Ask, At, Inv, Shape, CommandType
<1>2. cmd.c.kind \in {"push", "group"}
  BY <1>1, PathKinds
<1>3. CASE End("error") /\ UNCHANGED World
  BY <1>1, <1>3, FailedAlone
<1>. DEFINE whole == cmd.c.kind = "push" /\ On("apply")
            S == IF whole THEN {"put", "apply"} ELSE {"put"}
<1>4. ASSUME agent # None, UNCHANGED <<agent, dep, gh>>, bundle' = bundle + 1,
             ~("secret_groups" \in Serves(agent) /\ Expected \notin {None, bundle}),
             \/ /\ done' = done \cup {Did(what) : what \in S}
                /\ \/ cmd.c.kind = "group" /\ On("apply") /\ Go("groups")
                   \/ ~(cmd.c.kind = "group" /\ On("apply")) /\ End("ok")
             \/ done' = done \cup {Did("put")} /\ End("error")
      PROVE  Inv'
  <2>1. bundle' \in Nat /\ gh' \in [login : Logins, key : BOOLEAN] /\ DepType'
    BY <1>1, <1>4 DEF Inv, Shape, DepType
  <2>2. ~On("force") /\ Able("secret_groups") /\ "secret_groups" \in Serves(agent) =>
            bundle = cmd.seen
    BY <1>1, <1>4, ClientAssumption DEF Expected
  <2>3. done' \subseteq done \cup {Did(what) : what \in S}
    BY <1>4
  <2>4. (Did("put") \in done' /\ (whole => Did("apply") \in done')) \/ End("error")
    BY <1>4
  <2>5. Kept => ServedAsAsked'
    <3>. HIDE DEF S
    <3>. QED BY <1>1, <1>4, <2>2, <2>3, Asked
  <2>6. Did("put").what = "put" /\ Did("apply").what = "apply"
    BY DEF Did
  <2>7. CASE End("error")
    <3>1. /\ cmd' \in CommandType /\ Kept /\ cmd'.at = "done"
          /\ Path' /\ Behind' /\ ExitIsTrue'
      BY <1>2, <2>7, Failed
    <3>. QED BY <1>1, <1>4, <2>1, <2>5, <3>1, Onward
  <2>8. CASE cmd.c.kind = "group" /\ Go("groups") /\ Did("put") \in done'
    <3>1. cmd' \in CommandType /\ Kept /\ cmd'.at = "groups"
      BY <1>1, <2>8, GoEffect DEF Places
    <3>2. Path' /\ Behind' /\ ExitIsTrue'
      BY <2>6, <2>8, <3>1 DEF Path, Behind, ExitIsTrue, At, Kept
    <3>. QED BY <1>1, <1>4, <2>1, <2>5, <3>1, <3>2, Onward
  <2>9. CASE /\ ~(cmd.c.kind = "group" /\ On("apply")) /\ End("ok")
             /\ Did("put") \in done' /\ (whole => Did("apply") \in done')
    <3>1. cmd' \in CommandType /\ Kept /\ cmd'.at = "done" /\ cmd'.exit = "ok"
      BY <1>1, <2>9, EndEffect DEF Codes
    <3>2. Path' /\ Behind'
      BY <1>2, <3>1 DEF Path, Behind, Kept
    <3>3. "put" \in {e.what : e \in done'}
      BY <2>6, <2>9
    <3>4. With(cmd.c, "apply", "apply") \subseteq {e.what : e \in done'}
      <4>1. On("apply") => whole
        BY <1>2, <2>9
      <4>. QED BY <2>6, <2>9, <4>1 DEF With, On
    <3>5. ExitIsTrue'
      BY <1>2, <3>1, <3>3, <3>4 DEF ExitIsTrue, At, Kept
    <3>. QED BY <1>1, <1>4, <2>1, <2>5, <3>1, <3>2, <3>5, Onward
  <2>. QED BY <1>4, <2>4, <2>7, <2>8, <2>9
<1>5. {Did(what) : what \in S} = {Did("put")} \cup (IF whole THEN {Did("apply")} ELSE {})
  BY SMT
<1>6. \/ End("error") /\ UNCHANGED World
      \/ /\ agent # None /\ UNCHANGED <<agent, dep, gh>>
         /\ IF "secret_groups" \in Serves(agent) /\ Expected \notin {None, bundle}
            THEN End("error") /\ UNCHANGED <<bundle, done>>
            ELSE /\ bundle' = bundle + 1
                 /\ \/ /\ done' = done \cup {Did("put")} \cup (IF whole THEN {Did("apply")} ELSE {})
                       /\ \/ cmd.c.kind = "group" /\ On("apply") /\ Go("groups")
                          \/ ~(cmd.c.kind = "group" /\ On("apply")) /\ End("ok")
                    \/ done' = done \cup {Did("put")} /\ End("error")
  BY DEF Put, Ask, Reach
<1>7. CASE "secret_groups" \in Serves(agent) /\ Expected \notin {None, bundle}
  BY <1>3, <1>6, <1>7 DEF World
<1>8. CASE ~("secret_groups" \in Serves(agent) /\ Expected \notin {None, bundle})
  <2>. HIDE DEF whole, S
  <2>. QED BY <1>3, <1>4, <1>5, <1>6, <1>8
<1>. QED BY <1>7, <1>8

\* Of a group the application is asked for when the group is written.
LEMMA GroupKeeps ==
    ASSUME Inv, ListGroups \/ Apply
    PROVE  Inv'
<1>1. /\ cmd.at \in {"groups", "apply"} /\ cmd \in CommandType
      /\ UNCHANGED <<agent, bundle, dep, gh>>
      /\ \E e \in done : e.what = "put"
  BY DEF ListGroups, Apply, Ask, At, World, Inv, Shape, Behind
<1>2. cmd.c.kind = "group"
  BY <1>1, PathKinds
<1>3. bundle' \in Nat /\ gh' \in [login : Logins, key : BOOLEAN] /\ DepType'
  BY <1>1 DEF Inv, Shape, DepType
<1>4. CASE End("error") /\ UNCHANGED done
  BY <1>1, <1>4, FailedAlone DEF World
<1>5. CASE Go("apply") /\ UNCHANGED done
  <2>1. cmd' \in CommandType /\ Kept /\ cmd'.at = "apply"
    BY <1>1, <1>5, GoEffect DEF Places
  <2>2. Path' /\ Behind' /\ ExitIsTrue'
    BY <1>1, <1>2, <1>5, <2>1 DEF Path, Behind, ExitIsTrue, At, Kept
  <2>. QED BY <1>1, <1>3, <1>5, <2>1, <2>2, Unasked, Onward
<1>6. ASSUME agent # None, done' = done \cup {Did("apply")}, End("ok") \/ End("error")
      PROVE  Inv'
  <2>1. Kept => ServedAsAsked'
    <3>. DEFINE S == {"apply"}
    <3>1. done' \subseteq done \cup {Did(what) : what \in S} /\ "put" \notin S
      BY <1>6
    <3>. HIDE DEF S
    <3>. QED BY <1>1, <1>6, <3>1, Asked
  <2>2. CASE End("error")
    BY <1>1, <1>2, <1>3, <2>1, <2>2, Failed, Onward
  <2>3. CASE End("ok")
    <3>1. cmd' \in CommandType /\ Kept /\ cmd'.at = "done" /\ cmd'.exit = "ok"
      BY <1>1, <2>3, EndEffect DEF Codes
    <3>2. Path' /\ Behind'
      BY <1>2, <3>1 DEF Path, Behind, Kept
    <3>3. {"put", "apply"} \subseteq {e.what : e \in done'}
      <4>1. Did("apply").what = "apply"
        BY DEF Did
      <4>. QED BY <1>1, <1>6, <4>1
    <3>4. ExitIsTrue'
      BY <1>2, <3>1, <3>3 DEF ExitIsTrue, At, With, Kept
    <3>. QED BY <1>1, <1>3, <2>1, <3>1, <3>2, <3>4, Onward
  <2>. QED BY <1>6, <2>2, <2>3
<1>. QED BY <1>4, <1>5, <1>6 DEF ListGroups, Apply, Ask, Reach, World
-----------------------------------------------------------------------------
(* deploy --cancel; command; a request and its answer.                      *)

LEMMA ListKeeps ==
    ASSUME Inv, List
    PROVE  Inv'
<1>1. cmd.at = "list" /\ cmd \in CommandType /\ UNCHANGED World
  BY DEF List, Ask, At, World, Inv, Shape
<1>2. cmd.c.kind = "cancel" /\ DOMAIN dep = Deps /\ UNCHANGED <<agent, dep, done>>
  BY <1>1, PathKinds DEF Inv, Behind, World
<1>3. bundle' \in Nat /\ gh' \in [login : Logins, key : BOOLEAN] /\ DepType'
  BY <1>1 DEF World, Inv, Shape, DepType
<1>4. CASE End("error")
  BY <1>1, <1>4, FailedAlone
<1>. DEFINE active == {d \in DOMAIN dep : dep[d] \in Active}
<1>5. CASE active = {} /\ cmd' = [cmd EXCEPT !.at = "done", !.exit = "ok"]
  <2>1. cmd' \in CommandType /\ Kept /\ cmd'.at = "done" /\ cmd'.exit = "ok"
    BY <1>1, <1>5, EndEffect DEF End, Codes
  <2>2. Path' /\ Behind' /\ ExitIsTrue'
    BY <1>2, <1>5, <2>1 DEF Path, Behind, ExitIsTrue, At, Kept, Active
  <2>. QED BY <1>1, <1>2, <1>3, <2>1, <2>2, Unasked, Onward
<1>6. CASE cmd' = [cmd EXCEPT !.at = "cancel", !.todo = active]
  <2>1. active \in SUBSET Deps
    BY <1>2
  <2>2. cmd' \in CommandType /\ Kept /\ cmd'.at = "cancel" /\ cmd'.todo = active
    <3>. HIDE DEF active
    <3>. QED BY <1>1, <1>6, <2>1 DEF CommandType, Places, Kept
  <2>3. Path' /\ Behind' /\ ExitIsTrue'
    BY <1>2, <2>2 DEF Path, Behind, ExitIsTrue, At, Kept, Active
  <2>. QED BY <1>1, <1>2, <1>3, <2>2, <2>3, Unasked, Onward
<1>. QED BY <1>4, <1>5, <1>6 DEF List, Ask

\* What is tried and not counted as a failure is canceled, or about to be.
LEMMA CancelKeeps ==
    ASSUME Inv, NEW d \in cmd.todo, Cancel(d)
    PROVE  Inv'
<1>1. /\ cmd.at = "cancel" /\ cmd \in CommandType /\ d \in Deps
      /\ UNCHANGED <<agent, bundle, gh, done>>
      /\ cmd.failures \in Nat /\ cmd.todo \in SUBSET Deps
  BY DEF Cancel, At, Inv, Shape, CommandType
<1>2. cmd.c.kind = "cancel" /\ DOMAIN dep = Deps
  BY <1>1, PathKinds DEF Inv, Behind
<1>3. PICK n \in {0, 1} :
        /\ cmd' = [cmd EXCEPT !.todo = @ \ {d}, !.failures = @ + n]
        /\ \/ dep' = [dep EXCEPT ![d] = IF @ = "queued" THEN "canceled" ELSE "canceling"]
           \/ UNCHANGED dep /\ n = 1
  BY DEF Cancel
<1>4. bundle' \in Nat /\ gh' \in [login : Logins, key : BOOLEAN] /\ DepType'
  <2>1. "canceled" \in Bad /\ "canceling" \in Active
    BY DEF Active, Bad
  <2>. QED BY <1>1, <1>2, <1>3, <2>1 DEF Inv, Shape, DepType
<1>5. DOMAIN dep' = Deps /\ \A x \in Deps : dep'[x] \in {"queued", "running"} =>
          dep[x] \in {"queued", "running"} /\ (x = d => n = 1)
  BY <1>2, <1>3
<1>6. /\ cmd' \in CommandType /\ Kept /\ cmd'.at = "cancel"
      /\ cmd'.todo = cmd.todo \ {d} /\ cmd'.failures = cmd.failures + n
  <2>. DEFINE t == cmd.todo \ {d}
              m == cmd.failures + n
  <2>1. t \in SUBSET Deps /\ m \in Nat /\ cmd' = [cmd EXCEPT !.todo = t, !.failures = m]
    BY <1>1, <1>3
  <2>2. cmd' \in CommandType /\ Kept /\ cmd'.at = "cancel" /\ cmd'.todo = t /\ cmd'.failures = m
    <3>. HIDE DEF t, m
    <3>. QED BY <1>1, <2>1 DEF CommandType, Kept
  <2>. QED BY <2>2
<1>7. Path' /\ ExitIsTrue'
  BY <1>2, <1>6 DEF Path, ExitIsTrue, At, Kept
<1>8. Behind'
  <2>1. ASSUME cmd'.failures = 0, NEW x \in Deps, dep'[x] \in {"queued", "running"}
        PROVE  x \in cmd'.todo
    <3>1. n = 0 /\ cmd.failures = 0
      BY <1>1, <1>6, <2>1
    <3>2. x \in cmd.todo /\ x # d
      BY <1>1, <1>5, <2>1, <3>1 DEF Inv, Behind
    <3>. QED BY <1>6, <3>2
  <2>. QED BY <1>5, <1>6, <2>1 DEF Behind, Kept
<1>. QED BY <1>1, <1>4, <1>6, <1>7, <1>8, Unasked, Onward

LEMMA CanceledKeeps ==
    ASSUME Inv, Canceled
    PROVE  Inv'
<1>1. cmd.at = "cancel" /\ cmd.todo = {} /\ cmd \in CommandType /\ UNCHANGED World
  BY DEF Canceled, At, World, Inv, Shape
<1>2. cmd.c.kind = "cancel" /\ DOMAIN dep = Deps /\ UNCHANGED <<agent, dep, done>>
  BY <1>1, PathKinds DEF Inv, Behind, World
<1>3. bundle' \in Nat /\ gh' \in [login : Logins, key : BOOLEAN] /\ DepType'
  BY <1>1 DEF World, Inv, Shape, DepType
<1>4. CASE cmd.failures # 0
  <2>1. End("error")
    BY <1>4 DEF Canceled
  <2>. QED BY <1>1, <2>1, FailedAlone
<1>5. CASE cmd.failures = 0
  <2>1. End("ok") /\ \A x \in Deps : dep[x] \notin {"queued", "running"}
    BY <1>1, <1>5 DEF Canceled, Inv, Behind
  <2>2. cmd' \in CommandType /\ Kept /\ cmd'.at = "done" /\ cmd'.exit = "ok"
    BY <1>1, <2>1, EndEffect DEF Codes
  <2>3. Path' /\ Behind' /\ ExitIsTrue'
    BY <1>2, <2>1, <2>2 DEF Path, Behind, ExitIsTrue, At, Kept
  <2>. QED BY <1>1, <1>2, <1>3, <2>2, <2>3, Unasked, Onward
<1>. QED BY <1>4, <1>5

LEMMA CallKeeps ==
    ASSUME Inv, Call
    PROVE  Inv'
<1>1. /\ cmd.at = "call" /\ cmd \in CommandType /\ UNCHANGED <<agent, bundle, dep, gh>>
  BY DEF Call, Ask, At, World, Inv, Shape
<1>2. cmd.c.kind \in {"run", "call"}
  BY <1>1, PathKinds
<1>3. bundle' \in Nat /\ gh' \in [login : Logins, key : BOOLEAN] /\ DepType'
  BY <1>1 DEF Inv, Shape, DepType
<1>4. CASE End("error") /\ UNCHANGED done
  BY <1>1, <1>4, FailedAlone DEF World
<1>5. CASE cmd.c.kind = "run" /\ Open("exec") /\ UNCHANGED World
  <2>1. cmd' \in CommandType /\ Kept /\ cmd'.at = "exec"
    BY <1>1, <1>5 DEF Open, CommandType, Places, Kept
  <2>2. Path' /\ Behind' /\ ExitIsTrue'
    BY <1>5, <2>1 DEF Path, Behind, ExitIsTrue, At, Kept
  <2>. QED BY <1>1, <1>3, <1>5, <2>1, <2>2, Unasked, Onward DEF World
<1>6. ASSUME agent # None, cmd.c.kind # "run", done' = done \cup {Did("call")},
             End("ok") \/ End("error")
      PROVE  Inv'
  <2>1. Kept => ServedAsAsked'
    <3>. DEFINE S == {"call"}
    <3>1. done' \subseteq done \cup {Did(what) : what \in S} /\ "put" \notin S
      BY <1>6
    <3>. HIDE DEF S
    <3>. QED BY <1>1, <1>6, <3>1, Asked
  <2>2. CASE End("error")
    BY <1>1, <1>2, <1>3, <2>1, <2>2, Failed, Onward
  <2>3. CASE End("ok")
    <3>1. cmd' \in CommandType /\ Kept /\ cmd'.at = "done" /\ cmd'.exit = "ok"
      BY <1>1, <2>3, EndEffect DEF Codes
    <3>2. Path' /\ Behind'
      BY <1>2, <1>6, <3>1 DEF Path, Behind, Kept
    <3>3. "call" \in {e.what : e \in done'}
      <4>1. Did("call").what = "call"
        BY DEF Did
      <4>. QED BY <1>6, <4>1
    <3>4. ExitIsTrue'
      BY <1>2, <1>6, <3>1, <3>3 DEF ExitIsTrue, At, Kept
    <3>. QED BY <1>1, <1>3, <2>1, <3>1, <3>2, <3>4, Onward
  <2>. QED BY <1>6, <2>2, <2>3
<1>. QED BY <1>4, <1>5, <1>6 DEF Call, Ask, Reach, World

LEMMA ExitsKeeps ==
    ASSUME Inv, Exits
    PROVE  Inv'
<1>1. cmd.at = "exec" /\ cmd.code # None /\ cmd \in CommandType /\ UNCHANGED World
  BY DEF Exits, At, World, Inv, Shape
<1>2. cmd.c.kind = "run"
  BY <1>1, PathKinds
<1>3. UNCHANGED agent /\ bundle' \in Nat /\ gh' \in [login : Logins, key : BOOLEAN] /\ DepType'
  BY <1>1 DEF World, Inv, Shape, DepType
<1>. DEFINE ex == IF cmd.code = 0 THEN "ok" ELSE "failed"
<1>4. End(ex) /\ ex \in Codes
  BY DEF Exits, Codes
<1>5. cmd' \in CommandType /\ Kept /\ cmd'.at = "done" /\ cmd'.exit = ex /\ cmd'.code = cmd.code
  <2>. HIDE DEF ex
  <2>. QED BY <1>1, <1>4, EndEffect
<1>6. Path' /\ Behind'
  BY <1>2, <1>5 DEF Path, Behind, Kept
<1>7. ExitIsTrue'
  <2>1. (cmd'.exit = "ok") = (cmd'.code = 0 /\ cmd'.exit # "error")
    BY <1>5
  <2>. QED BY <1>2, <1>5, <2>1 DEF ExitIsTrue, Kept
<1>. QED BY <1>1, <1>3, <1>5, <1>6, <1>7, Unasked, Onward DEF World
-----------------------------------------------------------------------------
(* The others.                                                              *)

\* A step of theirs moves no command on.
LEMMA Around ==
    ASSUME Inv, cmd' \in CommandType, cmd'.c = cmd.c, cmd'.caps = cmd.caps, cmd'.rel = cmd.rel,
           cmd'.at = cmd.at, cmd'.todo = cmd.todo, cmd'.failures = cmd.failures,
           cmd.at # "done", UNCHANGED done,
           agent' \in Releases \cup {None}, bundle' \in Nat,
           gh' \in [login : Logins, key : BOOLEAN], DepType', DOMAIN dep' = DOMAIN dep,
           \A d \in DOMAIN dep : dep'[d] \in {"queued", "running"} => dep[d] \in {"queued", "running"},
           Newer'
    PROVE  Inv'
<1>1. Path'
  BY DEF Inv, Path
<1>2. Known'
  BY DEF Inv, Known
<1>3. ServedAsAsked'
  BY DEF Inv, ServedAsAsked, On, Able
<1>4. ExitIsTrue'
  BY DEF ExitIsTrue, At
<1>5. Behind'
  <2>1. cmd.at = "cancel" => DOMAIN dep = Deps
    BY PathKinds DEF Inv, Behind
  <2>. QED BY <2>1 DEF Inv, Behind
<1>. QED BY <1>1, <1>2, <1>3, <1>4, <1>5 DEF Inv, Shape

LEMMA StopKeeps ==
    ASSUME Inv, Stop
    PROVE  Inv'
<1>1. /\ cmd.at # "done" /\ cmd \in CommandType /\ agent' = None
      /\ UNCHANGED <<bundle, dep, gh, done>>
  BY DEF Stop, At, Inv, Shape
<1>2. /\ cmd' \in CommandType /\ Kept /\ cmd'.at = cmd.at
      /\ cmd'.todo = cmd.todo /\ cmd'.failures = cmd.failures
  BY <1>1 DEF Stop, CommandType, Kept
<1>3. bundle' \in Nat /\ gh' \in [login : Logins, key : BOOLEAN] /\ DepType' /\ Newer'
  BY <1>1 DEF Inv, Shape, DepType, Newer
<1>. QED BY <1>1, <1>2, <1>3, Around DEF Kept

\* That an older release came up is known from here on.
LEMMA BootKeeps ==
    ASSUME Inv, NEW r \in Releases, Boot(r)
    PROVE  Inv'
<1>. DEFINE down == cmd.older \/ (cmd.rel # None /\ r.v < cmd.rel.v)
<1>1. /\ cmd.at # "done" /\ cmd \in CommandType /\ agent' = r
      /\ UNCHANGED <<bundle, gh, done>>
  BY DEF Boot, At, Inv, Shape
<1>2. down \in BOOLEAN /\ cmd' = [cmd EXCEPT !.older = down]
  <2>1. cmd' = [cmd EXCEPT !.older = down]
    BY DEF Boot
  <2>2. cmd.older \in BOOLEAN
    BY <1>1 DEF CommandType
  <2>. QED BY <2>1, <2>2
<1>3. /\ cmd' \in CommandType /\ cmd'.c = cmd.c /\ cmd'.caps = cmd.caps /\ cmd'.rel = cmd.rel
      /\ cmd'.at = cmd.at /\ cmd'.todo = cmd.todo /\ cmd'.failures = cmd.failures
      /\ cmd'.older = down
  <2>. HIDE DEF down
  <2>. QED BY <1>1, <1>2 DEF CommandType
<1>4. dep' = [d \in DOMAIN dep |-> IF dep[d] \in Active THEN "interrupted" ELSE dep[d]]
  BY DEF Boot
<1>5. DepType' /\ DOMAIN dep' = DOMAIN dep
  BY <1>4 DEF Inv, Shape, DepType, Active, Bad
<1>6. \A d \in DOMAIN dep : dep'[d] \notin {"queued", "running"} \/ dep'[d] = dep[d]
  BY <1>4
<1>7. Newer'
  <2>1. ~down => (cmd.rel # None => cmd.rel.v <= r.v)
    <3>1. cmd.rel # None => cmd.rel \in Releases /\ cmd.rel.v \in Nat
      BY <1>1, ClientAssumption DEF CommandType
    <3>2. r.v \in Nat
      BY ClientAssumption
    <3>. QED BY <3>1, <3>2
  <2>. QED BY <1>1, <1>3, <2>1 DEF Newer
<1>8. bundle' \in Nat /\ gh' \in [login : Logins, key : BOOLEAN]
  BY <1>1 DEF Inv, Shape
<1>. QED BY <1>1, <1>3, <1>5, <1>6, <1>7, <1>8, Around

LEMMA AdvanceKeeps ==
    ASSUME Inv, NEW d \in DOMAIN dep, Advance(d)
    PROVE  Inv'
<1>1. /\ cmd.at # "done" /\ UNCHANGED <<agent, cmd, bundle, gh, done>> /\ cmd \in CommandType
  BY DEF Advance, At, Inv, Shape
<1>2. PICK s \in {"running", "superseded", "success", "failed", "canceled"} :
        /\ dep' = [dep EXCEPT ![d] = s]
        /\ s = "running" => dep[d] = "queued"
  BY DEF Advance
<1>3. s \in Active \cup Good \cup Bad
  BY <1>2 DEF Active, Good, Bad
<1>4. DOMAIN dep' = DOMAIN dep /\ DepType'
  BY <1>2, <1>3 DEF Inv, Shape, DepType
<1>5. \A x \in DOMAIN dep : dep'[x] \in {"queued", "running"} => dep[x] \in {"queued", "running"}
  BY <1>2
<1>6. bundle' \in Nat /\ gh' \in [login : Logins, key : BOOLEAN] /\ Newer'
  BY <1>1 DEF Inv, Shape, Newer
<1>. QED BY <1>1, <1>4, <1>5, <1>6, Around DEF Inv, Shape

LEMMA ContainerKeeps ==
    ASSUME Inv, NEW n \in {0, 1}, ContainerEnds(n)
    PROVE  Inv'
<1>1. /\ cmd.at = "exec" /\ cmd \in CommandType /\ UNCHANGED World
  BY DEF ContainerEnds, At, Inv, Shape
<1>2. /\ cmd' \in CommandType /\ Kept /\ cmd'.at = cmd.at
      /\ cmd'.todo = cmd.todo /\ cmd'.failures = cmd.failures
  BY <1>1 DEF ContainerEnds, CommandType, Kept
<1>3. /\ UNCHANGED <<agent, dep, done>> /\ DepType' /\ Newer'
      /\ bundle' \in Nat /\ gh' \in [login : Logins, key : BOOLEAN]
  BY <1>1, <1>2 DEF World, Inv, Shape, DepType, Newer, Kept
<1>. QED BY <1>1, <1>2, <1>3, Around DEF Kept, Inv, Shape

LEMMA OthersKeep ==
    ASSUME Inv, OtherPush \/ Developer
    PROVE  Inv'
<1>1. /\ cmd.at # "done" /\ UNCHANGED <<agent, cmd, dep, done>> /\ cmd \in CommandType
  BY DEF OtherPush, Developer, At, Inv, Shape
<1>2. bundle' \in Nat
  BY DEF OtherPush, Developer, Inv, Shape
<1>3. gh' \in [login : Logins, key : BOOLEAN]
  BY DEF OtherPush, Developer, Inv, Shape, Logins
<1>4. DepType' /\ Newer'
  BY <1>1 DEF Inv, Shape, DepType, Newer
<1>. QED BY <1>1, <1>2, <1>3, <1>4, Around DEF Inv, Shape

LEMMA NextInv ==
    ASSUME Inv, [Next]_vars
    PROVE  Inv'
<1>1. CASE Connect
  BY <1>1, ConnectKeeps
<1>2. CASE Check \/ Register \/ Confirm \/ Tick \/ Probe
  BY <1>2, SourceKeeps
<1>3. CASE Post
  BY <1>3, PostKeeps
<1>4. CASE Follow \/ Finished \/ StreamEnds
  BY <1>4, StreamKeeps
<1>5. CASE Head
  BY <1>5, HeadKeeps
<1>6. CASE Put
  BY <1>6, PutKeeps
<1>7. CASE ListGroups \/ Apply
  BY <1>7, GroupKeeps
<1>8. CASE List
  BY <1>8, ListKeeps
<1>9. CASE Canceled
  BY <1>9, CanceledKeeps
<1>10. CASE \E d \in cmd.todo : Cancel(d)
  BY <1>10, CancelKeeps
<1>11. CASE Call
  BY <1>11, CallKeeps
<1>12. CASE Exits
  BY <1>12, ExitsKeeps
<1>13. CASE Stop
  BY <1>13, StopKeeps
<1>14. CASE \E r \in Releases : Boot(r)
  BY <1>14, BootKeeps
<1>15. CASE \E d \in DOMAIN dep : Advance(d)
  BY <1>15, AdvanceKeeps
<1>16. CASE \E n \in {0, 1} : ContainerEnds(n)
  BY <1>16, ContainerKeeps
<1>17. CASE OtherPush \/ Developer
  BY <1>17, OthersKeep
<1>18. CASE UNCHANGED vars
  BY <1>18 DEF vars, Inv, Shape, DepType, Path, Known, Newer, Behind, ServedAsAsked,
               ExitIsTrue, At, On, Able
<1>. QED BY <1>1, <1>2, <1>3, <1>4, <1>5, <1>6, <1>7, <1>8, <1>9, <1>10, <1>11, <1>12,
            <1>13, <1>14, <1>15, <1>16, <1>17, <1>18 DEF Next, Step
-----------------------------------------------------------------------------
\* Whatever releases come and go, no command has an agent read over a field of
\* its request or replace a revision it was not shown, as long as no older
\* release comes up after the handshake.
THEOREM ServedHolds == Spec => []ServedAsAsked
<1>1. Inv => ServedAsAsked
  BY DEF Inv
<1>. QED BY <1>1, InitInv, NextInv, PTL DEF Spec

\* The exit code of every command is true, however often agents stop and come
\* back, requests and streams break and others push, cancel and deploy.
THEOREM ExitHolds == Spec => []ExitIsTrue
<1>1. Inv => ExitIsTrue
  BY DEF Inv
<1>. QED BY <1>1, InitInv, NextInv, PTL DEF Spec
=============================================================================
