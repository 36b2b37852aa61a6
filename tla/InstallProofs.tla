--------------------------- MODULE InstallProofs ---------------------------
(***************************************************************************)
(* What Install promises of every host it is given, every number of        *)
(* commands, failures and cuts and every set of versions.                  *)
(*                                                                         *)
(* The inductive invariant is a conjunction of seven parts besides the     *)
(* types, each of which says what a command that is under way may count    *)
(* on and what it has left behind:                                         *)
(*   Path        which steps a command of a kind can be at;                *)
(*   Tunnels     a config.yml of ours has its credentials and its service, *)
(*               or one who wrote it is under way or was cut off;          *)
(*   Phases      how far a migration is, and what the ledger then says;    *)
(*   Apart       the old name and the new one are never both a user, nor   *)
(*               an old path left in the settings, unless a migration was  *)
(*               left in the middle;                                       *)
(*   TreesApart  nor is there a tree of the old name next to the new one;  *)
(*   Runs        what runs is what is installed;                           *)
(*   Set         what a setup in which nothing failed has done, by Rank.   *)
(* Each action has a lemma that it keeps them all.                         *)
(***************************************************************************)
EXTENDS Install, TLAPS

-----------------------------------------------------------------------------
(* The invariant.                                                           *)

Early == {"stop", "group", "user"}
Late  == {"mvlib", "mvetc", "mvlog", "rewrite", "oldunit"}

\* How far a setup has come.
Rank(p) == CASE p \in {"obtain", "binary"} -> 0
             [] p \in Early \cup Late -> 1
             [] p = "useradd" -> 2
             [] p = "docker"  -> 3
             [] p = "login"   -> 4
             [] p = "lib"     -> 5
             [] p = "log"     -> 6
             [] p = "etc"     -> 7
             [] p = "toml"    -> 8
             [] p = "unit"    -> 9
             [] p = "reload"  -> 10
             [] p = "enable"  -> 11
             [] OTHER         -> 12

\* What is left undone, with what the command under way leaves.
Pend == undone \cup cmd.left

\* Steps before the move of a tree, once the user is renamed.
Before(t) == CASE t = "lib" -> {"mvlib"}
               [] t = "etc" -> {"mvlib", "mvetc"}
               [] t = "log" -> {"mvlib", "mvetc", "mvlog"}

Moving   == Early \cup Late \cup {"open", "mark", "report", "done"}
Dropping == {"disable", "rmunit", "unload", "userdel", "rmlib", "rmetc", "rmlog", "report", "done"}

\* Which steps a command can be at.
Path ==
    /\ cmd.kind = "idle" => cmd.at = "done"
    /\ cmd.kind \in {"setup", "update"} => cmd.at \notin (Dropping \cup {"open", "mark"}) \ {"report", "done"}
    /\ cmd.kind = "migrate" => cmd.at \in Moving
    /\ cmd.kind = "uninstall" => cmd.at \in Dropping
    /\ cmd.at \in {"rmlib", "rmetc", "rmlog"} => cmd.flavor = "purge"
    /\ cmd.flavor = "purge" => cmd.kind = "uninstall"
    /\ cmd.kind \in {"setup", "update"} => cmd.version \in Versions
    /\ cmd.kind \notin {"setup", "update"} => ~cmd.swapped
    /\ cmd.at \in {"obtain", "binary", "open"} => ~cmd.swapped /\ cmd.left = {}

\* The config that is written has come with its credentials, over no other.
Prepared == \/ cmd.at \in {"validate", "service"}
            \/ cmd.at = "section" /\ ~cmd.cferrs /\ cmd.flavor # "adopted"

Tunnels ==
    /\ host.service => host.config = "ours" /\ host.creds
    /\ host.config = "ours" /\ "tunnel" \notin Pend => host.service
    /\ cmd.at \in {"guard", "tunnel", "creds", "config"} => host.config = "none"
    /\ cmd.at = "config" => host.creds
    /\ Prepared => host.creds /\ host.config = "ours"
    /\ cmd.at \in {"tunnel", "creds", "config"} \/ Prepared => ~host.foreign

\* Nothing has kept the tree t from its move.
Safe(t) == "migration" \notin Pend /\ (t = "lib" => "opened" \notin Pend)

Phases ==
    /\ cmd.at \in Early => Legacy
    /\ cmd.at \in Late \cup {"mark"} => "pi" \notin host.users
    /\ cmd.at = "mark" => "migration" \notin cmd.left
    /\ cmd.at \in Early \cup Late /\ "migration" \in cmd.left => cmd.errs
    /\ cmd.at \in Early \cup Late /\ "migration" \notin undone => ~host.ledger
    /\ host.ledger /\ "migration" \notin undone => "pi" \notin host.users /\ "migration" \notin cmd.left

Apart ==
    "migration" \notin Pend =>
        /\ ~("pi" \in host.users /\ "rpi" \in host.users)
        /\ cmd.kind \in {"setup", "update"} /\ Rank(cmd.at) >= 2 /\ cmd.at # "done" => "pi" \notin host.users
        /\ cmd.at \notin {"mvlog", "rewrite"} => host.toml # "legacy"

TreesApart ==
    \A t \in Trees : Safe(t) =>
        /\ ~(host.tree[t]["pi"] = "legacy" /\ host.tree[t]["rpi"] # "none")
        /\ "pi" \notin host.users /\ cmd.at \notin Before(t) => host.tree[t]["pi"] # "legacy"

\* The binary that runs.
Runs == "swap" \notin Pend /\ ~(cmd.at # "done" /\ cmd.swapped) => host.active \in {None, host.bin}

\* A setup in which nothing failed yet.
Set ==
    cmd.kind \in {"setup", "update"} /\ ~cmd.failed =>
        /\ ~cmd.errs /\ ~cmd.cferrs /\ cmd.left \subseteq {"tunnel"}
        /\ "tunnel" \in cmd.left => cmd.at \in {"validate", "section", "service"} /\ cmd.flavor # "adopted"
        /\ Rank(cmd.at) >= 1 => host.bin # None
        /\ Rank(cmd.at) >= 3 => "rpi" \in host.users
        /\ Rank(cmd.at) >= 4 => "docker" \in host.member
        /\ Rank(cmd.at) >= 5 => "login" \in host.member
        /\ Rank(cmd.at) >= 6 => host.tree["lib"]["rpi"] # "none" /\ host.owned
        /\ Rank(cmd.at) >= 7 => host.tree["log"]["rpi"] # "none"
        /\ Rank(cmd.at) >= 8 => host.tree["etc"]["rpi"] # "none"
        /\ Rank(cmd.at) >= 9 => host.toml # "none"
        /\ Rank(cmd.at) >= 10 => host.unit = "canonical"
        /\ Rank(cmd.at) >= 11 => host.loaded = "canonical"
        /\ Rank(cmd.at) >= 12 => host.enabled /\ (host.toml # "legacy" => host.active # None)
        /\ cmd.flavor = "adopted" => cmd.at \in {"section", "report", "restart", "done"} /\ host.creds
        /\ cmd.flavor = "full" => cmd.at # "scaffold"
        /\ cmd.flavor \in {"full", "adopted"} /\ cmd.at \in {"service", "report", "restart", "done"} =>
              host.section /\ host.creds
        /\ cmd.flavor = "full" /\ cmd.at \in {"report", "restart", "done"} => host.service

IInv == TypeOK /\ Path /\ Tunnels /\ Phases /\ Apart /\ TreesApart /\ Runs /\ Set

-----------------------------------------------------------------------------
(* The order of the steps.                                                  *)

Pairs == {<<"obtain", "binary">>,
  <<"stop", "group">>, <<"group", "user">>, <<"user", "mvlib">>, <<"mvlib", "mvetc">>,
  <<"mvetc", "mvlog">>, <<"mvlog", "rewrite">>, <<"rewrite", "oldunit">>,
  <<"useradd", "docker">>, <<"docker", "login">>, <<"login", "lib">>, <<"lib", "log">>,
  <<"log", "etc">>, <<"etc", "toml">>, <<"toml", "unit">>, <<"unit", "reload">>, <<"reload", "enable">>,
  <<"guard", "tunnel">>, <<"tunnel", "creds">>, <<"creds", "config">>, <<"config", "validate">>,
  <<"validate", "section">>, <<"adopt", "section">>,
  <<"disable", "rmunit">>, <<"rmunit", "unload">>, <<"unload", "userdel">>,
  <<"rmlib", "rmetc">>, <<"rmetc", "rmlog">>}

Within(seq, p, q) == \E i \in 2..Len(seq) : seq[i - 1] = p /\ seq[i] = q

\* The pairs are those of steps that follow each other, and no others.
LEMMA WithinPairs ==
    ASSUME NEW p, NEW q, NEW seq \in Sequences, Within(seq, p, q)
    PROVE  <<p, q>> \in Pairs
<1>1. CASE seq = Sourcing
  <2>1. PICK i \in 2..2 : Sourcing[i - 1] = p /\ Sourcing[i] = q
    BY <1>1 DEF Within, Sourcing
  <2>. QED BY <2>1 DEF Sourcing, Pairs
<1>2. CASE seq = Migrating
  <2>1. PICK i \in 2..8 : Migrating[i - 1] = p /\ Migrating[i] = q
    BY <1>2 DEF Within, Migrating
  <2>2. i \in {2, 3, 4, 5, 6, 7, 8}
    OBVIOUS
  <2>. QED BY <2>1, <2>2 DEF Migrating, Pairs
<1>3. CASE seq = Basics
  <2>1. PICK i \in 2..10 : Basics[i - 1] = p /\ Basics[i] = q
    BY <1>3 DEF Within, Basics
  <2>2. i \in {2, 3, 4, 5, 6, 7, 8, 9, 10}
    OBVIOUS
  <2>. QED BY <2>1, <2>2 DEF Basics, Pairs
<1>4. CASE seq = Tunneling
  <2>1. PICK i \in 2..6 : Tunneling[i - 1] = p /\ Tunneling[i] = q
    BY <1>4 DEF Within, Tunneling
  <2>2. i \in {2, 3, 4, 5, 6}
    OBVIOUS
  <2>. QED BY <2>1, <2>2 DEF Tunneling, Pairs
<1>5. CASE seq = Adopting
  <2>1. PICK i \in 2..2 : Adopting[i - 1] = p /\ Adopting[i] = q
    BY <1>5 DEF Within, Adopting
  <2>. QED BY <2>1 DEF Adopting, Pairs
<1>6. CASE seq = Removing
  <2>1. PICK i \in 2..4 : Removing[i - 1] = p /\ Removing[i] = q
    BY <1>6 DEF Within, Removing
  <2>2. i \in {2, 3, 4}
    OBVIOUS
  <2>. QED BY <2>1, <2>2 DEF Removing, Pairs
<1>7. CASE seq = Purging
  <2>1. PICK i \in 2..3 : Purging[i - 1] = p /\ Purging[i] = q
    BY <1>7 DEF Within, Purging
  <2>2. i \in {2, 3}
    OBVIOUS
  <2>. QED BY <2>1, <2>2 DEF Purging, Pairs
<1>. QED BY <1>1, <1>2, <1>3, <1>4, <1>5, <1>6, <1>7 DEF Sequences

\* Each pair is of a sequence.
LEMMA PairsWithin ==
    ASSUME NEW p, NEW q, <<p, q>> \in Pairs
    PROVE  Follows(p, q) /\ q \in Steps
<1>1. ASSUME NEW seq \in Sequences, NEW i \in 2..Len(seq), seq[i - 1] = p, seq[i] = q
      PROVE  Follows(p, q) /\ q \in Steps
  <2>1. q \in StepsOf(seq)
    <3>1. i \in DOMAIN seq
      BY DEF Sequences, Sourcing, Migrating, Basics, Tunneling, Adopting, Removing, Purging
    <3>. QED BY <1>1, <3>1 DEF StepsOf
  <2>. QED BY <1>1, <2>1 DEF Follows, Steps
<1>. DEFINE Is(seq, i) == i \in 2..Len(seq) /\ seq[i - 1] = p /\ seq[i] = q
<1>2. ASSUME NEW seq \in Sequences, \E i \in 2..10 : Is(seq, i) PROVE Follows(p, q) /\ q \in Steps
  BY <1>1, <1>2
<1>3. CASE <<p, q>> = <<"obtain", "binary">>
  <2>1. Is(Sourcing, 2)
    BY <1>3 DEF Sourcing
  <2>. QED BY <1>2, <2>1 DEF Sequences
<1>4. CASE p \in {"stop", "group", "user", "mvlib", "mvetc", "mvlog", "rewrite"}
  <2>1. \E i \in 2..10 : Is(Migrating, i)
    <3>1. Is(Migrating, 2) \/ Is(Migrating, 3) \/ Is(Migrating, 4) \/ Is(Migrating, 5)
          \/ Is(Migrating, 6) \/ Is(Migrating, 7) \/ Is(Migrating, 8)
      BY <1>4 DEF Migrating, Pairs
    <3>. QED BY <3>1
  <2>. QED BY <1>2, <2>1 DEF Sequences
<1>5. CASE p \in {"useradd", "docker", "login", "lib", "log", "etc", "toml", "unit", "reload"}
  <2>1. \E i \in 2..10 : Is(Basics, i)
    <3>1. Is(Basics, 2) \/ Is(Basics, 3) \/ Is(Basics, 4) \/ Is(Basics, 5) \/ Is(Basics, 6)
          \/ Is(Basics, 7) \/ Is(Basics, 8) \/ Is(Basics, 9) \/ Is(Basics, 10)
      BY <1>5 DEF Basics, Pairs
    <3>. QED BY <3>1
  <2>. QED BY <1>2, <2>1 DEF Sequences
<1>6. CASE p \in {"guard", "tunnel", "creds", "config", "validate"}
  <2>1. \E i \in 2..10 : Is(Tunneling, i)
    <3>1. Is(Tunneling, 2) \/ Is(Tunneling, 3) \/ Is(Tunneling, 4) \/ Is(Tunneling, 5)
          \/ Is(Tunneling, 6)
      BY <1>6 DEF Tunneling, Pairs
    <3>. QED BY <3>1
  <2>. QED BY <1>2, <2>1 DEF Sequences
<1>7. CASE p = "adopt"
  <2>1. Is(Adopting, 2)
    BY <1>7 DEF Adopting, Pairs
  <2>. QED BY <1>2, <2>1 DEF Sequences
<1>8. CASE p \in {"disable", "rmunit", "unload"}
  <2>1. \E i \in 2..10 : Is(Removing, i)
    <3>1. Is(Removing, 2) \/ Is(Removing, 3) \/ Is(Removing, 4)
      BY <1>8 DEF Removing, Pairs
    <3>. QED BY <3>1
  <2>. QED BY <1>2, <2>1 DEF Sequences
<1>9. CASE p \in {"rmlib", "rmetc"}
  <2>1. \E i \in 2..10 : Is(Purging, i)
    <3>1. Is(Purging, 2) \/ Is(Purging, 3)
      BY <1>9 DEF Purging, Pairs
    <3>. QED BY <3>1
  <2>. QED BY <1>2, <2>1 DEF Sequences
<1>. QED BY <1>3, <1>4, <1>5, <1>6, <1>7, <1>8, <1>9 DEF Pairs

\* The step after one that has no other rule.
LEMMA NextStep ==
    ASSUME NEW p, NEW q, <<p, q>> \in Pairs
    PROVE  Then(p) = q
<1>. DEFINE c == CHOOSE x \in Steps : Follows(p, x)
<1>1. c \in Steps /\ Follows(p, c)
  <2>1. \E x \in Steps : Follows(p, x)
    BY PairsWithin
  <2>. QED BY <2>1
<1>2. Then(p) = c
  <2>. HIDE DEF c
  <2>1. p \notin {"binary", "open", "oldunit", "enable", "token", "section", "userdel", "report",
                  "mark", "scaffold", "service", "rmlog", "restart"}
    BY DEF Pairs
  <2>. QED BY <2>1 DEF Then, c
<1>. HIDE DEF c
<1>3. <<p, c>> \in Pairs
  BY <1>1, WithinPairs DEF Follows, Within
<1>. QED BY <1>2, <1>3 DEF Pairs

-----------------------------------------------------------------------------
(* Steps.                                                                   *)

AllSteps == {"obtain", "binary", "stop", "group", "user", "mvlib", "mvetc", "mvlog", "rewrite",
     "oldunit", "useradd", "docker", "login", "lib", "log", "etc", "toml", "unit", "reload", "enable",
     "guard", "tunnel", "creds", "config", "validate", "section", "adopt",
     "disable", "rmunit", "unload", "userdel", "rmlib", "rmetc", "rmlog",
     "open", "mark", "token", "scaffold", "service", "report", "restart"}

\* The steps, one by one.
LEMMA TheSteps ==
    /\ Steps = AllSteps
    /\ StepsOf(Migrating) = Early \cup Late
    /\ StepsOf(Tunneling) = {"guard", "tunnel", "creds", "config", "validate", "section"}
<1>1. /\ StepsOf(Sourcing) = {"obtain", "binary"}
      /\ StepsOf(Migrating) = {"stop", "group", "user", "mvlib", "mvetc", "mvlog", "rewrite", "oldunit"}
      /\ StepsOf(Basics) = {"useradd", "docker", "login", "lib", "log", "etc", "toml", "unit", "reload", "enable"}
      /\ StepsOf(Tunneling) = {"guard", "tunnel", "creds", "config", "validate", "section"}
      /\ StepsOf(Adopting) = {"adopt", "section"}
      /\ StepsOf(Removing) = {"disable", "rmunit", "unload", "userdel"}
      /\ StepsOf(Purging) = {"rmlib", "rmetc", "rmlog"}
  BY DEF StepsOf, Sourcing, Migrating, Basics, Tunneling, Adopting, Removing, Purging
<1>2. ASSUME NEW p PROVE p \in Steps <=> p \in AllSteps
  <2>1. p \in Steps <=>
           \/ p \in StepsOf(Sourcing) \/ p \in StepsOf(Migrating) \/ p \in StepsOf(Basics)
           \/ p \in StepsOf(Tunneling) \/ p \in StepsOf(Adopting) \/ p \in StepsOf(Removing)
           \/ p \in StepsOf(Purging)
           \/ p \in {"open", "mark", "token", "scaffold", "service", "report", "restart"}
    <3>1. p \in Steps <=> \/ \E seq \in Sequences : p \in StepsOf(seq)
                         \/ p \in {"open", "mark", "token", "scaffold", "service", "report", "restart"}
      BY DEF Steps
    <3>. QED BY <3>1 DEF Sequences
  <2>2. /\ p \in StepsOf(Sourcing) <=> p \in {"obtain", "binary"}
        /\ p \in StepsOf(Migrating) <=> p \in {"stop", "group", "user", "mvlib", "mvetc", "mvlog", "rewrite", "oldunit"}
        /\ p \in StepsOf(Basics) <=>
               p \in {"useradd", "docker", "login", "lib", "log", "etc", "toml", "unit", "reload", "enable"}
        /\ p \in StepsOf(Tunneling) <=> p \in {"guard", "tunnel", "creds", "config", "validate", "section"}
        /\ p \in StepsOf(Adopting) <=> p \in {"adopt", "section"}
        /\ p \in StepsOf(Removing) <=> p \in {"disable", "rmunit", "unload", "userdel"}
        /\ p \in StepsOf(Purging) <=> p \in {"rmlib", "rmetc", "rmlog"}
    BY <1>1
  <2>. QED BY <2>1, <2>2 DEF AllSteps
<1>3. Steps = AllSteps
  BY <1>2
<1>4. StepsOf(Migrating) = Early \cup Late
  BY <1>1 DEF Early, Late
<1>. QED BY <1>1, <1>3, <1>4

\* How far each step is.
LEMMA Ranks ==
    /\ Rank("obtain") = 0 /\ Rank("binary") = 0
    /\ \A p \in Early \cup Late : Rank(p) = 1
    /\ Rank("useradd") = 2 /\ Rank("docker") = 3 /\ Rank("login") = 4 /\ Rank("lib") = 5
    /\ Rank("log") = 6 /\ Rank("etc") = 7 /\ Rank("toml") = 8 /\ Rank("unit") = 9
    /\ Rank("reload") = 10 /\ Rank("enable") = 11
    /\ \A p \in {"guard", "tunnel", "creds", "config", "validate", "section", "adopt",
                 "token", "scaffold", "service", "report", "restart", "done"} : Rank(p) = 12
BY DEF Rank, Early, Late

Fields == {"users", "groups", "member", "tree", "toml", "owned", "unit", "loaded", "enabled", "bin",
           "active", "ledger", "tunnel", "creds", "config", "userunit", "section", "service", "foreign"}

\* Of the host only these may change.
Keeps(changed) == host' \in Host /\ \A f \in Fields \ changed : host'[f] = host[f]

\* The command goes on from p to q, and nothing has failed.
Goes(p, q) ==
    /\ cmd.at = p /\ cmd'.at = q /\ cmd' \in Cmd /\ undone' = undone /\ spent' = spent
    /\ cmd'.kind = cmd.kind /\ cmd'.flavor = cmd.flavor /\ cmd'.errs = cmd.errs
    /\ cmd'.cferrs = cmd.cferrs /\ cmd'.failed = cmd.failed /\ cmd'.swapped = cmd.swapped
    /\ cmd'.left = cmd.left /\ cmd'.version = cmd.version

\* A step that succeeds goes on to the next.
LEMMA DoGoes ==
    ASSUME TypeOK, NEW p, NEW h, Do(p, h), NEW q \in AllSteps \cup {"done"}, Then(p) = q
    PROVE  Goes(p, q) /\ host' = h /\ Needs(p)
BY TheSteps DEF Do, Goes, TypeOK, Cmd

\* The same where the next step is the one that follows it.
LEMMA GoesOn ==
    ASSUME TypeOK, NEW p, NEW h, Do(p, h), NEW q, <<p, q>> \in Pairs
    PROVE  Goes(p, q) /\ host' = h /\ Needs(p)
<1>1. Then(p) = q /\ q \in AllSteps
  BY NextStep, PairsWithin, TheSteps
<1>. QED BY <1>1, DoGoes

\* A step keeps the types if the host keeps its own.
LEMMA TypedGoes ==
    ASSUME TypeOK, NEW p, NEW q, Goes(p, q), host' \in Host
    PROVE  TypeOK'
BY DEF TypeOK, Goes

\* A step that leaves cloudflared alone.
LEMMA TunnelsQuiet ==
    ASSUME Tunnels, NEW p, NEW q, Goes(p, q),
           UNCHANGED <<host.service, host.config, host.creds, host.foreign>>,
           q \notin {"guard", "tunnel", "creds", "config", "validate", "service", "section"}
    PROVE  Tunnels'
BY DEF Tunnels, Goes, Prepared, Pend

\* From p to q, with nothing new left undone that a migration would feel.
Steady(p, q) ==
    /\ cmd.at = p /\ cmd'.at = q /\ cmd'.kind = cmd.kind /\ undone' = undone
    /\ "migration" \in cmd'.left <=> "migration" \in cmd.left
    /\ "opened" \in cmd'.left <=> "opened" \in cmd.left

\* A setup that is past the migration, if there was one.
Past(p) == cmd.kind \in {"setup", "update"} /\ Rank(p) >= 2 /\ p # "done"

\* A step that is not of a migration makes a user or a tree only past it.
LEMMA MigrationQuiet ==
    ASSUME Phases, Apart, TreesApart, NEW p, NEW q, Steady(p, q),
           p \notin Early \cup Late \cup {"mark"}, q \notin Early \cup Late \cup {"mark"},
           Past(q) => Past(p),
           "pi" \in host'.users <=> "pi" \in host.users,
           "rpi" \in host'.users => "rpi" \in host.users \/ Past(p),
           \A t \in Trees : /\ host'.tree[t]["pi"] = host.tree[t]["pi"]
                            /\ host'.tree[t]["rpi"] # "none" => host.tree[t]["rpi"] # "none" \/ Past(p),
           host'.toml = "legacy" => host.toml = "legacy",
           host'.ledger => host.ledger
    PROVE  Phases' /\ Apart' /\ TreesApart'
<1>1. Phases'
  BY DEF Phases, Steady
<1>2. Apart'
  BY DEF Apart, Steady, Pend, Late, Past
<1>3. TreesApart'
  <2>1. ASSUME "migration" \notin Pend, Past(p) PROVE "pi" \notin host.users
    BY <2>1 DEF Apart, Past, Steady
  <2>2. ASSUME NEW t \in Trees, Safe(t)'
        PROVE  /\ ~(host'.tree[t]["pi"] = "legacy" /\ host'.tree[t]["rpi"] # "none")
               /\ "pi" \notin host'.users => host'.tree[t]["pi"] # "legacy"
    <3>1. Safe(t) /\ "migration" \notin Pend
      BY <2>2 DEF Safe, Pend, Steady
    <3>2. cmd.at \notin Before(t)
      BY DEF Before, Steady, Late, Trees
    <3>3. /\ ~(host.tree[t]["pi"] = "legacy" /\ host.tree[t]["rpi"] # "none")
          /\ "pi" \notin host.users => host.tree[t]["pi"] # "legacy"
      BY <3>1, <3>2 DEF TreesApart
    <3>. QED BY <3>1, <3>3, <2>1
  <2>. QED BY <2>2 DEF TreesApart
<1>. QED BY <1>1, <1>2, <1>3

\* What runs and what is installed stay, and so does what tells them apart.
LEMMA RunsQuiet ==
    ASSUME Runs, UNCHANGED <<host.active, host.bin>>,
           "swap" \in Pend => "swap" \in Pend',
           cmd.at # "done" /\ cmd.swapped => "swap" \in Pend' \/ (cmd'.at # "done" /\ cmd'.swapped)
    PROVE  Runs'
BY DEF Runs

-----------------------------------------------------------------------------
(* The basics.                                                              *)

Basic == {"useradd", "docker", "login", "lib", "log", "etc", "toml", "unit", "reload", "enable"}

\* What the basics leave alone, whatever else they do.
LEMMA BasicStep ==
    ASSUME IInv, NEW p \in Basic, NEW q \in Basic \cup {"token", "scaffold", "report"}, Goes(p, q),
           host' \in Host,
           UNCHANGED <<host.service, host.config, host.creds, host.foreign, host.ledger>>,
           host'.users \in {host.users, host.users \cup {"rpi"}},
           \A t \in Trees : host'.tree[t]["pi"] = host.tree[t]["pi"],
           host'.toml = "legacy" => host.toml = "legacy"
    PROVE  TypeOK' /\ Path' /\ Tunnels' /\ Phases' /\ Apart' /\ TreesApart'
<1>. USE DEF IInv
<1>1. cmd.kind \in {"setup", "update"}
  BY DEF Path, Goes, Basic, Moving, Dropping, Early, Late, TypeOK, Cmd
<1>2. Rank(p) >= 2
  BY Ranks DEF Basic
<1>3. /\ p # "done" /\ p \notin Early \cup Late \cup {"mark"}
      /\ q # "done" /\ q \notin Early \cup Late \cup {"mark"}
  BY DEF Basic, Early, Late
<1>4. TypeOK'
  BY TypedGoes
<1>5. Path'
  <2>1. cmd'.kind = cmd.kind /\ cmd'.flavor = cmd.flavor /\ cmd'.swapped = cmd.swapped /\ cmd'.at = q
        /\ cmd'.version = cmd.version
    BY DEF Goes
  <2>2. q \notin Dropping \/ q = "report"
    BY DEF Basic, Dropping
  <2>3. q \notin {"obtain", "binary", "open", "mark", "rmlib", "rmetc", "rmlog"}
    BY DEF Basic
  <2>. QED BY <1>1, <2>1, <2>2, <2>3 DEF Path
<1>6. Tunnels'
  BY TunnelsQuiet DEF Basic
<1>7. Phases' /\ Apart' /\ TreesApart'
  BY <1>1, <1>2, <1>3, MigrationQuiet DEF Past, Goes, Steady
<1>. QED BY <1>4, <1>5, <1>6, <1>7

LEMMA UserAddKeeps == ASSUME IInv, UserAdd PROVE IInv'
<1>. USE DEF IInv
<1>. DEFINE h == IF "rpi" \in host.users THEN host
                 ELSE [host EXCEPT !.users = @ \cup {"rpi"}, !.groups = @ \cup {"rpi"}, !.owned = FALSE]
<1>1. Goes("useradd", "docker") /\ host' = h
  <2>1. Do("useradd", h)
    BY DEF UserAdd
  <2>. HIDE DEF h
  <2>. QED BY <2>1, GoesOn DEF Pairs
<1>2. /\ Keeps({"users", "groups", "owned"}) /\ "rpi" \in host'.users
      /\ host'.users \in {host.users, host.users \cup {"rpi"}}
  <2>1. CASE "rpi" \in host.users
    BY <1>1, <2>1 DEF TypeOK, Keeps, Fields
  <2>2. CASE "rpi" \notin host.users
    BY <1>1, <2>2 DEF TypeOK, Host, Keeps, Fields, Names
  <2>. QED BY <2>1, <2>2
<1>. HIDE DEF h
<1>3. TypeOK' /\ Path' /\ Tunnels' /\ Phases' /\ Apart' /\ TreesApart'
  <2>1. UNCHANGED <<host.service, host.config, host.creds, host.foreign, host.ledger, host.tree, host.toml>>
    BY <1>2 DEF Keeps, Fields
  <2>. QED BY <1>1, <1>2, <2>1, BasicStep DEF Basic, Keeps
<1>4. Runs'
  BY <1>1, <1>2, RunsQuiet DEF Keeps, Fields, Goes, Pend
<1>5. Set'
  BY <1>1, <1>2, Ranks DEF Goes, Keeps, Fields, Set
<1>. QED BY <1>3, <1>4, <1>5

LEMMA MemberKeeps == ASSUME IInv, Docker \/ Login PROVE IInv'
<1>. USE DEF IInv
<1>1. CASE Docker
  <2>1. Goes("docker", "login") /\ host' = [host EXCEPT !.member = @ \cup {"docker"}]
    BY <1>1, GoesOn DEF Docker, Pairs
  <2>2. Keeps({"member"}) /\ host'.member = host.member \cup {"docker"}
    BY <2>1 DEF TypeOK, Host, Keeps, Fields
  <2>3. TypeOK' /\ Path' /\ Tunnels' /\ Phases' /\ Apart' /\ TreesApart'
    BY <2>1, <2>2, BasicStep DEF Basic, Keeps, Fields
  <2>4. Runs'
    BY <2>1, <2>2, RunsQuiet DEF Keeps, Fields, Goes, Pend
  <2>5. Set'
    BY <2>1, <2>2, Ranks DEF Goes, Keeps, Fields, Set
  <2>. QED BY <2>3, <2>4, <2>5
<1>2. CASE Login
  <2>1. Goes("login", "lib") /\ host' = [host EXCEPT !.member = @ \cup {"login"}]
    BY <1>2, GoesOn DEF Login, Pairs
  <2>2. Keeps({"member"}) /\ host'.member = host.member \cup {"login"}
    BY <2>1 DEF TypeOK, Host, Keeps, Fields
  <2>3. TypeOK' /\ Path' /\ Tunnels' /\ Phases' /\ Apart' /\ TreesApart'
    BY <2>1, <2>2, BasicStep DEF Basic, Keeps, Fields
  <2>4. Runs'
    BY <2>1, <2>2, RunsQuiet DEF Keeps, Fields, Goes, Pend
  <2>5. Set'
    BY <2>1, <2>2, Ranks DEF Goes, Keeps, Fields, Set
  <2>. QED BY <2>3, <2>4, <2>5
<1>. QED BY <1>1, <1>2

LEMMA TomlKeeps == ASSUME IInv, Toml PROVE IInv'
<1>. USE DEF IInv
<1>1. CASE Toml
  <2>1. Goes("toml", "unit") /\ host' = [host EXCEPT !.toml = IF @ = "none" THEN "default" ELSE @]
    BY <1>1, GoesOn DEF Toml, Pairs
  <2>2. Keeps({"toml"}) /\ host'.toml = IF host.toml = "none" THEN "default" ELSE host.toml
    BY <2>1 DEF TypeOK, Host, Keeps, Fields
  <2>3. TypeOK' /\ Path' /\ Tunnels' /\ Phases' /\ Apart' /\ TreesApart'
    BY <2>1, <2>2, BasicStep DEF Basic, Keeps, Fields
  <2>4. Runs'
    BY <2>1, <2>2, RunsQuiet DEF Keeps, Fields, Goes, Pend
  <2>5. Set'
    BY <2>1, <2>2, Ranks DEF Goes, Keeps, Fields, Set
  <2>. QED BY <2>3, <2>4, <2>5
<1>. QED BY <1>1

LEMMA UnitKeeps == ASSUME IInv, Unit PROVE IInv'
<1>. USE DEF IInv
<1>1. CASE Unit
  <2>1. Goes("unit", "reload") /\ host' = [host EXCEPT !.unit = "canonical"]
    BY <1>1, GoesOn DEF Unit, Pairs
  <2>2. Keeps({"unit"}) /\ host'.unit = "canonical"
    BY <2>1 DEF TypeOK, Host, Keeps, Fields
  <2>3. TypeOK' /\ Path' /\ Tunnels' /\ Phases' /\ Apart' /\ TreesApart'
    BY <2>1, <2>2, BasicStep DEF Basic, Keeps, Fields
  <2>4. Runs'
    BY <2>1, <2>2, RunsQuiet DEF Keeps, Fields, Goes, Pend
  <2>5. Set'
    BY <2>1, <2>2, Ranks DEF Goes, Keeps, Fields, Set
  <2>. QED BY <2>3, <2>4, <2>5
<1>. QED BY <1>1

\* What the host is like with a tree that is made, or given to the agent.
LEMMA DirHost ==
    ASSUME TypeOK, NEW t \in Trees
    PROVE  /\ Dir(t) \in Host
           /\ \A f \in Fields \ {"tree", "owned"} : Dir(t)[f] = host[f]
           /\ Dir(t).tree[t]["rpi"] # "none"
           /\ \A u \in Trees : /\ Dir(t).tree[u]["pi"] = host.tree[u]["pi"]
                               /\ host.tree[u]["rpi"] # "none" => Dir(t).tree[u]["rpi"] = host.tree[u]["rpi"]
           /\ Dir(t).owned = (t = "lib" \/ host.owned)
<1>. DEFINE tr == [host.tree EXCEPT ![t]["rpi"] = IF host.tree[t]["rpi"] = "none" THEN "fresh" ELSE host.tree[t]["rpi"]]
            ow == IF t = "lib" THEN TRUE ELSE host.owned
<1>1. Dir(t) = [host EXCEPT !.tree = tr, !.owned = ow]
  BY DEF Dir, TypeOK, Host
<1>2. host.tree \in [Trees -> [Names -> {"none", "fresh", "legacy"}]] /\ host.owned \in BOOLEAN
  BY DEF TypeOK, Host
<1>3. /\ tr \in [Trees -> [Names -> {"none", "fresh", "legacy"}]]
      /\ tr[t]["rpi"] # "none"
      /\ \A u \in Trees : /\ tr[u]["pi"] = host.tree[u]["pi"]
                          /\ host.tree[u]["rpi"] # "none" => tr[u]["rpi"] = host.tree[u]["rpi"]
  BY <1>2 DEF Names
<1>4. ow \in BOOLEAN /\ ow = (t = "lib" \/ host.owned)
  BY <1>2
<1>. HIDE DEF tr, ow
<1>5. Dir(t).tree = tr /\ Dir(t).owned = ow
  BY <1>1 DEF TypeOK, Host
<1>6. Dir(t) \in Host
  BY <1>1, <1>3, <1>4 DEF TypeOK, Host
<1>7. \A f \in Fields \ {"tree", "owned"} : Dir(t)[f] = host[f]
  BY <1>1 DEF TypeOK, Host, Fields
<1>. QED BY <1>3, <1>4, <1>5, <1>6, <1>7

LEMMA EnsureDirKeeps == ASSUME IInv, EnsureDir PROVE IInv'
<1>. USE DEF IInv
<1>1. CASE Do("lib", Dir("lib"))
  <2>1. Goes("lib", "log") /\ host' = Dir("lib")
    BY <1>1, GoesOn DEF Pairs
  <2>2. /\ Keeps({"tree", "owned"}) /\ host'.tree["lib"]["rpi"] # "none"
        /\ \A u \in Trees : /\ host'.tree[u]["pi"] = host.tree[u]["pi"]
                            /\ host.tree[u]["rpi"] # "none" => host'.tree[u]["rpi"] # "none"
        /\ "lib" = "lib" \/ host.owned => host'.owned
    BY <2>1, DirHost DEF Keeps, Trees
  <2>3. TypeOK' /\ Path' /\ Tunnels' /\ Phases' /\ Apart' /\ TreesApart'
    BY <2>1, <2>2, BasicStep DEF Basic, Keeps, Fields
  <2>4. Runs'
    BY <2>1, <2>2, RunsQuiet DEF Keeps, Fields, Goes, Pend
  <2>5. Set'
    <3>1. /\ host.tree["lib"]["rpi"] # "none" => host'.tree["lib"]["rpi"] # "none"
          /\ host.tree["log"]["rpi"] # "none" => host'.tree["log"]["rpi"] # "none"
          /\ host.tree["etc"]["rpi"] # "none" => host'.tree["etc"]["rpi"] # "none"
      BY <2>2 DEF Trees
    <3>2. UNCHANGED <<host.bin, host.users, host.member, host.toml, host.unit, host.loaded, host.enabled,
                      host.active, host.creds, host.section, host.service>>
      BY <2>2 DEF Keeps, Fields
    <3>3. Rank(cmd.at) = 5 /\ Rank(cmd'.at) = 5 + 1
      BY <2>1, Ranks DEF Goes
    <3>. QED BY <2>1, <2>2, <3>1, <3>2, <3>3 DEF Goes, Set
  <2>. QED BY <2>3, <2>4, <2>5
<1>2. CASE Do("log", Dir("log"))
  <2>1. Goes("log", "etc") /\ host' = Dir("log")
    BY <1>2, GoesOn DEF Pairs
  <2>2. /\ Keeps({"tree", "owned"}) /\ host'.tree["log"]["rpi"] # "none"
        /\ \A u \in Trees : /\ host'.tree[u]["pi"] = host.tree[u]["pi"]
                            /\ host.tree[u]["rpi"] # "none" => host'.tree[u]["rpi"] # "none"
        /\ "log" = "lib" \/ host.owned => host'.owned
    BY <2>1, DirHost DEF Keeps, Trees
  <2>3. TypeOK' /\ Path' /\ Tunnels' /\ Phases' /\ Apart' /\ TreesApart'
    BY <2>1, <2>2, BasicStep DEF Basic, Keeps, Fields
  <2>4. Runs'
    BY <2>1, <2>2, RunsQuiet DEF Keeps, Fields, Goes, Pend
  <2>5. Set'
    <3>1. /\ host.tree["lib"]["rpi"] # "none" => host'.tree["lib"]["rpi"] # "none"
          /\ host.tree["log"]["rpi"] # "none" => host'.tree["log"]["rpi"] # "none"
          /\ host.tree["etc"]["rpi"] # "none" => host'.tree["etc"]["rpi"] # "none"
      BY <2>2 DEF Trees
    <3>2. UNCHANGED <<host.bin, host.users, host.member, host.toml, host.unit, host.loaded, host.enabled,
                      host.active, host.creds, host.section, host.service>>
      BY <2>2 DEF Keeps, Fields
    <3>3. Rank(cmd.at) = 6 /\ Rank(cmd'.at) = 6 + 1
      BY <2>1, Ranks DEF Goes
    <3>. QED BY <2>1, <2>2, <3>1, <3>2, <3>3 DEF Goes, Set
  <2>. QED BY <2>3, <2>4, <2>5
<1>3. CASE Do("etc", Dir("etc"))
  <2>1. Goes("etc", "toml") /\ host' = Dir("etc")
    BY <1>3, GoesOn DEF Pairs
  <2>2. /\ Keeps({"tree", "owned"}) /\ host'.tree["etc"]["rpi"] # "none"
        /\ \A u \in Trees : /\ host'.tree[u]["pi"] = host.tree[u]["pi"]
                            /\ host.tree[u]["rpi"] # "none" => host'.tree[u]["rpi"] # "none"
        /\ "etc" = "lib" \/ host.owned => host'.owned
    BY <2>1, DirHost DEF Keeps, Trees
  <2>3. TypeOK' /\ Path' /\ Tunnels' /\ Phases' /\ Apart' /\ TreesApart'
    BY <2>1, <2>2, BasicStep DEF Basic, Keeps, Fields
  <2>4. Runs'
    BY <2>1, <2>2, RunsQuiet DEF Keeps, Fields, Goes, Pend
  <2>5. Set'
    <3>1. /\ host.tree["lib"]["rpi"] # "none" => host'.tree["lib"]["rpi"] # "none"
          /\ host.tree["log"]["rpi"] # "none" => host'.tree["log"]["rpi"] # "none"
          /\ host.tree["etc"]["rpi"] # "none" => host'.tree["etc"]["rpi"] # "none"
      BY <2>2 DEF Trees
    <3>2. UNCHANGED <<host.bin, host.users, host.member, host.toml, host.unit, host.loaded, host.enabled,
                      host.active, host.creds, host.section, host.service>>
      BY <2>2 DEF Keeps, Fields
    <3>3. Rank(cmd.at) = 7 /\ Rank(cmd'.at) = 7 + 1
      BY <2>1, Ranks DEF Goes
    <3>. QED BY <2>1, <2>2, <3>1, <3>2, <3>3 DEF Goes, Set
  <2>. QED BY <2>3, <2>4, <2>5
<1>. QED BY <1>1, <1>2, <1>3 DEF EnsureDir

LEMMA ReloadKeeps == ASSUME IInv, Do("reload", [host EXCEPT !.loaded = host.unit]) PROVE IInv'
<1>. USE DEF IInv
<1>1. CASE Do("reload", [host EXCEPT !.loaded = host.unit])
  <2>1. Goes("reload", "enable") /\ host' = [host EXCEPT !.loaded = host.unit]
    BY <1>1, GoesOn DEF Reload, Pairs
  <2>2. Keeps({"loaded"}) /\ host'.loaded = host.unit
    BY <2>1 DEF TypeOK, Host, Keeps, Fields
  <2>3. TypeOK' /\ Path' /\ Tunnels' /\ Phases' /\ Apart' /\ TreesApart'
    BY <2>1, <2>2, BasicStep DEF Basic, Keeps, Fields
  <2>4. Runs'
    BY <2>1, <2>2, RunsQuiet DEF Keeps, Fields, Goes, Pend
  <2>5. Set'
    BY <2>1, <2>2, Ranks DEF Goes, Keeps, Fields, Set
  <2>. QED BY <2>3, <2>4, <2>5
<1>. QED BY <1>1

LEMMA EnableKeeps == ASSUME IInv, Enable PROVE IInv'
<1>. USE DEF IInv
<1>. DEFINE a == IF host.active = None /\ CanRun THEN host.bin ELSE host.active
<1>1. PICK q \in {"token", "scaffold", "report"} :
         /\ q = AfterBasics
         /\ Goes("enable", q) /\ host' = [host EXCEPT !.enabled = TRUE, !.active = a]
  <2>1. Do("enable", [host EXCEPT !.enabled = TRUE, !.active = a])
    BY DEF Enable
  <2>. HIDE DEF a
  <2>2. Then("enable") = AfterBasics /\ AfterBasics \in {"token", "scaffold", "report"}
    BY DEF Then, AfterBasics
  <2>. QED BY <2>1, <2>2, DoGoes DEF AllSteps
<1>2. a \in Versions \cup {None}
  BY DEF TypeOK, Host
<1>3. Keeps({"enabled", "active"}) /\ host'.enabled /\ host'.active = a
  <2>. HIDE DEF a
  <2>. QED BY <1>1, <1>2 DEF TypeOK, Host, Keeps, Fields
<1>4. TypeOK' /\ Path' /\ Tunnels' /\ Phases' /\ Apart' /\ TreesApart'
  BY <1>1, <1>3, BasicStep DEF Basic, Keeps, Fields
<1>5. Runs'
  BY <1>1, <1>3 DEF Runs, Goes, Keeps, Fields, Pend
<1>6. Set'
  <2>1. CASE cmd.kind \in {"setup", "update"} /\ ~cmd.failed
    <3>1. /\ ~cmd.errs /\ ~cmd.cferrs /\ cmd.left \subseteq {"tunnel"}
          /\ host.bin # None /\ "rpi" \in host.users
          /\ "docker" \in host.member /\ "login" \in host.member
          /\ host.tree["lib"]["rpi"] # "none" /\ host.owned
          /\ host.tree["log"]["rpi"] # "none" /\ host.tree["etc"]["rpi"] # "none"
          /\ host.toml # "none" /\ host.unit = "canonical" /\ host.loaded = "canonical"
          /\ cmd.flavor # "adopted"
      BY <1>1, <2>1, Ranks DEF Set, Goes
    <3>2. host.toml # "legacy" => a # None
      BY <3>1 DEF CanRun, Has
    <3>3. cmd.flavor = "full" => cmd'.at = "token"
      BY <1>1 DEF AfterBasics, Goes
    <3>. HIDE DEF a
    <3>. QED BY <1>1, <1>3, <3>1, <3>2, <3>3 DEF Set, Goes, Keeps, Fields
  <2>2. CASE ~(cmd.kind \in {"setup", "update"} /\ ~cmd.failed)
    BY <1>1, <2>2 DEF Set, Goes
  <2>. QED BY <2>1, <2>2
<1>. QED BY <1>4, <1>5, <1>6

-----------------------------------------------------------------------------
(* cloudflared.                                                             *)

Laters == {"token", "scaffold", "guard", "tunnel", "creds", "config", "validate", "section",
           "adopt", "service"}

Forth(p, q) ==
    /\ Steady(p, q) /\ cmd' \in Cmd /\ spent' \in [Kinds -> Nat]
    /\ cmd'.flavor \in {cmd.flavor, "adopted"} /\ cmd'.swapped = cmd.swapped /\ cmd'.version = cmd.version
    /\ "swap" \in cmd.left => "swap" \in cmd'.left

LEMMA GoesForth == ASSUME TypeOK, NEW p, NEW q, Goes(p, q) PROVE Forth(p, q)
BY DEF Goes, Forth, Steady, TypeOK

\* What the steps of cloudflared leave alone.
LEMMA LaterStep ==
    ASSUME IInv, NEW p \in Laters, NEW q \in Laters \cup {"report"}, Forth(p, q), host' \in Host,
           UNCHANGED <<host.users, host.ledger, host.active, host.bin>>,
           \A t \in Trees : host'.tree[t]["pi"] = host.tree[t]["pi"],
           host'.toml = "legacy" => host.toml = "legacy"
    PROVE  TypeOK' /\ Path' /\ Phases' /\ Apart' /\ TreesApart' /\ Runs'
<1>. USE DEF IInv
<1>1. cmd.kind \in {"setup", "update"}
  BY DEF Path, Forth, Steady, Laters, Moving, Dropping, Early, Late, TypeOK, Cmd
<1>2. Rank(p) >= 2
  BY Ranks DEF Laters
<1>3. /\ p # "done" /\ p \notin Early \cup Late \cup {"mark"}
      /\ q # "done" /\ q \notin Early \cup Late \cup {"mark"}
  BY DEF Laters, Early, Late
<1>4. TypeOK'
  BY DEF TypeOK, Forth, Steady
<1>5. Path'
  <2>1. cmd'.kind = cmd.kind /\ cmd'.flavor \in {cmd.flavor, "adopted"} /\ cmd'.swapped = cmd.swapped /\ cmd'.at = q
        /\ cmd'.version = cmd.version
    BY DEF Forth, Steady
  <2>2. q \notin Dropping \/ q = "report"
    BY DEF Laters, Dropping
  <2>3. q \notin {"obtain", "binary", "open", "mark", "rmlib", "rmetc", "rmlog"}
    BY DEF Laters
  <2>. QED BY <1>1, <2>1, <2>2, <2>3 DEF Path
<1>6. Phases' /\ Apart' /\ TreesApart'
  BY <1>1, <1>2, <1>3, MigrationQuiet DEF Past, Forth
<1>7. Runs'
  BY <1>3, RunsQuiet DEF Forth, Steady, Pend
<1>. QED BY <1>4, <1>5, <1>6, <1>7

LEMMA ScaffoldKeeps == ASSUME IInv, Scaffold PROVE IInv'
<1>. USE DEF IInv
<1>1. /\ Goes("scaffold", "report")
      /\ Needs("scaffold")
      /\ host' = [host EXCEPT !.userunit = IF @ = "none" /\ Has("lib", "rpi") THEN "ours" ELSE @]
  BY DoGoes DEF Scaffold, Then, AllSteps
<1>2. Keeps({"userunit"})
  BY <1>1 DEF TypeOK, Host, Keeps, Fields
<1>3. TypeOK' /\ Path' /\ Phases' /\ Apart' /\ TreesApart' /\ Runs'
  BY <1>1, <1>2, GoesForth, LaterStep DEF Laters, Keeps, Fields
<1>4. Tunnels'
  BY <1>1, <1>2, TunnelsQuiet DEF Keeps, Fields
<1>5. Set'
  BY <1>1, <1>2, Ranks DEF Goes, Keeps, Fields, Set
<1>. QED BY <1>3, <1>4, <1>5

LEMMA TokenKeeps == ASSUME IInv, Token PROVE IInv'
<1>. USE DEF IInv
<1>. DEFINE h == [Dir("lib") EXCEPT !.owned = Has("lib", "rpi") /\ host.owned]
<1>1. PICK q \in {"guard", "adopt"} :
         /\ Goes("token", q) /\ host' = h /\ (q = "guard" <=> host.config = "none")
  <2>1. Do("token", h)
    BY DEF Token
  <2>. HIDE DEF h
  <2>2. Then("token") = IF host.config = "none" THEN "guard" ELSE "adopt"
    BY DEF Then
  <2>. QED BY <2>1, <2>2, DoGoes DEF AllSteps
<1>2. /\ Keeps({"tree", "owned"}) /\ host'.tree["lib"]["rpi"] # "none"
      /\ \A u \in Trees : /\ host'.tree[u]["pi"] = host.tree[u]["pi"]
                          /\ host.tree[u]["rpi"] # "none" => host'.tree[u]["rpi"] # "none"
      /\ Has("lib", "rpi") /\ host.owned => host'.owned
  <2>1. /\ Dir("lib") \in Host
        /\ \A f \in Fields \ {"tree", "owned"} : Dir("lib")[f] = host[f]
        /\ Dir("lib").tree["lib"]["rpi"] # "none"
        /\ \A u \in Trees : /\ Dir("lib").tree[u]["pi"] = host.tree[u]["pi"]
                            /\ host.tree[u]["rpi"] # "none" => Dir("lib").tree[u]["rpi"] # "none"
    BY DirHost DEF Trees
  <2>. DEFINE d == Dir("lib")  x == Has("lib", "rpi") /\ host.owned
  <2>2. host' = [d EXCEPT !.owned = x] /\ x \in BOOLEAN
    BY <1>1 DEF TypeOK, Host
  <2>. HIDE DEF d, x
  <2>3. d \in Host
    BY <2>1 DEF d
  <2>4. /\ host' \in Host /\ host'.owned = x /\ host'.tree = d.tree
        /\ \A f \in Fields \ {"owned"} : host'[f] = d[f]
    BY <2>2, <2>3 DEF Host, Fields
  <2>. QED BY <2>1, <2>4 DEF Keeps, Fields, d, x
<1>. HIDE DEF h
<1>3. TypeOK' /\ Path' /\ Phases' /\ Apart' /\ TreesApart' /\ Runs'
  BY <1>1, <1>2, GoesForth, LaterStep DEF Laters, Keeps, Fields
<1>4. Tunnels'
  BY <1>1, <1>2 DEF Goes, Keeps, Fields, Tunnels, Prepared, Pend
<1>5. Set'
  <2>1. /\ host.tree["lib"]["rpi"] # "none" => host'.tree["lib"]["rpi"] # "none"
        /\ host.tree["log"]["rpi"] # "none" => host'.tree["log"]["rpi"] # "none"
        /\ host.tree["etc"]["rpi"] # "none" => host'.tree["etc"]["rpi"] # "none"
    BY <1>2 DEF Trees
  <2>2. UNCHANGED <<host.bin, host.users, host.member, host.toml, host.unit, host.loaded, host.enabled,
                    host.active, host.creds, host.section, host.service>>
    BY <1>2 DEF Keeps, Fields
  <2>3. Rank(cmd.at) = 12 /\ Rank(cmd'.at) = 12
    BY <1>1, Ranks DEF Goes
  <2>. QED BY <1>1, <1>2, <2>1, <2>2, <2>3 DEF Goes, Set, Has
<1>. QED BY <1>3, <1>4, <1>5

LEMMA GuardKeeps == ASSUME IInv, Guard PROVE IInv'
<1>. USE DEF IInv
<1>1. Goes("guard", "tunnel") /\ host' = host /\ Needs("guard")
  BY GoesOn DEF Guard, Pairs
<1>2. Keeps({})
  BY <1>1 DEF TypeOK, Host, Keeps, Fields
<1>3. TypeOK' /\ Path' /\ Phases' /\ Apart' /\ TreesApart' /\ Runs'
  BY <1>1, <1>2, GoesForth, LaterStep DEF Laters, Keeps, Fields
<1>4. Tunnels'
  BY <1>1, <1>2 DEF Goes, Keeps, Fields, Tunnels, Prepared, Pend, Needs
<1>5. Set'
  BY <1>1, <1>2, Ranks DEF Goes, Keeps, Fields, Set
<1>. QED BY <1>3, <1>4, <1>5

LEMMA ValidateKeeps == ASSUME IInv, Validate PROVE IInv'
<1>. USE DEF IInv
<1>1. Goes("validate", "section") /\ host' = host /\ Needs("validate")
  BY GoesOn DEF Validate, Pairs
<1>2. Keeps({})
  BY <1>1 DEF TypeOK, Host, Keeps, Fields
<1>3. TypeOK' /\ Path' /\ Phases' /\ Apart' /\ TreesApart' /\ Runs'
  BY <1>1, <1>2, GoesForth, LaterStep DEF Laters, Keeps, Fields
<1>4. Tunnels'
  BY <1>1, <1>2 DEF Goes, Keeps, Fields, Tunnels, Prepared, Pend
<1>5. Set'
  BY <1>1, <1>2, Ranks DEF Goes, Keeps, Fields, Set
<1>. QED BY <1>3, <1>4, <1>5

LEMMA AdoptKeeps == ASSUME IInv, Adopt PROVE IInv'
<1>. USE DEF IInv
<1>1. /\ cmd.at = "adopt" /\ host.creds /\ host' = host /\ undone' = undone /\ spent' = spent
      /\ cmd' = [cmd EXCEPT !.at = "section", !.flavor = "adopted"]
  <2>1. Then("adopt") = "section"
    BY NextStep DEF Pairs
  <2>2. Needs("adopt") => host.creds
    BY DEF Needs
  <2>. QED BY <2>1, <2>2 DEF Adopt
<1>2. /\ cmd' \in Cmd /\ cmd'.at = "section" /\ cmd'.flavor = "adopted" /\ cmd'.kind = cmd.kind
      /\ cmd'.errs = cmd.errs /\ cmd'.cferrs = cmd.cferrs /\ cmd'.failed = cmd.failed
      /\ cmd'.swapped = cmd.swapped /\ cmd'.left = cmd.left /\ cmd'.version = cmd.version
  BY <1>1, TheSteps DEF TypeOK, Cmd, AllSteps
<1>3. TypeOK' /\ Path' /\ Phases' /\ Apart' /\ TreesApart' /\ Runs'
  <2>1. Forth("adopt", "section")
    BY <1>1, <1>2 DEF Forth, Steady, TypeOK
  <2>. QED BY <1>1, <2>1, LaterStep DEF Laters, TypeOK
<1>4. Tunnels'
  BY <1>1, <1>2 DEF Tunnels, Prepared, Pend
<1>5. Set'
  BY <1>1, <1>2, Ranks DEF Set
<1>. QED BY <1>3, <1>4, <1>5

LEMMA TunnelKeeps == ASSUME IInv, Tunnel PROVE IInv'
<1>. USE DEF IInv
<1>1. /\ cmd.at = "tunnel" /\ host' = [host EXCEPT !.tunnel = TRUE] /\ undone' = undone /\ spent' = spent
      /\ cmd' = [cmd EXCEPT !.at = "creds", !.secret = ~host.tunnel]
  <2>1. Then("tunnel") = "creds"
    BY NextStep DEF Pairs
  <2>. QED BY <2>1 DEF Tunnel
<1>2. /\ cmd' \in Cmd /\ cmd'.at = "creds" /\ cmd'.flavor = cmd.flavor /\ cmd'.kind = cmd.kind
      /\ cmd'.errs = cmd.errs /\ cmd'.cferrs = cmd.cferrs /\ cmd'.failed = cmd.failed
      /\ cmd'.swapped = cmd.swapped /\ cmd'.left = cmd.left /\ cmd'.version = cmd.version
  <2>1. (~host.tunnel) \in BOOLEAN /\ "creds" \in Steps
    BY TheSteps DEF AllSteps
  <2>. DEFINE x == ~host.tunnel
  <2>2. cmd' = [cmd EXCEPT !.at = "creds", !.secret = x] /\ x \in BOOLEAN
    BY <1>1, <2>1
  <2>. HIDE DEF x
  <2>. QED BY <2>1, <2>2 DEF TypeOK, Cmd
<1>3. Keeps({"tunnel"})
  BY <1>1 DEF TypeOK, Host, Keeps, Fields
<1>4. TypeOK' /\ Path' /\ Phases' /\ Apart' /\ TreesApart' /\ Runs'
  <2>1. Forth("tunnel", "creds")
    BY <1>1, <1>2 DEF Forth, Steady, TypeOK
  <2>. QED BY <1>3, <2>1, LaterStep DEF Laters, Keeps, Fields
<1>5. Tunnels'
  BY <1>1, <1>2, <1>3 DEF Tunnels, Prepared, Pend, Keeps, Fields
<1>6. Set'
  BY <1>1, <1>2, <1>3, Ranks DEF Set, Keeps, Fields
<1>. QED BY <1>4, <1>5, <1>6

\* A file that is written, and given to the agent or not.
LEMMA PutGoes ==
    ASSUME TypeOK, NEW p, NEW q, <<p, q>> \in Pairs, NEW h, NEW opened \in SUBSET {"tunnel"},
           Put(p, h, opened)
    PROVE  /\ Forth(p, q) /\ host' = h /\ Needs(p) /\ cmd'.flavor = cmd.flavor
           /\ cmd'.left = cmd.left \cup opened
           /\ \/ cmd'.failed
              \/ cmd'.failed = cmd.failed /\ cmd'.errs = cmd.errs /\ cmd'.cferrs = cmd.cferrs
<1>1. PICK given \in BOOLEAN :
         /\ cmd.at = p /\ Needs(p) /\ host' = h /\ undone' = undone
         /\ IF given THEN UNCHANGED spent ELSE Spend("failure")
         /\ cmd' = [cmd EXCEPT !.at = Then(p), !.failed = @ \/ ~given, !.errs = @ \/ ~given,
                               !.cferrs = @ \/ ~given, !.left = @ \cup opened]
  BY DEF Put
<1>2. Then(p) = q /\ q \in Steps
  BY NextStep, PairsWithin
<1>3. spent' \in [Kinds -> Nat]
  BY <1>1 DEF TypeOK, Spend
<1>. DEFINE f == cmd.failed \/ ~given  e == cmd.errs \/ ~given  c == cmd.cferrs \/ ~given
            l == cmd.left \cup opened
<1>4. f \in BOOLEAN /\ e \in BOOLEAN /\ c \in BOOLEAN /\ l \in SUBSET Undone
  BY DEF TypeOK, Cmd, Undone
<1>5. cmd' = [cmd EXCEPT !.at = q, !.failed = f, !.errs = e, !.cferrs = c, !.left = l]
  BY <1>1, <1>2
<1>6. (~given => f) /\ (given => f = cmd.failed /\ e = cmd.errs /\ c = cmd.cferrs)
  BY DEF TypeOK, Cmd
<1>7. /\ \A u \in {"migration", "opened"} : u \in l <=> u \in cmd.left
      /\ "swap" \in cmd.left => "swap" \in l
  BY DEF TypeOK, Cmd
<1>. DEFINE a == [cmd EXCEPT !.at = q, !.failed = f, !.errs = e]
<1>. HIDE DEF f, e, c, l
<1>8. /\ a \in Cmd /\ a.at = q /\ a.failed = f /\ a.errs = e /\ a.kind = cmd.kind
      /\ a.flavor = cmd.flavor /\ a.swapped = cmd.swapped
      /\ a.version = cmd.version
  BY <1>2, <1>4 DEF TypeOK, Cmd
<1>9. cmd' = [a EXCEPT !.cferrs = c, !.left = l]
  BY <1>5 DEF TypeOK, Cmd
<1>. HIDE DEF a
<1>10. /\ cmd' \in Cmd /\ cmd'.at = q /\ cmd'.failed = f /\ cmd'.errs = e /\ cmd'.kind = cmd.kind
       /\ cmd'.flavor = cmd.flavor /\ cmd'.swapped = cmd.swapped /\ cmd'.cferrs = c /\ cmd'.left = l
       /\ cmd'.version = cmd.version
  BY <1>4, <1>8, <1>9 DEF Cmd
<1>11. Forth(p, q)
  BY <1>1, <1>3, <1>7, <1>10 DEF Forth, Steady
<1>. QED BY <1>1, <1>6, <1>10, <1>11 DEF l

LEMMA CredsKeeps == ASSUME IInv, Creds PROVE IInv'
<1>. USE DEF IInv
<1>. DEFINE h == [host EXCEPT !.creds = TRUE]
<1>1. Put("creds", h, {})
  BY DEF Creds
<1>. HIDE DEF h
<1>2. /\ Forth("creds", "config") /\ host' = h /\ Needs("creds") /\ cmd'.flavor = cmd.flavor
      /\ cmd'.left = cmd.left \cup {}
      /\ \/ cmd'.failed
         \/ cmd'.failed = cmd.failed /\ cmd'.errs = cmd.errs /\ cmd'.cferrs = cmd.cferrs
  BY <1>1, PutGoes DEF Pairs
<1>3. Keeps({"creds"}) /\ host'.creds = h.creds /\ h.creds = TRUE
  BY <1>2 DEF TypeOK, Host, Keeps, Fields, h
<1>4. TypeOK' /\ Path' /\ Phases' /\ Apart' /\ TreesApart' /\ Runs'
  BY <1>2, <1>3, LaterStep DEF Laters, Keeps, Fields
<1>5. Tunnels'
  BY <1>2, <1>3 DEF Forth, Steady, Keeps, Fields, Tunnels, Prepared, Pend
<1>6. Set'
  BY <1>2, <1>3, Ranks DEF Forth, Steady, Keeps, Fields, Set
<1>. QED BY <1>4, <1>5, <1>6

LEMMA ConfigKeeps == ASSUME IInv, Config PROVE IInv'
<1>. USE DEF IInv
<1>. DEFINE h == [host EXCEPT !.config = "ours"]
<1>1. Put("config", h, {"tunnel"})
  BY DEF Config
<1>. HIDE DEF h
<1>2. /\ Forth("config", "validate") /\ host' = h /\ Needs("config") /\ cmd'.flavor = cmd.flavor
      /\ cmd'.left = cmd.left \cup {"tunnel"}
      /\ \/ cmd'.failed
         \/ cmd'.failed = cmd.failed /\ cmd'.errs = cmd.errs /\ cmd'.cferrs = cmd.cferrs
  BY <1>1, PutGoes DEF Pairs
<1>3. Keeps({"config"}) /\ host'.config = h.config /\ h.config = "ours"
  BY <1>2 DEF TypeOK, Host, Keeps, Fields, h
<1>4. TypeOK' /\ Path' /\ Phases' /\ Apart' /\ TreesApart' /\ Runs'
  BY <1>2, <1>3, LaterStep DEF Laters, Keeps, Fields
<1>5. Tunnels'
  BY <1>2, <1>3 DEF Forth, Steady, Keeps, Fields, Tunnels, Prepared, Pend
<1>6. Set'
  BY <1>2, <1>3, Ranks DEF Forth, Steady, Keeps, Fields, Set
<1>. QED BY <1>4, <1>5, <1>6

LEMMA SectionKeeps == ASSUME IInv, Section PROVE IInv'
<1>. USE DEF IInv
<1>. DEFINE t == IF host.toml = "none" THEN "default" ELSE host.toml
<1>1. PICK q \in {"report", "service"} :
         /\ Goes("section", q) /\ host' = [host EXCEPT !.section = TRUE, !.toml = t]
         /\ q = "service" <=> ~(cmd.cferrs \/ cmd.flavor = "adopted")
  <2>1. Do("section", [host EXCEPT !.section = TRUE, !.toml = t])
    BY DEF Section
  <2>. HIDE DEF t
  <2>2. Then("section") = AfterSection
    BY DEF Then
  <2>3. /\ AfterSection \in {"report", "service"}
        /\ AfterSection = "service" <=> ~(cmd.cferrs \/ cmd.flavor = "adopted")
    BY DEF AfterSection
  <2>. QED BY <2>1, <2>2, <2>3, DoGoes DEF AllSteps
<1>2. Keeps({"section", "toml"}) /\ host'.section /\ host'.toml = t
  <2>1. t \in {"none", "legacy", "own", "default"}
    BY DEF TypeOK, Host
  <2>. HIDE DEF t
  <2>. QED BY <1>1, <2>1 DEF TypeOK, Host, Keeps, Fields
<1>3. TypeOK' /\ Path' /\ Phases' /\ Apart' /\ TreesApart' /\ Runs'
  BY <1>1, <1>2, GoesForth, LaterStep DEF Laters, Keeps, Fields
<1>4. Tunnels'
  BY <1>1, <1>2 DEF Goes, Keeps, Fields, Tunnels, Prepared, Pend
<1>5. Set'
  <2>1. UNCHANGED <<host.bin, host.users, host.member, host.tree, host.owned, host.unit, host.loaded,
                    host.enabled, host.active, host.creds, host.service>>
    BY <1>2 DEF Keeps, Fields
  <2>2. Rank(cmd.at) = 12 /\ Rank(cmd'.at) = 12
    BY <1>1, Ranks DEF Goes
  <2>3. ~cmd.cferrs /\ cmd.flavor # "adopted" => host.creds
    BY <1>1 DEF Tunnels, Prepared, Goes
  <2>. QED BY <1>1, <1>2, <2>1, <2>2, <2>3 DEF Goes, Set
<1>. QED BY <1>3, <1>4, <1>5

LEMMA ServiceKeeps == ASSUME IInv, Service PROVE IInv'
<1>. USE DEF IInv
<1>1. PICK on \in BOOLEAN :
         /\ cmd.at = "service" /\ undone' = undone
         /\ IF on THEN UNCHANGED spent ELSE Spend("failure")
         /\ host' = [host EXCEPT !.userunit = "ours", !.service = @ \/ on]
         /\ cmd' = [cmd EXCEPT !.at = "report", !.failed = @ \/ ~on,
                               !.left = IF on THEN @ \ {"tunnel"} ELSE @]
  <2>1. Then("service") = "report"
    BY DEF Then
  <2>. QED BY <2>1 DEF Service
<1>. DEFINE f == cmd.failed \/ ~on  l == IF on THEN cmd.left \ {"tunnel"} ELSE cmd.left
            s == host.service \/ on
<1>2. /\ f \in BOOLEAN /\ l \in SUBSET Undone /\ s \in BOOLEAN
      /\ f = FALSE => on /\ cmd.failed = FALSE
      /\ s = (host.service \/ on)
      /\ l \subseteq cmd.left /\ cmd.left \subseteq l \cup {"tunnel"}
      /\ cmd.left = l \/ s = TRUE
  <2>1. cmd.failed \in BOOLEAN /\ cmd.left \in SUBSET Undone /\ host.service \in BOOLEAN
    BY DEF TypeOK, Cmd, Host
  <2>. QED BY <2>1
<1>3. /\ cmd' = [cmd EXCEPT !.at = "report", !.failed = f, !.left = l]
      /\ host' = [host EXCEPT !.userunit = "ours", !.service = s]
  BY <1>1
<1>4. spent' \in [Kinds -> Nat]
  BY <1>1 DEF TypeOK, Spend
<1>. HIDE DEF f, l, s
<1>5. /\ cmd' \in Cmd /\ cmd'.at = "report" /\ cmd'.failed = f /\ cmd'.left = l /\ cmd'.kind = cmd.kind
      /\ cmd'.flavor = cmd.flavor /\ cmd'.version = cmd.version /\ cmd'.errs = cmd.errs
      /\ cmd'.cferrs = cmd.cferrs /\ cmd'.swapped = cmd.swapped
  <2>1. "report" \in Steps
    BY TheSteps DEF AllSteps
  <2>2. cmd \in Cmd
    BY DEF TypeOK
  <2>. DEFINE c == [cmd EXCEPT !.at = "report", !.failed = f]
  <2>3. /\ c \in Cmd /\ c.at = "report" /\ c.failed = f /\ c.kind = cmd.kind
        /\ c.flavor = cmd.flavor /\ c.version = cmd.version /\ c.errs = cmd.errs
        /\ c.cferrs = cmd.cferrs /\ c.swapped = cmd.swapped
    BY <1>2, <2>1, <2>2 DEF Cmd
  <2>4. cmd' = [c EXCEPT !.left = l]
    BY <1>3, <2>2 DEF Cmd
  <2>. HIDE DEF c
  <2>. QED BY <1>2, <2>3, <2>4 DEF Cmd
<1>6. Keeps({"userunit", "service"}) /\ host'.service = s
  BY <1>2, <1>3 DEF TypeOK, Host, Keeps, Fields
<1>7. TypeOK' /\ Path' /\ Phases' /\ Apart' /\ TreesApart' /\ Runs'
  <2>1. Forth("service", "report")
    BY <1>1, <1>2, <1>4, <1>5 DEF Forth, Steady
  <2>. QED BY <1>6, <2>1, LaterStep DEF Laters, Keeps, Fields
<1>8. Tunnels'
  <2>1. host'.config = "ours" /\ host'.creds
    BY <1>1, <1>6 DEF Tunnels, Prepared, Keeps, Fields
  <2>2. "tunnel" \notin Pend' => host'.service
    BY <1>1, <1>2, <1>5, <1>6 DEF Tunnels, Prepared, Pend
  <2>. QED BY <1>5, <2>1, <2>2 DEF Tunnels, Prepared
<1>9. Set'
  <2>1. UNCHANGED <<host.bin, host.users, host.member, host.tree, host.owned, host.unit, host.loaded,
                    host.enabled, host.active, host.creds, host.section, host.toml>>
    BY <1>6 DEF Keeps, Fields
  <2>2. Rank(cmd.at) = 12 /\ Rank(cmd'.at) = 12
    BY <1>1, <1>5, Ranks
  <2>3. cmd'.failed = FALSE => cmd.failed = FALSE /\ host'.service
    BY <1>2, <1>5, <1>6
  <2>4. cmd'.failed \in BOOLEAN /\ cmd.failed \in BOOLEAN
    BY <1>5 DEF TypeOK, Cmd
  <2>5. cmd.left \subseteq {"tunnel"} => cmd'.left \subseteq {"tunnel"}
    BY <1>2, <1>5
  <2>. QED BY <1>1, <1>5, <2>1, <2>2, <2>3, <2>4, <2>5 DEF Set
<1>. QED BY <1>7, <1>8, <1>9

-----------------------------------------------------------------------------
(* The report, and what follows.                                            *)

LEMMA ReportKeeps == ASSUME IInv, Report PROVE IInv'
<1>. USE DEF IInv
<1>1. PICK q \in {"restart", "done"} :
         Goes("report", q) /\ host' = host /\ (q = "restart" <=> cmd.swapped)
  <2>1. Do("report", host)
    BY DEF Report
  <2>2. Then("report") = AfterReport
    BY DEF Then
  <2>3. AfterReport \in {"restart", "done"} /\ (AfterReport = "restart" <=> cmd.swapped)
    BY DEF AfterReport
  <2>. QED BY <2>1, <2>2, <2>3, DoGoes DEF AllSteps
<1>2. TypeOK'
  BY <1>1, TypedGoes DEF TypeOK
<1>3. Path'
  <2>1. q \notin (Dropping \cup {"open", "mark"}) \ {"report", "done"}
    BY DEF Dropping
  <2>2. q \notin {"rmlib", "rmetc", "rmlog", "obtain", "binary", "open"}
    OBVIOUS
  <2>3. q = "done" => q \in Moving /\ q \in Dropping
    BY DEF Moving, Dropping
  <2>. QED BY <1>1, <2>1, <2>2, <2>3 DEF Goes, Path
<1>4. Tunnels'
  BY <1>1, TunnelsQuiet
<1>5. Phases' /\ Apart' /\ TreesApart'
  <2>1. Past(q) => Past("report")
    <3>1. q = "restart" => cmd.kind \in {"setup", "update"}
      BY <1>1 DEF Path
    <3>. QED BY <3>1, Ranks DEF Past
  <2>. QED BY <1>1, <2>1, MigrationQuiet DEF Goes, Steady, Early, Late
<1>6. Runs'
  BY <1>1, RunsQuiet DEF Goes, Pend
<1>7. Set'
  BY <1>1, Ranks DEF Goes, Set
<1>. QED BY <1>2, <1>3, <1>4, <1>5, <1>6, <1>7

LEMMA RestartKeeps == ASSUME IInv, Restart PROVE IInv'
<1>. USE DEF IInv
<1>. DEFINE a == IF host.active # None /\ CanRun THEN host.bin ELSE None
<1>1. Goes("restart", "done") /\ host' = [host EXCEPT !.active = a]
  <2>1. Do("restart", [host EXCEPT !.active = a])
    BY DEF Restart
  <2>. HIDE DEF a
  <2>2. Then("restart") = "done"
    BY DEF Then
  <2>. QED BY <2>1, <2>2, DoGoes DEF AllSteps
<1>2. a \in Versions \cup {None} /\ a \in {None, host.bin}
  BY DEF TypeOK, Host
<1>3. Keeps({"active"}) /\ host'.active = a
  <2>. HIDE DEF a
  <2>. QED BY <1>1, <1>2 DEF TypeOK, Host, Keeps, Fields
<1>4. TypeOK'
  BY <1>1, <1>3, TypedGoes DEF Keeps
<1>5. Path'
  BY <1>1 DEF Goes, Path, Moving, Dropping, Early, Late
<1>6. Tunnels'
  BY <1>1, <1>3, TunnelsQuiet DEF Keeps, Fields
<1>7. Phases' /\ Apart' /\ TreesApart'
  BY <1>1, <1>3, MigrationQuiet DEF Goes, Steady, Early, Late, Past, Keeps, Fields
<1>8. Runs'
  BY <1>2, <1>3 DEF Runs, Keeps, Fields
<1>9. Set'
  <2>1. CASE cmd.kind \in {"setup", "update"} /\ ~cmd.failed
    <3>1. Rank(cmd.at) = 12 /\ Rank(cmd'.at) = 12
      BY <1>1, Ranks DEF Goes
    <3>2. host.bin # None /\ "rpi" \in host.users /\ host.tree["lib"]["rpi"] # "none"
      BY <2>1, <3>1 DEF Set
    <3>3. host.toml # "legacy" => a # None
      BY <2>1, <3>1, <3>2 DEF CanRun, Has, Set
    <3>4. UNCHANGED <<host.bin, host.users, host.member, host.tree, host.owned, host.unit, host.loaded,
                      host.enabled, host.service, host.creds, host.section, host.toml>>
      BY <1>3 DEF Keeps, Fields
    <3>. HIDE DEF a
    <3>. QED BY <1>1, <1>3, <2>1, <3>1, <3>3, <3>4 DEF Goes, Set
  <2>2. CASE ~(cmd.kind \in {"setup", "update"} /\ ~cmd.failed)
    BY <1>1, <2>2 DEF Set, Goes
  <2>. QED BY <2>1, <2>2
<1>. QED BY <1>4, <1>5, <1>6, <1>7, <1>8, <1>9

LEMMA GiveUpKeeps == ASSUME IInv, GiveUp PROVE IInv'
<1>. USE DEF IInv
<1>. DEFINE l == cmd.left \cup Swapped
<1>1. /\ cmd.at = "report" /\ cmd.errs /\ host' = host /\ undone' = undone /\ spent' = spent
      /\ cmd' = [cmd EXCEPT !.at = "done", !.left = l]
  BY DEF GiveUp
<1>2. /\ l \in SUBSET Undone /\ cmd.left \subseteq l /\ l \subseteq cmd.left \cup {"swap"}
      /\ cmd.swapped => "swap" \in l
  BY DEF TypeOK, Cmd, Swapped, Undone
<1>. HIDE DEF l
<1>3. /\ cmd' \in Cmd /\ cmd'.at = "done" /\ cmd'.kind = cmd.kind /\ cmd'.flavor = cmd.flavor
      /\ cmd'.version = cmd.version /\ cmd'.errs = cmd.errs /\ cmd'.failed = cmd.failed
      /\ cmd'.swapped = cmd.swapped /\ cmd'.left = l
  BY <1>1, <1>2 DEF TypeOK, Cmd
<1>4. TypeOK'
  BY <1>1, <1>3 DEF TypeOK
<1>5. Path'
  BY <1>1, <1>3 DEF Path, Moving, Dropping
<1>6. Tunnels'
  BY <1>1, <1>2, <1>3 DEF Tunnels, Prepared, Pend
<1>7. Phases' /\ Apart' /\ TreesApart'
  <2>1. Steady("report", "done")
    BY <1>1, <1>2, <1>3 DEF Steady
  <2>. QED BY <1>1, <2>1, MigrationQuiet DEF Early, Late, Past
<1>8. Runs'
  BY <1>1, <1>2, <1>3, RunsQuiet DEF Pend
<1>9. Set'
  BY <1>1, <1>3 DEF Set
<1>. QED BY <1>4, <1>5, <1>6, <1>7, <1>8, <1>9

-----------------------------------------------------------------------------
(* The binary.                                                              *)

LEMMA ObtainKeeps == ASSUME IInv, Obtain PROVE IInv'
<1>. USE DEF IInv
<1>1. Goes("obtain", "binary") /\ host' = host
  BY GoesOn DEF Obtain, Pairs
<1>2. TypeOK'
  BY <1>1, TypedGoes DEF TypeOK
<1>3. Path'
  BY <1>1 DEF Goes, Path, Moving, Dropping, Early, Late
<1>4. Tunnels'
  BY <1>1, TunnelsQuiet
<1>5. Phases' /\ Apart' /\ TreesApart'
  BY <1>1, MigrationQuiet, Ranks DEF Goes, Steady, Early, Late, Past
<1>6. Runs'
  BY <1>1, RunsQuiet DEF Goes, Pend
<1>7. Set'
  BY <1>1, Ranks DEF Goes, Set
<1>. QED BY <1>2, <1>3, <1>4, <1>5, <1>6, <1>7

LEMMA BinaryKeeps == ASSUME IInv, Binary PROVE IInv'
<1>. USE DEF IInv
<1>1. PICK q \in {"stop", "useradd"} :
         /\ cmd.at = "binary" /\ undone' = undone /\ spent' = spent /\ (q = "stop" <=> Legacy)
         /\ host' = [host EXCEPT !.bin = cmd.version]
         /\ cmd' = [cmd EXCEPT !.at = q, !.swapped = host.bin # cmd.version]
  <2>1. /\ Then("binary") \in {"stop", "useradd"}
        /\ Then("binary") = "stop" <=> Legacy
    BY DEF Then
  <2>. QED BY <2>1 DEF Binary
<1>2. /\ cmd.kind \in {"setup", "update"} /\ cmd.version \in Versions /\ ~cmd.swapped /\ cmd.left = {}
  BY <1>1 DEF Path, Moving, Dropping, Early, Late, TypeOK, Cmd
<1>. DEFINE x == host.bin # cmd.version
<1>3. x \in BOOLEAN /\ (x = FALSE => host.bin = cmd.version)
  OBVIOUS
<1>4. cmd' = [cmd EXCEPT !.at = q, !.swapped = x]
  BY <1>1
<1>. HIDE DEF x
<1>5. /\ cmd' \in Cmd /\ cmd'.at = q /\ cmd'.flavor = cmd.flavor /\ cmd'.kind = cmd.kind
      /\ cmd'.errs = cmd.errs /\ cmd'.cferrs = cmd.cferrs /\ cmd'.failed = cmd.failed
      /\ cmd'.swapped = x /\ cmd'.left = {} /\ cmd'.version = cmd.version
  <2>1. q \in Steps
    BY TheSteps DEF AllSteps
  <2>2. cmd \in Cmd
    BY DEF TypeOK
  <2>. QED BY <1>2, <1>3, <1>4, <2>1, <2>2 DEF Cmd
<1>6. Keeps({"bin"}) /\ host'.bin = cmd.version
  BY <1>1, <1>2 DEF TypeOK, Host, Keeps, Fields
<1>7. TypeOK'
  BY <1>1, <1>5, <1>6 DEF TypeOK, Keeps
<1>8. Path'
  BY <1>2, <1>5 DEF Path, Moving, Dropping, Early, Late
<1>9. Tunnels'
  BY <1>1, <1>2, <1>5, <1>6 DEF Tunnels, Prepared, Pend, Keeps, Fields
<1>10. UNCHANGED <<host.users, host.ledger, host.tree, host.toml, host.active>>
  BY <1>6 DEF Keeps, Fields
<1>11. Pend' = Pend /\ Pend = undone
  BY <1>1, <1>2, <1>5 DEF Pend
<1>12. Phases'
  <2>1. Legacy' = Legacy
    BY <1>10 DEF Legacy
  <2>2. "migration" \notin undone /\ Legacy => ~host.ledger
    BY DEF Phases, Legacy
  <2>. QED BY <1>1, <1>2, <1>5, <1>10, <2>1, <2>2 DEF Phases, Early, Late
<1>13. Apart'
  <2>1. "migration" \notin Pend => /\ ~("pi" \in host.users /\ "rpi" \in host.users)
                                  /\ host.toml # "legacy"
    BY <1>1 DEF Apart
  <2>2. Rank("stop") = 1
    BY Ranks DEF Early
  <2>. QED BY <1>1, <1>5, <1>10, <1>11, <2>1, <2>2 DEF Apart, Legacy
<1>14. TreesApart'
  BY <1>1, <1>5, <1>10, <1>11 DEF TreesApart, Safe, Before, Trees
<1>15. Runs'
  BY <1>1, <1>2, <1>3, <1>5, <1>6, <1>10, <1>11 DEF Runs
<1>16. Set'
  <2>1. Rank(q) \in {1, 2}
    BY Ranks DEF Early
  <2>2. host'.bin # None
    BY <1>2, <1>6, InstallAssumption
  <2>3. ~cmd.failed => ~cmd.errs /\ ~cmd.cferrs /\ cmd.flavor # "adopted"
    BY <1>1, <1>2 DEF Set
  <2>. QED BY <1>2, <1>5, <2>1, <2>2, <2>3 DEF Set
<1>. QED BY <1>7, <1>8, <1>9, <1>12, <1>13, <1>14, <1>15, <1>16

LEMMA OpenKeeps == ASSUME IInv, Open PROVE IInv'
<1>. USE DEF IInv
<1>1. PICK q \in {"stop", "report"} :
         /\ q = AfterOpen /\ Then("open") = q /\ (q = "stop" => Legacy)
  BY DEF Then, AfterOpen
<1>2. cmd.at = "open" /\ undone' = undone /\ spent' = spent
  BY DEF Open
<1>3. cmd.kind = "migrate" /\ ~cmd.swapped /\ cmd.left = {}
  BY <1>2 DEF Path, Dropping, TypeOK, Cmd
<1>. DEFINE n == IF host.toml = "legacy" THEN "pi" ELSE "rpi"
<1>4. /\ \A f \in Fields \ {"tree", "owned"} : host'[f] = host[f]
      /\ host' \in Host
      /\ \A t \in Trees : host'.tree[t]["pi"] \in {host.tree[t]["pi"], "fresh"}
      /\ \A t \in Trees \ {"lib"} : host'.tree[t] = host.tree[t]
      /\ host'.tree["lib"]["rpi"] # "none" => host.tree["lib"]["rpi"] # "none" \/ ~Legacy \/ "opened" \in cmd'.left
      /\ cmd' \in Cmd /\ cmd'.at = q /\ cmd'.kind = cmd.kind /\ cmd'.flavor = cmd.flavor
      /\ cmd'.version = cmd.version /\ cmd'.errs = cmd.errs /\ cmd'.swapped = cmd.swapped
      /\ cmd'.left \in {{}, {"opened"}}
  <2>1. q \in Steps
    BY TheSteps DEF AllSteps
  <2>2. cmd \in Cmd /\ host \in Host
    BY DEF TypeOK
  <2>3. CASE Has("lib", n)
    <3>1. host' = host /\ cmd' = [cmd EXCEPT !.at = q]
      BY <1>1, <2>3 DEF Open
    <3>. QED BY <1>3, <2>1, <2>2, <3>1 DEF Cmd, Fields
  <2>4. CASE ~Has("lib", n)
    <3>. DEFINE l == IF Legacy THEN {"opened"} ELSE {}
                tr == [host.tree EXCEPT !["lib"][n] = "fresh"]
    <3>1. /\ host' = [host EXCEPT !.tree["lib"][n] = "fresh", !.owned = FALSE]
          /\ cmd' = [cmd EXCEPT !.at = Then("open"), !.left = @ \cup IF Legacy THEN {"opened"} ELSE {}]
      BY <2>4 DEF Open
    <3>2. host' = [host EXCEPT !.tree = tr, !.owned = FALSE]
      BY <2>2, <3>1 DEF Host
    <3>3. cmd' = [cmd EXCEPT !.at = q, !.left = l]
      BY <1>1, <1>3, <2>2, <3>1 DEF Cmd
    <3>4. l \in {{}, {"opened"}} /\ l \in SUBSET Undone /\ (Legacy => "opened" \in l)
      BY DEF Undone
    <3>5. n \in Names /\ host.tree \in [Trees -> [Names -> {"none", "fresh", "legacy"}]]
      BY <2>2 DEF Names, Host
    <3>6. /\ tr \in [Trees -> [Names -> {"none", "fresh", "legacy"}]]
          /\ \A t \in Trees : tr[t]["pi"] \in {host.tree[t]["pi"], "fresh"}
          /\ \A t \in Trees \ {"lib"} : tr[t] = host.tree[t]
      <4>. HIDE DEF n
      <4>. QED BY <3>5 DEF Names, Trees
    <3>. HIDE DEF tr, l
    <3>7. /\ host' \in Host /\ host'.tree = tr
          /\ \A f \in Fields \ {"tree", "owned"} : host'[f] = host[f]
      BY <2>2, <3>2, <3>6 DEF Host, Fields
    <3>8. /\ cmd' \in Cmd /\ cmd'.at = q /\ cmd'.kind = cmd.kind /\ cmd'.flavor = cmd.flavor
          /\ cmd'.version = cmd.version /\ cmd'.errs = cmd.errs /\ cmd'.swapped = cmd.swapped
          /\ cmd'.left = l
      BY <2>1, <2>2, <3>3, <3>4 DEF Cmd
    <3>. QED BY <3>4, <3>6, <3>7, <3>8
  <2>. QED BY <2>3, <2>4
<1>. HIDE DEF n
<1>5. /\ UNCHANGED <<host.users, host.ledger, host.toml, host.active, host.bin>>
      /\ UNCHANGED <<host.config, host.creds, host.service, host.foreign>>
  BY <1>4 DEF Fields
<1>6. /\ "migration" \in Pend' <=> "migration" \in Pend
      /\ "tunnel" \in Pend' <=> "tunnel" \in Pend
      /\ "swap" \in Pend' <=> "swap" \in Pend
      /\ "opened" \in Pend => "opened" \in Pend'
      /\ "migration" \notin cmd'.left
  BY <1>2, <1>3, <1>4 DEF Pend
<1>7. TypeOK'
  BY <1>2, <1>4 DEF TypeOK
<1>8. Path'
  BY <1>3, <1>4 DEF Path, Moving, Early
<1>9. Tunnels'
  BY <1>4, <1>5, <1>6 DEF Tunnels, Prepared
<1>10. Phases'
  <2>1. Legacy' = Legacy
    BY <1>5 DEF Legacy
  <2>2. "migration" \notin undone /\ Legacy => ~host.ledger
    BY DEF Phases, Legacy
  <2>. QED BY <1>1, <1>2, <1>3, <1>4, <1>5, <1>6, <2>1, <2>2 DEF Phases, Early, Late
<1>11. Apart'
  BY <1>2, <1>3, <1>4, <1>5, <1>6 DEF Apart
<1>12. TreesApart'
  <2>1. ASSUME NEW t \in Trees, Safe(t)'
        PROVE  /\ ~(host'.tree[t]["pi"] = "legacy" /\ host'.tree[t]["rpi"] # "none")
               /\ "pi" \notin host'.users => host'.tree[t]["pi"] # "legacy"
    <3>1. Safe(t) /\ "migration" \notin Pend /\ (t = "lib" => "opened" \notin cmd'.left)
      BY <1>6, <2>1 DEF Safe, Pend
    <3>2. /\ ~(host.tree[t]["pi"] = "legacy" /\ host.tree[t]["rpi"] # "none")
          /\ "pi" \notin host.users => host.tree[t]["pi"] # "legacy"
      BY <1>2, <3>1 DEF TreesApart, Before, Trees
    <3>3. ~Legacy => "pi" \notin host.users
      BY <3>1 DEF Apart, Legacy
    <3>4. host'.tree[t]["pi"] = "legacy" => host.tree[t]["pi"] = "legacy"
      BY <1>4
    <3>5. host'.tree[t]["rpi"] # "none" => host.tree[t]["rpi"] # "none" \/ "pi" \notin host.users
      BY <1>4, <3>1, <3>3
    <3>. QED BY <1>5, <3>2, <3>4, <3>5
  <2>. QED BY <2>1 DEF TreesApart
<1>13. Runs'
  BY <1>3, <1>5, <1>6, RunsQuiet
<1>14. Set'
  BY <1>3, <1>4 DEF Set
<1>. QED BY <1>7, <1>8, <1>9, <1>10, <1>11, <1>12, <1>13, <1>14

-----------------------------------------------------------------------------
(* uninstall.                                                               *)

Takes == {"disable", "rmunit", "unload", "userdel", "rmlib", "rmetc", "rmlog"}

\* What is taken away is none of the old name.
LEMMA TakeStep ==
    ASSUME IInv, NEW p \in Takes, NEW q \in Takes \cup {"report"}, Goes(p, q), host' \in Host,
           q \in {"rmlib", "rmetc", "rmlog"} => cmd.flavor = "purge",
           host'.users \in {host.users, host.users \ {"rpi"}},
           \A t \in Trees : /\ host'.tree[t]["pi"] = host.tree[t]["pi"]
                            /\ host'.tree[t]["rpi"] \in {host.tree[t]["rpi"], "none"},
           host'.toml = "legacy" => host.toml = "legacy",
           host'.ledger => host.ledger,
           host'.bin = host.bin, host'.active \in {host.active, None}
    PROVE  TypeOK' /\ Path' /\ Phases' /\ Apart' /\ TreesApart' /\ Runs' /\ Set'
<1>. USE DEF IInv
<1>1. cmd.kind = "uninstall"
  BY DEF Path, Goes, Takes, Moving, Early, Late, Dropping, TypeOK, Cmd
<1>2. /\ p # "done" /\ p \notin Early \cup Late \cup {"mark"}
      /\ q # "done" /\ q \notin Early \cup Late \cup {"mark"}
  BY DEF Takes, Early, Late
<1>3. TypeOK'
  BY TypedGoes
<1>4. Path'
  <2>1. q \in Dropping /\ q \notin {"obtain", "binary", "open"}
    BY DEF Takes, Dropping
  <2>. QED BY <1>1, <2>1 DEF Goes, Path
<1>5. Phases' /\ Apart' /\ TreesApart'
  <2>1. "pi" \in host'.users <=> "pi" \in host.users
    OBVIOUS
  <2>2. "rpi" \in host'.users => "rpi" \in host.users
    OBVIOUS
  <2>3. Steady(p, q) /\ ~Past(q)
    BY <1>1 DEF Goes, Steady, Past
  <2>. QED BY <1>2, <2>1, <2>2, <2>3, MigrationQuiet
<1>6. Runs'
  BY <1>2 DEF Runs, Goes, Pend
<1>7. Set'
  BY <1>1 DEF Goes, Set
<1>. QED BY <1>3, <1>4, <1>5, <1>6, <1>7

LEMMA RemovingKeeps ==
    ASSUME IInv, Disable \/ RmUnit \/ Do("unload", [host EXCEPT !.loaded = host.unit])
    PROVE  IInv'
<1>. USE DEF IInv
<1>1. CASE Disable
  <2>1. Goes("disable", "rmunit") /\ host' = [host EXCEPT !.enabled = FALSE, !.active = None]
    BY <1>1, GoesOn DEF Disable, Pairs
  <2>2. Keeps({"enabled", "active"}) /\ host'.active = None
    BY <2>1 DEF TypeOK, Host, Keeps, Fields
  <2>3. TypeOK' /\ Path' /\ Phases' /\ Apart' /\ TreesApart' /\ Runs' /\ Set'
    BY <2>1, <2>2, TakeStep DEF Takes, Keeps, Fields
  <2>4. Tunnels'
    BY <2>1, <2>2, TunnelsQuiet DEF Keeps, Fields
  <2>. QED BY <2>3, <2>4
<1>2. CASE RmUnit
  <2>1. Goes("rmunit", "unload") /\ host' = [host EXCEPT !.unit = "none"]
    BY <1>2, GoesOn DEF RmUnit, Pairs
  <2>2. Keeps({"unit"})
    BY <2>1 DEF TypeOK, Host, Keeps, Fields
  <2>3. TypeOK' /\ Path' /\ Phases' /\ Apart' /\ TreesApart' /\ Runs' /\ Set'
    BY <2>1, <2>2, TakeStep DEF Takes, Keeps, Fields
  <2>4. Tunnels'
    BY <2>1, <2>2, TunnelsQuiet DEF Keeps, Fields
  <2>. QED BY <2>3, <2>4
<1>3. CASE Do("unload", [host EXCEPT !.loaded = host.unit])
  <2>1. Goes("unload", "userdel") /\ host' = [host EXCEPT !.loaded = host.unit]
    BY <1>3, GoesOn DEF Pairs
  <2>2. Keeps({"loaded"})
    BY <2>1 DEF TypeOK, Host, Keeps, Fields
  <2>3. TypeOK' /\ Path' /\ Phases' /\ Apart' /\ TreesApart' /\ Runs' /\ Set'
    BY <2>1, <2>2, TakeStep DEF Takes, Keeps, Fields
  <2>4. Tunnels'
    BY <2>1, <2>2, TunnelsQuiet DEF Keeps, Fields
  <2>. QED BY <2>3, <2>4
<1>. QED BY <1>1, <1>2, <1>3

LEMMA UserDelKeeps == ASSUME IInv, UserDel PROVE IInv'
<1>. USE DEF IInv
<1>1. PICK q \in {"rmlib", "report"}, gone \in {{}, {"rpi"}} :
         /\ Goes("userdel", q) /\ (q = "rmlib" => cmd.flavor = "purge")
         /\ host' = [host EXCEPT !.users = @ \ {"rpi"}, !.groups = @ \ gone,
                                 !.member = IF gone = {} THEN @ \ {"docker"} ELSE {}]
  <2>1. PICK gone \in {{}, {"rpi"}} :
           Do("userdel", [host EXCEPT !.users = @ \ {"rpi"}, !.groups = @ \ gone,
                                     !.member = IF gone = {} THEN @ \ {"docker"} ELSE {}])
    BY DEF UserDel
  <2>. DEFINE h == [host EXCEPT !.users = @ \ {"rpi"}, !.groups = @ \ gone,
                                !.member = IF gone = {} THEN @ \ {"docker"} ELSE {}]
  <2>2. Do("userdel", h)
    BY <2>1
  <2>3. Then("userdel") \in {"rmlib", "report"} /\ (Then("userdel") = "rmlib" => cmd.flavor = "purge")
    BY DEF Then
  <2>. HIDE DEF h
  <2>4. Goes("userdel", Then("userdel")) /\ host' = h
    BY <2>2, <2>3, DoGoes DEF AllSteps
  <2>. QED BY <2>3, <2>4 DEF h
<1>. DEFINE u == host.users \ {"rpi"}  g == host.groups \ gone
            m == IF gone = {} THEN host.member \ {"docker"} ELSE {}
<1>2. /\ u \in SUBSET Names /\ g \in SUBSET Names /\ m \in SUBSET {"docker", "login"}
  BY DEF TypeOK, Host
<1>3. host' = [host EXCEPT !.users = u, !.groups = g, !.member = m]
  BY <1>1
<1>4. Keeps({"users", "groups", "member"}) /\ host'.users = u
  <2>. HIDE DEF u, g, m
  <2>. QED BY <1>2, <1>3 DEF TypeOK, Host, Keeps, Fields
<1>5. TypeOK' /\ Path' /\ Phases' /\ Apart' /\ TreesApart' /\ Runs' /\ Set'
  BY <1>1, <1>4, TakeStep DEF Takes, Keeps, Fields
<1>6. Tunnels'
  BY <1>1, <1>4, TunnelsQuiet DEF Keeps, Fields
<1>. QED BY <1>5, <1>6

LEMMA PurgeKeeps == ASSUME IInv, Purge PROVE IInv'
<1>. USE DEF IInv
<1>2. CASE Do("rmetc", [host EXCEPT !.tree["etc"]["rpi"] = "none", !.toml = "none", !.section = FALSE])
  <2>. DEFINE tr == [host.tree EXCEPT !["etc"]["rpi"] = "none"]
              h == [host EXCEPT !.tree["etc"]["rpi"] = "none", !.toml = "none", !.section = FALSE]
  <2>1. /\ Goes("rmetc", "rmlog")
        /\ host' = [host EXCEPT !.tree["etc"]["rpi"] = "none", !.toml = "none", !.section = FALSE]
    <3>1. Do("rmetc", h)
      BY <1>2
    <3>. HIDE DEF h
    <3>2. Goes("rmetc", "rmlog") /\ host' = h
      BY <3>1, GoesOn DEF Pairs
    <3>. QED BY <3>2 DEF h
  <2>2. /\ tr \in [Trees -> [Names -> {"none", "fresh", "legacy"}]]
        /\ \A u \in Trees : tr[u]["pi"] = host.tree[u]["pi"] /\ tr[u]["rpi"] \in {host.tree[u]["rpi"], "none"}
    BY DEF TypeOK, Host, Names, Trees
  <2>3. host' = [host EXCEPT !.tree = tr, !.toml = "none", !.section = FALSE]
    BY <2>1 DEF TypeOK, Host
  <2>. HIDE DEF tr, h
  <2>4. Keeps({"tree", "toml", "section"}) /\ host'.tree = tr /\ host'.toml = "none"
    BY <2>2, <2>3 DEF TypeOK, Host, Keeps, Fields
  <2>5. cmd.flavor = "purge"
    BY <2>1 DEF Path, Goes
  <2>6. TypeOK' /\ Path' /\ Phases' /\ Apart' /\ TreesApart' /\ Runs' /\ Set'
    BY <2>1, <2>2, <2>4, <2>5, TakeStep DEF Takes, Keeps, Fields
  <2>7. Tunnels'
    BY <2>1, <2>4, TunnelsQuiet DEF Keeps, Fields
  <2>. QED BY <2>6, <2>7
<1>3. CASE Do("rmlog", [host EXCEPT !.tree["log"]["rpi"] = "none"])
  <2>. DEFINE tr == [host.tree EXCEPT !["log"]["rpi"] = "none"]
              h == [host EXCEPT !.tree["log"]["rpi"] = "none"]
  <2>1. Goes("rmlog", "report") /\ host' = [host EXCEPT !.tree["log"]["rpi"] = "none"]
    <3>1. Do("rmlog", h)
      BY <1>3
    <3>. HIDE DEF h
    <3>2. Goes("rmlog", "report") /\ host' = h
      BY <3>1, DoGoes DEF Then, AllSteps
    <3>. QED BY <3>2 DEF h
  <2>2. /\ tr \in [Trees -> [Names -> {"none", "fresh", "legacy"}]]
        /\ \A u \in Trees : tr[u]["pi"] = host.tree[u]["pi"] /\ tr[u]["rpi"] \in {host.tree[u]["rpi"], "none"}
    BY DEF TypeOK, Host, Names, Trees
  <2>3. host' = [host EXCEPT !.tree = tr]
    BY <2>1 DEF TypeOK, Host
  <2>. HIDE DEF tr, h
  <2>4. Keeps({"tree"}) /\ host'.tree = tr
    BY <2>2, <2>3 DEF TypeOK, Host, Keeps, Fields
  <2>5. cmd.flavor = "purge"
    BY <2>1 DEF Path, Goes
  <2>6. TypeOK' /\ Path' /\ Phases' /\ Apart' /\ TreesApart' /\ Runs' /\ Set'
    BY <2>1, <2>2, <2>4, <2>5, TakeStep DEF Takes, Keeps, Fields
  <2>7. Tunnels'
    BY <2>1, <2>4, TunnelsQuiet DEF Keeps, Fields
  <2>. QED BY <2>6, <2>7
<1>1. CASE Do("rmlib", [host EXCEPT !.tree["lib"]["rpi"] = "none", !.ledger = FALSE,
                      !.creds = FALSE, !.config = "none", !.userunit = "none", !.service = FALSE,
                      !.foreign = @ \/ host.service])
  <2>. DEFINE tr == [host.tree EXCEPT !["lib"]["rpi"] = "none"]
              fo == host.foreign \/ host.service
              h == [host EXCEPT !.tree["lib"]["rpi"] = "none", !.ledger = FALSE,
                      !.creds = FALSE, !.config = "none", !.userunit = "none", !.service = FALSE,
                      !.foreign = @ \/ host.service]
  <2>1. Goes("rmlib", "rmetc") /\ host' = h
    <3>1. Do("rmlib", h)
      BY <1>1
    <3>. HIDE DEF h
    <3>. QED BY <3>1, GoesOn DEF Pairs
  <2>2. /\ tr \in [Trees -> [Names -> {"none", "fresh", "legacy"}]]
        /\ \A u \in Trees : tr[u]["pi"] = host.tree[u]["pi"] /\ tr[u]["rpi"] \in {host.tree[u]["rpi"], "none"}
        /\ fo \in BOOLEAN
    BY DEF TypeOK, Host, Names, Trees
  <2>3. h = [host EXCEPT !.tree = tr, !.ledger = FALSE, !.creds = FALSE, !.config = "none",
                         !.userunit = "none", !.service = FALSE, !.foreign = fo]
    BY DEF TypeOK, Host
  <2>. DEFINE a == [host EXCEPT !.tree = tr, !.ledger = FALSE, !.creds = FALSE]
              b == [a EXCEPT !.config = "none", !.userunit = "none"]
  <2>. HIDE DEF tr, h, fo
  <2>4. /\ a \in Host /\ a.tree = tr /\ a.ledger = FALSE /\ a.creds = FALSE
        /\ \A f \in Fields \ {"tree", "ledger", "creds"} : a[f] = host[f]
    BY <2>2 DEF TypeOK, Host, Fields
  <2>5. h = [b EXCEPT !.service = FALSE, !.foreign = fo]
    BY <2>3 DEF TypeOK, Host
  <2>. HIDE DEF a
  <2>6. /\ b \in Host /\ b.config = "none"
        /\ \A f \in Fields \ {"config", "userunit"} : b[f] = a[f]
    BY <2>4 DEF Host, Fields
  <2>. HIDE DEF b
  <2>7. /\ h \in Host /\ h.service = FALSE
        /\ \A f \in Fields \ {"service", "foreign"} : h[f] = b[f]
    BY <2>2, <2>5, <2>6 DEF Host, Fields
  <2>8. /\ host' \in Host /\ host'.service = FALSE /\ host'.config = "none" /\ host'.tree = tr
        /\ host'.ledger = FALSE
        /\ UNCHANGED <<host.users, host.toml, host.bin, host.active>>
    BY <2>1, <2>4, <2>6, <2>7 DEF Fields
  <2>9. cmd.flavor = "purge"
    BY <2>1 DEF Path, Goes
  <2>10. TypeOK' /\ Path' /\ Phases' /\ Apart' /\ TreesApart' /\ Runs' /\ Set'
    BY <2>1, <2>2, <2>8, <2>9, TakeStep DEF Takes
  <2>11. Tunnels'
    BY <2>1, <2>8 DEF Tunnels, Goes, Prepared, Pend
  <2>. QED BY <2>10, <2>11
<1>. QED BY <1>1, <1>2, <1>3 DEF Purge

-----------------------------------------------------------------------------
(* The migration.                                                           *)

\* What the steps of a migration leave alone.
LEMMA MoveStep ==
    ASSUME IInv, NEW p \in Early \cup Late \cup {"mark"},
           NEW q \in Early \cup Late \cup {"useradd", "mark", "report"}, Goes(p, q), host' \in Host,
           q \in {"mark", "report"} => cmd.kind = "migrate", q = "useradd" => cmd.kind # "migrate",
           UNCHANGED <<host.service, host.config, host.creds, host.foreign, host.active, host.bin>>
    PROVE  TypeOK' /\ Path' /\ Tunnels' /\ Runs' /\ Set'
<1>. USE DEF IInv
<1>1. cmd.kind \in {"setup", "update", "migrate"} /\ (p = "mark" => cmd.kind = "migrate")
  BY DEF Path, Goes, Dropping, Early, Late, TypeOK, Cmd
<1>2. TypeOK'
  BY TypedGoes
<1>3. Path'
  <2>1. q \notin {"obtain", "binary", "open", "rmlib", "rmetc", "rmlog", "done"}
    BY DEF Early, Late
  <2>2. q # "useradd" => q \in Moving
    BY DEF Moving
  <2>3. q \notin (Dropping \cup {"open", "mark"}) \ {"report", "done"} \/ q = "mark"
    BY DEF Dropping, Early, Late
  <2>. QED BY <1>1, <2>1, <2>2, <2>3 DEF Goes, Path
<1>4. Tunnels'
  BY TunnelsQuiet DEF Early, Late
<1>5. Runs'
  BY RunsQuiet DEF Goes, Pend, Early, Late
<1>6. Set'
  <2>1. CASE cmd.kind \in {"setup", "update"} /\ ~cmd.failed
    <3>1. Rank(cmd.at) = 1 /\ Rank(cmd'.at) \in {1, 2}
      BY <1>1, <2>1, Ranks DEF Goes
    <3>2. cmd.at \notin {"validate", "section", "service", "report", "restart", "done"}
      BY <1>1, <2>1 DEF Goes, Early, Late
    <3>3. cmd'.at \notin {"section", "report", "restart", "done", "scaffold", "service"}
      BY <1>1, <2>1 DEF Goes, Early, Late
    <3>. QED BY <2>1, <3>1, <3>2, <3>3 DEF Goes, Set
  <2>2. CASE ~(cmd.kind \in {"setup", "update"} /\ ~cmd.failed)
    BY <2>2 DEF Goes, Set
  <2>. QED BY <2>1, <2>2
<1>. QED BY <1>2, <1>3, <1>4, <1>5, <1>6

LEMMA StopOldKeeps == ASSUME IInv, StopOld PROVE IInv'
<1>. USE DEF IInv
<1>1. Goes("stop", "group") /\ host' = host
  BY GoesOn DEF StopOld, Pairs
<1>2. TypeOK' /\ Path' /\ Tunnels' /\ Runs' /\ Set'
  BY <1>1, MoveStep DEF Early, TypeOK
<1>3. Phases'
  BY <1>1 DEF Goes, Phases, Early, Late, Legacy
<1>4. Apart'
  BY <1>1 DEF Goes, Apart, Pend, Rank, Early
<1>5. TreesApart'
  BY <1>1 DEF Goes, TreesApart, Safe, Pend, Before, Trees
<1>. QED BY <1>2, <1>3, <1>4, <1>5

LEMMA RenameGroupKeeps == ASSUME IInv, RenameGroup PROVE IInv'
<1>. USE DEF IInv
<1>. DEFINE g == (host.groups \ {"pi"}) \cup {"rpi"}  m == host.member \cup {"login"}
<1>1. Goes("group", "user") /\ host' = [host EXCEPT !.groups = g, !.member = m]
  <2>1. Do("group", [host EXCEPT !.groups = g, !.member = m])
    BY DEF RenameGroup
  <2>. HIDE DEF g, m
  <2>. QED BY <2>1, GoesOn DEF Pairs
<1>2. Keeps({"groups", "member"})
  <2>1. g \in SUBSET Names /\ m \in SUBSET {"docker", "login"}
    BY DEF TypeOK, Host, Names
  <2>. HIDE DEF g, m
  <2>. QED BY <1>1, <2>1 DEF TypeOK, Host, Keeps, Fields
<1>. HIDE DEF g, m
<1>3. TypeOK' /\ Path' /\ Tunnels' /\ Runs' /\ Set'
  BY <1>1, <1>2, MoveStep DEF Early, Keeps, Fields
<1>4. UNCHANGED <<host.users, host.ledger, host.tree, host.toml>>
  BY <1>2 DEF Keeps, Fields
<1>5. Phases'
  BY <1>1, <1>4 DEF Goes, Phases, Early, Late, Legacy
<1>6. Apart'
  BY <1>1, <1>4, Ranks DEF Goes, Apart, Pend, Early
<1>7. TreesApart'
  BY <1>1, <1>4 DEF Goes, TreesApart, Safe, Pend, Before, Trees
<1>. QED BY <1>3, <1>5, <1>6, <1>7

LEMMA RenameUserKeeps == ASSUME IInv, RenameUser PROVE IInv'
<1>. USE DEF IInv
<1>. DEFINE u == (host.users \ {"pi"}) \cup {"rpi"}  m == host.member \cup {"docker"}
<1>1. Goes("user", "mvlib") /\ host' = [host EXCEPT !.users = u, !.member = m]
  <2>1. Do("user", [host EXCEPT !.users = u, !.member = m])
    BY DEF RenameUser
  <2>. HIDE DEF u, m
  <2>. QED BY <2>1, GoesOn DEF Pairs
<1>2. Keeps({"users", "member"}) /\ "pi" \notin host'.users
  <2>1. u \in SUBSET Names /\ m \in SUBSET {"docker", "login"} /\ "pi" \notin u
    BY DEF TypeOK, Host, Names
  <2>. HIDE DEF u, m
  <2>. QED BY <1>1, <2>1 DEF TypeOK, Host, Keeps, Fields
<1>. HIDE DEF u, m
<1>3. TypeOK' /\ Path' /\ Tunnels' /\ Runs' /\ Set'
  BY <1>1, <1>2, MoveStep DEF Early, Late, Keeps, Fields
<1>4. UNCHANGED <<host.ledger, host.tree, host.toml>>
  BY <1>2 DEF Keeps, Fields
<1>5. Phases'
  BY <1>1, <1>2, <1>4 DEF Goes, Phases, Early, Late
<1>6. Apart'
  BY <1>1, <1>2, <1>4 DEF Goes, Apart, Pend
<1>7. TreesApart'
  BY <1>1, <1>4 DEF Goes, TreesApart, Safe, Pend, Before, Trees
<1>. QED BY <1>3, <1>5, <1>6, <1>7

\* What the move of a tree does to the host.
LEMMA MovedHost ==
    ASSUME TypeOK, NEW t \in Trees
    PROVE  /\ Moved(t) \in Host
           /\ \A f \in Fields \ {"tree", "toml", "owned"} : Moved(t)[f] = host[f]
           /\ Moved(t).toml # host.toml => t = "etc"
           /\ \A u \in Trees \ {t} : Moved(t).tree[u] = host.tree[u]
           /\ ~(host.tree[t]["pi"] = "legacy" /\ host.tree[t]["rpi"] # "none")
                 => Moved(t).tree[t]["pi"] # "legacy"
<1>1. CASE Has(t, "pi") /\ ~Has(t, "rpi")
  <2>. DEFINE tr == [host.tree EXCEPT ![t]["rpi"] = host.tree[t]["pi"], ![t]["pi"] = "none"]
              to == IF t = "etc" THEN "legacy" ELSE host.toml
              ow == IF t = "lib" THEN TRUE ELSE host.owned
  <2>1. Moved(t) = [host EXCEPT !.tree = tr, !.toml = to, !.owned = ow]
    BY <1>1 DEF Moved, TypeOK, Host
  <2>2. host.tree \in [Trees -> [Names -> {"none", "fresh", "legacy"}]]
    BY DEF TypeOK, Host
  <2>3. /\ tr \in [Trees -> [Names -> {"none", "fresh", "legacy"}]] /\ tr[t]["pi"] = "none"
        /\ \A u \in Trees \ {t} : tr[u] = host.tree[u]
    <3>. DEFINE s == [host.tree EXCEPT ![t]["rpi"] = host.tree[t]["pi"]]
    <3>1. /\ s \in [Trees -> [Names -> {"none", "fresh", "legacy"}]]
          /\ \A u \in Trees \ {t} : s[u] = host.tree[u]
      BY <2>2 DEF Names
    <3>2. tr = [s EXCEPT ![t]["pi"] = "none"]
      OBVIOUS
    <3>. HIDE DEF s, tr
    <3>. QED BY <3>1, <3>2 DEF Names
  <2>4. to \in {"none", "legacy", "own", "default"} /\ ow \in BOOLEAN /\ (to # host.toml => t = "etc")
    BY DEF TypeOK, Host
  <2>. HIDE DEF tr, to, ow
  <2>5. Moved(t).tree = tr /\ Moved(t).toml = to
    BY <2>1 DEF TypeOK, Host
  <2>6. Moved(t) \in Host
    BY <2>1, <2>3, <2>4 DEF TypeOK, Host
  <2>7. \A f \in Fields \ {"tree", "toml", "owned"} : Moved(t)[f] = host[f]
    BY <2>1 DEF TypeOK, Host, Fields
  <2>. QED BY <2>3, <2>4, <2>5, <2>6, <2>7
<1>2. CASE ~(Has(t, "pi") /\ ~Has(t, "rpi"))
  <2>1. Moved(t) = host
    BY <1>2 DEF Moved
  <2>2. ~Has(t, "pi") \/ Has(t, "rpi")
    BY <1>2
  <2>. QED BY <2>1, <2>2 DEF TypeOK, Has
<1>. QED BY <1>1, <1>2

LEMMA MoveKeeps == ASSUME IInv, Move PROVE IInv'
<1>. USE DEF IInv
<1>1. PICK t \in Trees, p \in Late, q \in Late :
         /\ <<t, p, q>> \in {<<"lib", "mvlib", "mvetc">>, <<"etc", "mvetc", "mvlog">>, <<"log", "mvlog", "rewrite">>}
         /\ Goes(p, q) /\ host' = Moved(t)
  <2>1. CASE Do("mvlib", Moved("lib"))
    BY <2>1, GoesOn DEF Pairs, Late, Trees
  <2>2. CASE Do("mvetc", Moved("etc"))
    BY <2>2, GoesOn DEF Pairs, Late, Trees
  <2>3. CASE Do("mvlog", Moved("log"))
    BY <2>3, GoesOn DEF Pairs, Late, Trees
  <2>. QED BY <2>1, <2>2, <2>3 DEF Move
<1>2. /\ host' \in Host
      /\ \A f \in Fields \ {"tree", "toml", "owned"} : host'[f] = host[f]
      /\ host'.toml # host.toml => t = "etc"
      /\ \A u \in Trees \ {t} : host'.tree[u] = host.tree[u]
      /\ ~(host.tree[t]["pi"] = "legacy" /\ host.tree[t]["rpi"] # "none")
            => host'.tree[t]["pi"] # "legacy"
  BY <1>1, MovedHost
<1>3. TypeOK' /\ Path' /\ Tunnels' /\ Runs' /\ Set'
  <2>1. q \notin {"useradd", "mark", "report"}
    BY DEF Late
  <2>. QED BY <1>1, <1>2, <2>1, MoveStep DEF Fields
<1>4. UNCHANGED <<host.ledger, host.users>>
  BY <1>2 DEF Fields
<1>5. "pi" \notin host.users
  BY <1>1 DEF Phases, Goes
<1>6. Phases'
  <2>1. q \notin Early /\ q # "mark"
    BY DEF Early, Late
  <2>. QED BY <1>1, <1>4, <1>5, <2>1 DEF Goes, Phases
<1>7. Apart'
  <2>1. "migration" \notin Pend /\ q \notin {"mvlog", "rewrite"} => host'.toml # "legacy"
    BY <1>1, <1>2 DEF Apart, Goes
  <2>. QED BY <1>1, <1>4, <1>5, <2>1 DEF Goes, Apart, Pend
<1>8. TreesApart'
  <2>1. ASSUME NEW u \in Trees, Safe(u)'
        PROVE  /\ ~(host'.tree[u]["pi"] = "legacy" /\ host'.tree[u]["rpi"] # "none")
               /\ q \notin Before(u) => host'.tree[u]["pi"] # "legacy"
    <3>1. Safe(u)
      BY <1>1, <2>1 DEF Safe, Pend, Goes
    <3>2. ~(host.tree[u]["pi"] = "legacy" /\ host.tree[u]["rpi"] # "none")
      BY <3>1 DEF TreesApart
    <3>3. CASE u = t
      BY <1>2, <3>2, <3>3
    <3>4. CASE u # t
      <4>1. q \notin Before(u) => p \notin Before(u)
        BY <1>1, <3>4 DEF Before, Trees
      <4>2. p \notin Before(u) => host.tree[u]["pi"] # "legacy"
        BY <1>1, <1>5, <3>1 DEF TreesApart, Goes
      <4>. QED BY <1>2, <3>2, <3>4, <4>1, <4>2
    <3>. QED BY <3>3, <3>4
  <2>. QED BY <1>1, <2>1 DEF TreesApart, Goes
<1>. QED BY <1>3, <1>6, <1>7, <1>8

LEMMA RewriteKeeps == ASSUME IInv, Rewrite PROVE IInv'
<1>. USE DEF IInv
<1>. DEFINE t == IF host.toml = "legacy" THEN "own" ELSE host.toml
<1>1. Goes("rewrite", "oldunit") /\ host' = [host EXCEPT !.toml = t]
  <2>1. Do("rewrite", [host EXCEPT !.toml = t])
    BY DEF Rewrite
  <2>. HIDE DEF t
  <2>. QED BY <2>1, GoesOn DEF Pairs
<1>2. Keeps({"toml"}) /\ host'.toml # "legacy"
  <2>1. t \in {"none", "own", "default"}
    BY DEF TypeOK, Host
  <2>. HIDE DEF t
  <2>. QED BY <1>1, <2>1 DEF TypeOK, Host, Keeps, Fields
<1>. HIDE DEF t
<1>3. TypeOK' /\ Path' /\ Tunnels' /\ Runs' /\ Set'
  BY <1>1, <1>2, MoveStep DEF Late, Keeps, Fields
<1>4. UNCHANGED <<host.ledger, host.tree, host.users>>
  BY <1>2 DEF Keeps, Fields
<1>5. Phases'
  BY <1>1, <1>4 DEF Goes, Phases, Early, Late
<1>6. Apart'
  BY <1>1, <1>2, <1>4 DEF Goes, Apart, Pend, Phases, Late
<1>7. TreesApart'
  BY <1>1, <1>4 DEF Goes, TreesApart, Safe, Pend, Before, Trees
<1>. QED BY <1>3, <1>5, <1>6, <1>7

LEMMA BackUpKeeps == ASSUME IInv, BackUpOldUnit PROVE IInv'
<1>. USE DEF IInv
<1>1. PICK q \in {"useradd", "mark", "report"} :
         /\ Goes("oldunit", q) /\ host' = host
         /\ q = "useradd" <=> cmd.kind # "migrate"
         /\ q = "mark" => ~cmd.errs
  <2>1. Do("oldunit", host) /\ Then("oldunit") = AfterMigrating
    BY DEF BackUpOldUnit, Then
  <2>2. /\ AfterMigrating \in {"useradd", "mark", "report"}
        /\ AfterMigrating = "useradd" <=> cmd.kind # "migrate"
        /\ AfterMigrating = "mark" => ~cmd.errs
    BY DEF AfterMigrating
  <2>. QED BY <2>1, <2>2, DoGoes DEF AllSteps
<1>2. TypeOK' /\ Path' /\ Tunnels' /\ Runs' /\ Set'
  BY <1>1, MoveStep DEF Late, TypeOK
<1>3. "pi" \notin host.users /\ ("migration" \in cmd.left => cmd.errs)
  BY <1>1 DEF Phases, Goes, Late
<1>4. Phases'
  BY <1>1, <1>3 DEF Goes, Phases, Early, Late
<1>5. Apart'
  BY <1>1, <1>3 DEF Goes, Apart, Pend
<1>6. TreesApart'
  BY <1>1 DEF Goes, TreesApart, Safe, Pend, Before, Trees
<1>. QED BY <1>2, <1>4, <1>5, <1>6

LEMMA MarkKeeps == ASSUME IInv, Mark PROVE IInv'
<1>. USE DEF IInv
<1>1. Goes("mark", "report") /\ host' = [host EXCEPT !.ledger = TRUE]
  BY DoGoes DEF Mark, Then, AllSteps
<1>2. Keeps({"ledger"})
  BY <1>1 DEF TypeOK, Host, Keeps, Fields
<1>3. TypeOK' /\ Path' /\ Tunnels' /\ Runs' /\ Set'
  <2>1. cmd.kind = "migrate"
    BY <1>1 DEF Path, Goes, Dropping, TypeOK, Cmd
  <2>. QED BY <1>1, <1>2, <2>1, MoveStep DEF Keeps, Fields
<1>4. UNCHANGED <<host.toml, host.tree, host.users>>
  BY <1>2 DEF Keeps, Fields
<1>5. Phases'
  BY <1>1, <1>4 DEF Goes, Phases, Early, Late
<1>6. Apart'
  BY <1>1, <1>4 DEF Goes, Apart, Pend, Phases
<1>7. TreesApart'
  BY <1>1, <1>4 DEF Goes, TreesApart, Safe, Pend, Before, Trees
<1>. QED BY <1>3, <1>5, <1>6, <1>7

-----------------------------------------------------------------------------
(* Failures, cuts and beginnings.                                           *)

Moves == {"group", "user", "mvlib", "mvetc", "mvlog", "rewrite"}

\* Where a command goes on from a step that fails.
LEMMA Failing ==
    ASSUME NEW p \in AllSteps \ {"report"}, NEW q, q = OnFail(p)
    PROVE  /\ p \in {"obtain", "binary", "open", "restart"} => q = "done"
           /\ p \in {"group", "user"} => q = IF cmd.kind = "migrate" THEN "report" ELSE "useradd"
           /\ p = "stop" => q = "group"
           /\ p = "mvlib" => q = "mvetc"
           /\ p = "mvetc" => q = "mvlog"
           /\ p = "mvlog" => q = "rewrite"
           /\ p = "rewrite" => q = "oldunit"
           /\ p = "oldunit" => q = AfterMigrating
           /\ p = "mark" => q = "report"
           /\ p \in Basic => q \in Basic \cup {"token", "scaffold", "report"}
           /\ p = "token" => q = IF host.config = "none" THEN "guard" ELSE "adopt"
           /\ p = "validate" => q = "section"
           /\ p \in Laters \ {"token", "validate"} => q = "report"
           /\ p \in Takes => q \in Takes \cup {"report"}
           /\ p \in Takes /\ q \in {"rmlib", "rmetc", "rmlog"} =>
                 p \in {"rmlib", "rmetc", "rmlog"} \/ cmd.flavor = "purge"
<1>. DEFINE ends == {"obtain", "binary", "open", "group", "user", "guard", "adopt", "tunnel", "creds",
                     "config", "section"}
<1>1. CASE p \in ends
  <2>1. /\ p \in {"obtain", "binary", "open"} => q = "done"
        /\ p \in {"group", "user"} => q = IF cmd.kind = "migrate" THEN "report" ELSE "useradd"
        /\ p \notin {"obtain", "binary", "open", "group", "user"} => q = "report"
    BY <1>1 DEF OnFail
  <2>. QED BY <1>1, <2>1 DEF Basic, Laters, Takes
<1>2. CASE p \notin ends
  <2>1. q = Then(p)
    BY <1>2 DEF OnFail
  <2>2. CASE \E x \in AllSteps : <<p, x>> \in Pairs
    <3>1. PICK x \in AllSteps : <<p, x>> \in Pairs
      BY <2>2
    <3>2. q = x
      BY <2>1, <3>1, NextStep
    <3>. HIDE <2>1
    <3>. QED BY <1>2, <3>1, <3>2 DEF Pairs, Basic, Laters, Takes
  <2>3. CASE ~\E x \in AllSteps : <<p, x>> \in Pairs
    <3>1. p \in {"oldunit", "enable", "token", "userdel", "mark", "scaffold", "service", "rmlog", "restart"}
      <4>1. \A x \in AllSteps : <<p, x>> \notin Pairs
        BY <2>3
      <4>. QED BY <1>2, <4>1 DEF Pairs, AllSteps
    <3>2. /\ p = "oldunit" => q = AfterMigrating
          /\ p = "enable" => q = AfterBasics
          /\ p = "token" => q = IF host.config = "none" THEN "guard" ELSE "adopt"
          /\ p = "userdel" => q = IF cmd.flavor = "purge" THEN "rmlib" ELSE "report"
          /\ p \in {"mark", "scaffold", "service", "rmlog"} => q = "report"
          /\ p = "restart" => q = "done"
      BY <2>1, <3>1 DEF Then
    <3>3. AfterBasics \in {"token", "scaffold", "report"}
      BY DEF AfterBasics
    <3>. HIDE <2>1
    <3>. QED BY <3>1, <3>2, <3>3 DEF Basic, Laters, Takes
  <2>. QED BY <2>2, <2>3
<1>. QED BY <1>1, <1>2

\* A step that fails leaves the host, and says what it left undone.
LEMMA FailKeeps == ASSUME IInv, Fail PROVE IInv'
<1>. USE DEF IInv
<1>. DEFINE p == cmd.at  q == OnFail(cmd.at)
            e == cmd.errs \/ ~Silent(cmd.at)
            c == cmd.cferrs \/ InTunnel(cmd.at)
            l == cmd.left \cup (IF cmd.at \in StepsOf(Migrating) \ {"stop", "oldunit"} THEN {"migration"} ELSE {})
                          \cup (IF cmd.at = "restart" THEN {"swap"} ELSE {})
<1>1. /\ p \in AllSteps \ {"report"} /\ host' = host /\ undone' = undone
      /\ IF Needs(p) THEN Spend("failure") ELSE UNCHANGED spent
      /\ cmd' = [cmd EXCEPT !.at = q, !.failed = TRUE, !.errs = e, !.cferrs = c, !.left = l]
  BY TheSteps DEF Fail
<1>2. spent' \in [Kinds -> Nat]
  <2>1. CASE Needs(p)
    BY <1>1, <2>1 DEF TypeOK, Spend
  <2>2. CASE ~Needs(p)
    BY <1>1, <2>2 DEF TypeOK
  <2>. QED BY <2>1, <2>2
<1>3. /\ l \in SUBSET Undone /\ cmd.left \subseteq l
      /\ "migration" \in l <=> "migration" \in cmd.left \/ p \in Moves
      /\ "opened" \in l <=> "opened" \in cmd.left
      /\ "tunnel" \in l <=> "tunnel" \in cmd.left
      /\ p = "restart" => "swap" \in l
  <2>1. cmd.at \in StepsOf(Migrating) \ {"stop", "oldunit"} <=> p \in Moves
    BY TheSteps DEF Early, Late, Moves
  <2>. QED BY <2>1 DEF TypeOK, Cmd, Undone
<1>4. /\ e \in BOOLEAN /\ c \in BOOLEAN
      /\ cmd.errs => e
      /\ p \in Moves => e
      /\ p = "validate" => c
  <2>1. cmd.errs \in BOOLEAN /\ cmd.cferrs \in BOOLEAN
    BY DEF TypeOK, Cmd
  <2>2. p \in Moves => ~Silent(p)
    BY DEF Moves, Silent
  <2>3. p = "validate" => InTunnel(p)
    BY TheSteps DEF InTunnel
  <2>. QED BY <2>1, <2>2, <2>3
<1>5. PICK r : r = q
  OBVIOUS
<1>6. /\ p \in {"obtain", "binary", "open", "restart"} => r = "done"
      /\ p \in {"group", "user"} => r = IF cmd.kind = "migrate" THEN "report" ELSE "useradd"
      /\ p = "stop" => r = "group"
      /\ p = "mvlib" => r = "mvetc"
      /\ p = "mvetc" => r = "mvlog"
      /\ p = "mvlog" => r = "rewrite"
      /\ p = "rewrite" => r = "oldunit"
      /\ p = "oldunit" => r = AfterMigrating
      /\ p = "mark" => r = "report"
      /\ p \in Basic => r \in Basic \cup {"token", "scaffold", "report"}
      /\ p = "token" => r = IF host.config = "none" THEN "guard" ELSE "adopt"
      /\ p = "validate" => r = "section"
      /\ p \in Laters \ {"token", "validate"} => r = "report"
      /\ p \in Takes => r \in Takes \cup {"report"}
      /\ p \in Takes /\ r \in {"rmlib", "rmetc", "rmlog"} =>
            p \in {"rmlib", "rmetc", "rmlog"} \/ cmd.flavor = "purge"
  BY <1>1, <1>5, Failing
<1>7. /\ AfterMigrating \in {"useradd", "mark", "report"}
      /\ AfterMigrating = "useradd" <=> cmd.kind # "migrate"
      /\ AfterMigrating = "mark" => ~cmd.errs
  BY DEF AfterMigrating
<1>8. p \in {"obtain", "binary", "open", "restart", "mark"} \cup Early \cup Late \cup Basic \cup Laters \cup Takes
  BY <1>1 DEF AllSteps, Early, Late, Basic, Laters, Takes
<1>9. cmd' = [cmd EXCEPT !.at = r, !.failed = TRUE, !.errs = e, !.cferrs = c, !.left = l]
  BY <1>1, <1>5
<1>10. PICK at0 \in AllSteps \ {"report"} : at0 = cmd.at
  BY <1>1
<1>. HIDE DEF q, e, c, l
<1>11. r \in Steps \cup {"done"}
  <2>1. r \in AllSteps \cup {"done"}
    BY <1>6, <1>7, <1>8 DEF AllSteps, Early, Late, Basic, Laters, Takes
  <2>. QED BY <2>1, TheSteps
<1>12. /\ cmd' \in Cmd /\ cmd'.at = r /\ cmd'.failed /\ cmd'.errs = e /\ cmd'.cferrs = c /\ cmd'.left = l
       /\ cmd'.kind = cmd.kind /\ cmd'.flavor = cmd.flavor /\ cmd'.version = cmd.version
       /\ cmd'.swapped = cmd.swapped
  <2>. DEFINE a == [cmd EXCEPT !.at = r, !.failed = TRUE, !.errs = e]
  <2>1. /\ a \in Cmd /\ a.at = r /\ a.failed = TRUE /\ a.errs = e
        /\ a.kind = cmd.kind /\ a.flavor = cmd.flavor /\ a.version = cmd.version
        /\ a.swapped = cmd.swapped
    BY <1>4, <1>11 DEF TypeOK, Cmd
  <2>2. cmd' = [a EXCEPT !.cferrs = c, !.left = l]
    BY <1>9 DEF TypeOK, Cmd
  <2>. HIDE DEF a
  <2>. QED BY <1>3, <1>4, <2>1, <2>2 DEF Cmd
<1>. HIDE DEF p
<1>13. p = at0 /\ cmd.at = at0
  BY <1>10 DEF p
<1>14. TypeOK'
  BY <1>1, <1>2, <1>12 DEF TypeOK
<1>15. Path'
  <2>1. CASE at0 \in {"obtain", "binary", "open", "restart"}
    <3>1. r = "done"
      BY <1>6, <1>13, <2>1
    <3>. QED BY <1>12, <3>1 DEF Path, Moving, Dropping
  <2>2. CASE at0 \in Early \cup Late \cup {"mark"}
    <3>1. cmd.kind \in {"setup", "update", "migrate"} /\ (at0 = "mark" => cmd.kind = "migrate")
      BY <1>13, <2>2 DEF Path, Dropping, Early, Late, TypeOK, Cmd
    <3>2. /\ r \in Early \cup Late \cup {"useradd", "mark", "report"}
          /\ r \in {"mark", "report"} => cmd.kind = "migrate"
          /\ r = "useradd" => cmd.kind # "migrate"
      BY <1>6, <1>7, <1>13, <2>2, <3>1 DEF Early, Late
    <3>3. r \notin {"obtain", "binary", "open", "rmlib", "rmetc", "rmlog", "done"}
      BY <3>2 DEF Early, Late
    <3>4. r # "useradd" => r \in Moving
      BY <3>2 DEF Moving
    <3>5. r \notin (Dropping \cup {"open", "mark"}) \ {"report", "done"} \/ r = "mark"
      BY <3>2 DEF Dropping, Early, Late
    <3>. QED BY <1>12, <3>1, <3>2, <3>3, <3>4, <3>5 DEF Path
  <2>3. CASE at0 \in Basic \cup Laters
    <3>1. cmd.kind \in {"setup", "update"}
      BY <1>13, <2>3 DEF Path, Basic, Laters, Moving, Dropping, Early, Late, TypeOK, Cmd
    <3>2. r \in Basic \cup Laters \cup {"report"}
      BY <1>6, <1>13, <2>3 DEF Laters
    <3>3. r \notin (Dropping \cup {"open", "mark"}) \ {"report"} /\ r \notin {"obtain", "binary"}
      BY <3>2 DEF Basic, Laters, Dropping
    <3>4. r \notin {"rmlib", "rmetc", "rmlog", "open"}
      BY <3>2 DEF Basic, Laters
    <3>. QED BY <1>12, <3>1, <3>3, <3>4 DEF Path
  <2>4. CASE at0 \in Takes
    <3>1. cmd.kind = "uninstall"
      BY <1>13, <2>4 DEF Path, Takes, Moving, Early, Late, Dropping, TypeOK, Cmd
    <3>2. /\ r \in Takes \cup {"report"}
          /\ r \in {"rmlib", "rmetc", "rmlog"} => cmd.flavor = "purge"
      BY <1>6, <1>13, <2>4 DEF Path
    <3>3. r \in Dropping /\ r \notin {"obtain", "binary", "open"}
      BY <3>2 DEF Takes, Dropping
    <3>. QED BY <1>12, <3>1, <3>2, <3>3 DEF Path
  <2>. QED BY <1>8, <1>13, <2>1, <2>2, <2>3, <2>4
<1>16. Tunnels'
  <2>1. r \in {"guard", "tunnel", "creds", "config"} => host.config = "none" /\ r = "guard"
    BY <1>6, <1>7, <1>8 DEF Early, Late, Basic, Takes, Laters
  <2>2. r \notin {"validate", "service"} /\ (r = "section" => p = "validate")
    BY <1>6, <1>7, <1>8 DEF Early, Late, Basic, Takes, Laters
  <2>3. ~Prepared'
    BY <1>4, <1>12, <2>2 DEF Prepared
  <2>4. "tunnel" \in Pend => "tunnel" \in Pend'
    BY <1>1, <1>3, <1>12 DEF Pend
  <2>. QED BY <1>1, <1>12, <2>1, <2>3, <2>4 DEF Tunnels
<1>17. Phases'
  <2>1. r \in Early => p \in Early
    BY <1>6, <1>7, <1>8 DEF Early, Late, Basic, Takes, Laters
  <2>2. r \in Late => p \in Late
    BY <1>6, <1>7, <1>8 DEF Early, Late, Basic, Takes, Laters
  <2>3. r = "mark" => p = "oldunit" /\ ~cmd.errs
    BY <1>6, <1>7, <1>8 DEF Early, Late, Basic, Takes, Laters
  <2>4. p \in Moves => p \in Early \cup Late
    BY DEF Moves, Early, Late
  <2>5. "oldunit" \in Late \ Moves
    BY DEF Late, Moves
  <2>6. Legacy' = Legacy
    BY <1>1 DEF Legacy
  <2>7. r \in Early => Legacy
    BY <1>13, <2>1 DEF Phases
  <2>8. r \in Late \cup {"mark"} => "pi" \notin host.users
    BY <1>13, <2>2, <2>3, <2>5 DEF Phases
  <2>9. r = "mark" => "migration" \notin l
    BY <1>3, <1>13, <2>3, <2>5 DEF Phases
  <2>10. r \in Early \cup Late /\ "migration" \in l => e
    BY <1>3, <1>4, <1>13, <2>1, <2>2 DEF Phases
  <2>11. r \in Early \cup Late /\ "migration" \notin undone => ~host.ledger
    BY <1>13, <2>1, <2>2 DEF Phases
  <2>12. host.ledger /\ "migration" \notin undone => "pi" \notin host.users /\ "migration" \notin l
    BY <1>3, <1>13, <2>4 DEF Phases
  <2>. QED BY <1>1, <1>12, <2>6, <2>7, <2>8, <2>9, <2>10, <2>11, <2>12 DEF Phases
<1>18. "migration" \notin Pend' => "migration" \notin Pend /\ p \notin Moves
  BY <1>1, <1>3, <1>12 DEF Pend
<1>19. Apart'
  <2>. SUFFICES ASSUME "migration" \notin Pend' PROVE Apart'
    BY DEF Apart
  <2>1. /\ ~("pi" \in host.users /\ "rpi" \in host.users)
        /\ cmd.kind \in {"setup", "update"} /\ Rank(at0) >= 2 /\ at0 # "done" => "pi" \notin host.users
        /\ at0 \notin {"mvlog", "rewrite"} => host.toml # "legacy"
    BY <1>13, <1>18 DEF Apart
  <2>2. host.toml # "legacy"
    BY <1>13, <1>18, <2>1 DEF Moves
  <2>3. CASE at0 \in Late
    <3>1. "pi" \notin host.users
      BY <1>13, <2>3 DEF Phases
    <3>. QED BY <1>1, <1>12, <2>2, <3>1 DEF Apart
  <2>4. CASE at0 \in Basic \cup Laters
    <3>1. Rank(at0) >= 2 /\ at0 # "done"
      BY <2>4, Ranks DEF Basic, Laters
    <3>. QED BY <1>1, <1>12, <2>1, <2>2, <3>1 DEF Apart
  <2>5. CASE at0 \in {"obtain", "binary", "open", "restart"}
    BY <1>1, <1>6, <1>12, <1>13, <2>1, <2>2, <2>5 DEF Apart
  <2>6. CASE at0 \in Early
    <3>1. at0 = "stop" /\ r = "group"
      BY <1>6, <1>13, <1>18, <2>6 DEF Early, Moves
    <3>2. Rank(r) = 1
      BY <3>1, Ranks DEF Early
    <3>. QED BY <1>1, <1>12, <2>1, <2>2, <3>2 DEF Apart
  <2>7. CASE at0 = "mark" \/ at0 \in Takes
    <3>1. cmd.kind \notin {"setup", "update"}
      BY <1>13, <2>7 DEF Path, Takes, Dropping
    <3>. QED BY <1>1, <1>12, <2>1, <2>2, <3>1 DEF Apart
  <2>. QED BY <1>8, <1>13, <2>3, <2>4, <2>5, <2>6, <2>7
<1>20. TreesApart'
  <2>1. ASSUME NEW t \in Trees, Safe(t)'
        PROVE  /\ ~(host.tree[t]["pi"] = "legacy" /\ host.tree[t]["rpi"] # "none")
               /\ "pi" \notin host.users => host.tree[t]["pi"] # "legacy"
    <3>1. Safe(t)
      BY <1>1, <1>3, <1>12, <2>1 DEF Safe, Pend
    <3>2. at0 \notin Before(t)
      BY <1>13, <1>18, <2>1 DEF Before, Moves, Safe, Trees
    <3>. QED BY <1>13, <3>1, <3>2 DEF TreesApart
  <2>. QED BY <1>1, <2>1 DEF TreesApart
<1>21. Runs'
  <2>1. "swap" \in Pend => "swap" \in Pend'
    BY <1>1, <1>3, <1>12 DEF Pend
  <2>2. cmd.swapped => "swap" \in Pend' \/ r # "done"
    <3>1. r = "done" => p \in {"obtain", "binary", "open", "restart"}
      BY <1>6, <1>7, <1>8 DEF Early, Late, Basic, Takes, Laters
    <3>2. p \in {"obtain", "binary", "open"} => ~cmd.swapped
      BY <1>13 DEF Path
    <3>. QED BY <1>3, <1>12, <3>1, <3>2 DEF Pend
  <2>. QED BY <1>1, <1>12, <2>1, <2>2, RunsQuiet
<1>22. Set'
  BY <1>12 DEF Set
<1>. QED BY <1>14, <1>15, <1>16, <1>17, <1>19, <1>20, <1>21, <1>22

\* A cut forgets the command and remembers what it left.
LEMMA CutKeeps == ASSUME IInv, Cut PROVE IInv'
<1>. USE DEF IInv
<1>1. /\ cmd.at # "done" /\ cmd' = Idle /\ host' = host
      /\ undone' = undone \cup cmd.left \cup Swapped
                 \cup (IF cmd.at \in StepsOf(Migrating) \ {"stop", "group"} THEN {"migration"} ELSE {})
      /\ Spend("cut")
  BY DEF Cut
<1>2. spent' \in [Kinds -> Nat]
  <2>1. spent' = [spent EXCEPT !["cut"] = @ + 1]
    BY <1>1 DEF Spend
  <2>2. spent \in [Kinds -> Nat]
    BY DEF TypeOK
  <2>. QED BY <2>1, <2>2 DEF Kinds
<1>3. /\ cmd'.at = "done" /\ cmd'.kind = "idle" /\ cmd'.flavor = "none" /\ cmd'.swapped = FALSE
      /\ cmd'.left = {}
      /\ cmd' \in Cmd
  BY <1>1 DEF Idle, Cmd
<1>4. /\ undone \subseteq undone' /\ undone' \in SUBSET Undone /\ Pend \subseteq undone' /\ Pend' = undone'
      /\ cmd.at \in {"user"} \cup Late => "migration" \in undone'
      /\ cmd.swapped => "swap" \in undone'
  <2>1. cmd.at \in StepsOf(Migrating) \ {"stop", "group"} <=> cmd.at \in {"user"} \cup Late
    BY TheSteps DEF Early, Late
  <2>. QED BY <1>1, <1>3, <2>1 DEF TypeOK, Cmd, Undone, Swapped, Pend
<1>5. TypeOK'
  BY <1>1, <1>2, <1>3, <1>4 DEF TypeOK
<1>6. Path'
  BY <1>3 DEF Path
<1>7. Tunnels'
  BY <1>1, <1>3, <1>4 DEF Tunnels, Prepared
<1>8. Phases'
  BY <1>1, <1>3, <1>4 DEF Phases, Early, Late
<1>9. Apart'
  BY <1>1, <1>3, <1>4 DEF Apart, Late
<1>10. TreesApart'
  <2>1. ASSUME NEW t \in Trees, Safe(t)'
        PROVE  Safe(t) /\ cmd.at \notin Before(t)
    BY <1>4, <2>1 DEF Safe, Before, Late, Trees
  <2>. QED BY <1>1, <2>1 DEF TreesApart
<1>11. Runs'
  BY <1>1, <1>4, RunsQuiet
<1>12. Set'
  BY <1>3 DEF Set
<1>. QED BY <1>5, <1>6, <1>7, <1>8, <1>9, <1>10, <1>11, <1>12

LEMMA BeginsKeeps == ASSUME IInv, Begins PROVE IInv'
<1>. USE DEF IInv
<1>1. PICK k \in {"setup", "update", "migrate", "uninstall"},
           f \in {"none", "scaffold", "full", "list", "plan", "auto", "run", "keep", "purge"},
           v \in Versions \cup {None}, at \in {"binary", "obtain", "open", "disable"} :
         /\ Begin(k, f, v, at)
         /\ k \in {"setup", "update"} => v \in Versions /\ at \in {"binary", "obtain"}
         /\ k = "migrate" => at = "open"
         /\ k = "uninstall" => at = "disable"
         /\ f = "purge" => k = "uninstall"
  <2>1. CASE \E f \in {"none", "scaffold", "full"}, v \in Versions : Begin("setup", f, v, "binary")
    BY <2>1
  <2>2. CASE \E v \in Versions : Begin("update", "none", v, "obtain")
    BY <2>2
  <2>3. CASE \E f \in {"list", "plan", "auto", "run"} : Begin("migrate", f, None, "open")
    BY <2>3
  <2>4. CASE \E f \in {"keep", "purge"} : Begin("uninstall", f, None, "disable")
    BY <2>4
  <2>. QED BY <2>1, <2>2, <2>3, <2>4 DEF Begins
<1>2. /\ cmd.at = "done" /\ host' = host /\ undone' = undone \cup cmd.left /\ Spend("command")
      /\ cmd' = [Idle EXCEPT !.kind = k, !.flavor = f, !.version = v, !.at = at]
  BY <1>1 DEF Begin
<1>3. spent' \in [Kinds -> Nat]
  <2>1. spent' = [spent EXCEPT !["command"] = @ + 1]
    BY <1>2 DEF Spend
  <2>2. spent \in [Kinds -> Nat]
    BY DEF TypeOK
  <2>. QED BY <2>1, <2>2 DEF Kinds
<1>4. cmd' = [kind |-> k, flavor |-> f, version |-> v, at |-> at, errs |-> FALSE, cferrs |-> FALSE,
              failed |-> FALSE, swapped |-> FALSE, secret |-> FALSE, left |-> {}]
  BY <1>2 DEF Idle
<1>5. /\ cmd'.kind = k /\ cmd'.flavor = f /\ cmd'.version = v /\ cmd'.at = at /\ cmd'.errs = FALSE
      /\ cmd'.cferrs = FALSE /\ cmd'.failed = FALSE /\ cmd'.swapped = FALSE /\ cmd'.left = {}
  BY <1>4
<1>6. cmd' \in Cmd
  <2>1. at \in Steps
    BY TheSteps DEF AllSteps
  <2>. QED BY <1>4, <2>1 DEF Cmd
<1>7. Pend' = Pend /\ undone' = Pend /\ undone' \in SUBSET Undone
  BY <1>2, <1>5 DEF Pend, TypeOK, Cmd
<1>8. TypeOK'
  BY <1>2, <1>3, <1>6, <1>7 DEF TypeOK
<1>9. Path'
  <2>1. k \in {"setup", "update"} => at \notin Dropping \cup {"open", "mark"}
    BY <1>1 DEF Dropping
  <2>2. k = "migrate" => at \in Moving
    BY <1>1 DEF Moving
  <2>3. k = "uninstall" => at \in Dropping
    BY <1>1 DEF Dropping
  <2>. QED BY <1>1, <1>5, <2>1, <2>2, <2>3 DEF Path
<1>10. Tunnels'
  BY <1>2, <1>5, <1>7 DEF Tunnels, Prepared
<1>11. at \notin Early \cup Late \cup {"mark", "done"}
  BY DEF Early, Late
<1>12. Phases'
  BY <1>2, <1>5, <1>7, <1>11 DEF Phases, Pend
<1>13. Apart'
  <2>1. k \in {"setup", "update"} => Rank(at) = 0
    BY <1>1, Ranks
  <2>. QED BY <1>2, <1>5, <1>7, <2>1 DEF Apart
<1>14. TreesApart'
  <2>1. ASSUME NEW t \in Trees, Safe(t)' PROVE Safe(t) /\ cmd.at \notin Before(t)
    BY <1>2, <1>7, <2>1 DEF Safe, Before, Trees
  <2>. QED BY <1>2, <2>1 DEF TreesApart
<1>15. Runs'
  BY <1>2, <1>7, RunsQuiet
<1>16. Set'
  <2>1. k \in {"setup", "update"} => Rank(at) = 0
    BY <1>1, Ranks
  <2>. QED BY <1>1, <1>5, <2>1 DEF Set
<1>. QED BY <1>8, <1>9, <1>10, <1>12, <1>13, <1>14, <1>15, <1>16

LEMMA Initially == ASSUME Init PROVE IInv
<1>1. /\ host \in Hosts /\ host \in Host /\ cmd = Idle /\ undone = {} /\ spent = [k \in Kinds |-> 0]
  BY InstallAssumption DEF Init
<1>2. /\ cmd.at = "done" /\ cmd.kind = "idle" /\ cmd.flavor = "none" /\ cmd.swapped = FALSE
      /\ cmd.left = {} /\ cmd \in Cmd
  BY <1>1 DEF Idle, Cmd
<1>3. /\ ~(Names \subseteq host.users)
      /\ \A t \in Trees : host.tree[t]["pi"] = "legacy" => "pi" \in host.users /\ host.tree[t]["rpi"] = "none"
      /\ host.toml # "legacy" /\ host.config # "ours" /\ ~host.service /\ ~host.ledger
      /\ host.active \in {None, host.bin}
  BY <1>1, HostAssumption
<1>4. TypeOK
  BY <1>1, <1>2 DEF TypeOK
<1>5. Path
  BY <1>2 DEF Path
<1>6. Tunnels
  BY <1>2, <1>3 DEF Tunnels, Prepared
<1>7. Phases
  BY <1>2, <1>3 DEF Phases, Early, Late
<1>8. Apart
  BY <1>2, <1>3 DEF Apart, Names
<1>9. TreesApart
  BY <1>3 DEF TreesApart
<1>10. Runs
  BY <1>3 DEF Runs
<1>11. Set
  BY <1>2 DEF Set
<1>. QED BY <1>4, <1>5, <1>6, <1>7, <1>8, <1>9, <1>10, <1>11 DEF IInv

LEMMA Stutters == ASSUME IInv, UNCHANGED vars PROVE IInv'
<1>. USE DEF IInv, vars
<1>1. TypeOK' /\ Path' /\ Runs' /\ Set'
  BY DEF TypeOK, Path, Runs, Set, Pend
<1>2. Tunnels' /\ Phases' /\ Apart' /\ TreesApart'
  BY DEF Tunnels, Prepared, Phases, Apart, TreesApart, Safe, Pend, Legacy
<1>. QED BY <1>1, <1>2

LEMMA EveryStepKeeps == ASSUME IInv, [Next]_vars PROVE IInv'
<1>1. CASE Works
  <2>1. ASSUME Reload PROVE IInv'
    <3>1. PICK p \in {"reload", "unload"} : Do(p, [host EXCEPT !.loaded = host.unit])
      BY <2>1 DEF Reload
    <3>2. CASE p = "reload"
      BY <3>1, <3>2, ReloadKeeps
    <3>3. CASE p = "unload"
      BY <3>1, <3>3, RemovingKeeps
    <3>. QED BY <3>2, <3>3
  <2>2. CASE Obtain \/ Binary \/ Open \/ StopOld \/ RenameGroup \/ RenameUser \/ Move \/ Rewrite
             \/ BackUpOldUnit \/ Mark
    BY <2>2, ObtainKeeps, BinaryKeeps, OpenKeeps, StopOldKeeps, RenameGroupKeeps, RenameUserKeeps,
       MoveKeeps, RewriteKeeps, BackUpKeeps, MarkKeeps
  <2>3. CASE UserAdd \/ Docker \/ Login \/ EnsureDir \/ Toml \/ Unit \/ Enable \/ Report \/ Restart
    BY <2>3, UserAddKeeps, MemberKeeps, EnsureDirKeeps, TomlKeeps, UnitKeeps, EnableKeeps, ReportKeeps,
       RestartKeeps
  <2>4. CASE Scaffold \/ Token \/ Guard \/ Adopt \/ Tunnel \/ Creds \/ Config \/ Validate \/ Section
             \/ Service
    BY <2>4, ScaffoldKeeps, TokenKeeps, GuardKeeps, AdoptKeeps, TunnelKeeps, CredsKeeps, ConfigKeeps,
       ValidateKeeps, SectionKeeps, ServiceKeeps
  <2>5. CASE Disable \/ RmUnit \/ UserDel \/ Purge
    BY <2>5, RemovingKeeps, UserDelKeeps, PurgeKeeps
  <2>. QED BY <1>1, <2>1, <2>2, <2>3, <2>4, <2>5 DEF Works
<1>2. CASE Begins \/ Fail \/ GiveUp \/ Cut
  BY <1>2, BeginsKeeps, FailKeeps, GiveUpKeeps, CutKeeps
<1>3. CASE UNCHANGED vars
  BY <1>3, Stutters
<1>. QED BY <1>1, <1>2, <1>3 DEF Next

LEMMA Inductive == Spec => []IInv
<1>1. Init => IInv
  BY Initially
<1>2. IInv /\ [Next]_vars => IInv'
  BY EveryStepKeeps
<1>. QED BY <1>1, <1>2, PTL DEF Spec

-----------------------------------------------------------------------------
(* What follows.                                                            *)

\* Every variable has its type.
THEOREM InstallTyped == Spec => []TypeOK
<1>1. IInv => TypeOK
  BY DEF IInv
<1>. QED BY <1>1, Inductive, PTL

\* No user service is on without its config and its credentials, whatever failed
\* or was cut off (cloudflared_bootstrap).
THEOREM ServicesHaveTunnels == Spec => []ServiceHasTunnel
<1>1. IInv => ServiceHasTunnel
  BY DEF IInv, Tunnels, ServiceHasTunnel
<1>. QED BY <1>1, Inductive, PTL

\* The ledger says a migration was applied only if it was, unless an earlier one
\* was left in the middle (migrate.rs).
THEOREM RecordedMigrationsAreDone == Spec => []RecordedIsDone
<1>1. ASSUME IInv PROVE RecordedIsDone
  <2>1. ASSUME host.ledger, "migration" \notin undone
        PROVE  ~Legacy /\ \A t \in {"etc", "log"} : host.tree[t]["pi"] # "legacy"
    <3>1. "pi" \notin host.users /\ "migration" \notin cmd.left /\ cmd.at \notin Early \cup Late
      BY <1>1, <2>1 DEF IInv, Phases
    <3>2. ASSUME NEW t \in {"etc", "log"} PROVE host.tree[t]["pi"] # "legacy"
      <4>1. Safe(t) /\ cmd.at \notin Before(t) /\ t \in Trees
        BY <2>1, <3>1 DEF Safe, Pend, Before, Late, Trees
      <4>. QED BY <1>1, <3>1, <4>1 DEF IInv, TreesApart
    <3>. QED BY <3>1, <3>2 DEF Legacy
  <2>. QED BY <2>1 DEF RecordedIsDone
<1>. QED BY <1>1, Inductive, PTL

\* A setup or an update in which nothing failed leaves the host ready, except for
\* what an earlier command left behind without a trace ("idempotent": setup.rs).
THEOREM SetupsSettle == Spec => []Settles
<1>1. ASSUME IInv PROVE Settles
  <2>. SUFFICES ASSUME EndsWell({"setup", "update"})
                PROVE  /\ undone \cap {"migration", "opened"} = {} =>
                             Ready /\ ("swap" \notin undone => host.active = host.bin)
                       /\ cmd.flavor \in {"full", "adopted"} /\ host.config = "ours" /\ "tunnel" \notin undone
                             => host.service /\ host.section /\ host.creds
    BY DEF Settles
  <2>1. /\ cmd.at = "done" /\ cmd.kind \in {"setup", "update"} /\ ~cmd.failed /\ Rank(cmd.at) = 12
    BY Ranks DEF EndsWell
  <2>2. /\ cmd.left \subseteq {"tunnel"} /\ host.bin # None /\ "rpi" \in host.users
        /\ "docker" \in host.member /\ "login" \in host.member
        /\ host.tree["lib"]["rpi"] # "none" /\ host.owned
        /\ host.tree["log"]["rpi"] # "none" /\ host.tree["etc"]["rpi"] # "none"
        /\ host.toml # "none" /\ host.unit = "canonical" /\ host.loaded = "canonical"
        /\ host.enabled /\ (host.toml # "legacy" => host.active # None)
        /\ "tunnel" \notin cmd.left
    BY <1>1, <2>1 DEF IInv, Set
  <2>3. /\ cmd.flavor = "adopted" => host.creds
        /\ cmd.flavor \in {"full", "adopted"} => host.section /\ host.creds
        /\ cmd.flavor = "full" => host.service
    BY <1>1, <2>1 DEF IInv, Set
  <2>4. ASSUME undone \cap {"migration", "opened"} = {}
        PROVE  Ready /\ ("swap" \notin undone => host.active = host.bin)
    <3>1. "migration" \notin Pend /\ "opened" \notin Pend /\ ("swap" \notin undone => "swap" \notin Pend)
      BY <2>2, <2>4 DEF Pend
    <3>2. host.toml # "legacy" /\ "pi" \notin host.users
      BY <1>1, <2>1, <2>2, <3>1 DEF IInv, Apart
    <3>3. \A t \in Trees : host.tree[t]["pi"] # "legacy"
      BY <1>1, <2>1, <3>1, <3>2 DEF IInv, TreesApart, Safe, Before, Trees
    <3>4. host.member = {"docker", "login"} /\ host.toml \in {"default", "own"}
      BY <1>1, <2>2, <3>2 DEF IInv, TypeOK, Host
    <3>5. \A t \in Trees : Has(t, "rpi")
      BY <2>2 DEF Has, Trees
    <3>6. Ready
      BY <2>2, <3>2, <3>3, <3>4, <3>5 DEF Ready
    <3>7. "swap" \notin undone => host.active = host.bin
      BY <1>1, <2>1, <2>2, <3>1, <3>2 DEF IInv, Runs
    <3>. QED BY <3>6, <3>7
  <2>5. ASSUME cmd.flavor \in {"full", "adopted"}, host.config = "ours", "tunnel" \notin undone
        PROVE  host.service /\ host.section /\ host.creds
    BY <1>1, <2>1, <2>2, <2>3, <2>5 DEF IInv, Tunnels, Pend
  <2>. QED BY <2>4, <2>5
<1>. QED BY <1>1, Inductive, PTL

-----------------------------------------------------------------------------
(* What was the operator's stays.                                           *)

Spares == UNCHANGED <<host.tree, host.toml, host.config, host.service, host.userunit>>

\* Most steps touch nothing of the operator's.
LEMMA SparesStays == ASSUME Spares PROVE KeepsState /\ KeepsTunnel
BY DEF Spares, KeepsState, KeepsTunnel

\* A tree is made only where there is none.
LEMMA MadeStays ==
    ASSUME \A t \in Trees, n \in Names : host'.tree[t][n] = host.tree[t][n] \/ host.tree[t][n] = "none",
           host.toml \in {"legacy", "own"} => host'.toml \in {"legacy", "own"}
    PROVE  KeepsState
BY DEF KeepsState

LEMMA MovedStays ==
    ASSUME TypeOK, NEW t \in Trees, host' = Moved(t)
    PROVE  KeepsState /\ KeepsTunnel
<1>1. CASE Has(t, "pi") /\ ~Has(t, "rpi")
  <2>. DEFINE tr == [host.tree EXCEPT ![t]["rpi"] = host.tree[t]["pi"], ![t]["pi"] = "none"]
              to == IF t = "etc" THEN "legacy" ELSE host.toml
              ow == IF t = "lib" THEN TRUE ELSE host.owned
  <2>1. host' = [host EXCEPT !.tree = tr, !.toml = to, !.owned = ow]
    BY <1>1 DEF Moved, TypeOK, Host
  <2>2. host.tree \in [Trees -> [Names -> {"none", "fresh", "legacy"}]]
    BY DEF TypeOK, Host
  <2>3. \A u \in Trees \ {t} : tr[u] = host.tree[u]
    BY <2>2
  <2>4. tr[t]["rpi"] = host.tree[t]["pi"]
    <3>. DEFINE s == [host.tree EXCEPT ![t]["rpi"] = host.tree[t]["pi"]]
    <3>1. s[t]["rpi"] = host.tree[t]["pi"] /\ s \in [Trees -> [Names -> {"none", "fresh", "legacy"}]]
      BY <2>2 DEF Names
    <3>2. tr = [s EXCEPT ![t]["pi"] = "none"]
      OBVIOUS
    <3>. HIDE DEF s, tr
    <3>. QED BY <3>1, <3>2 DEF Names
  <2>. HIDE DEF tr, to, ow
  <2>5. /\ host'.tree = tr /\ host'.toml = to
        /\ UNCHANGED <<host.config, host.service, host.userunit>>
    BY <2>1 DEF TypeOK, Host
  <2>6. ASSUME NEW u \in Trees
        PROVE  {host.tree[u][n] : n \in Names} \ {"none"} \subseteq {host'.tree[u][n] : n \in Names}
    <3>1. CASE u = t
      <4>1. host.tree[t]["rpi"] = "none"
        BY <1>1 DEF Has
      <4>. QED BY <2>4, <2>5, <3>1, <4>1 DEF Names
    <3>2. CASE u # t
      <4>1. host'.tree[u] = host.tree[u]
        BY <2>3, <2>5, <3>2
      <4>. QED BY <4>1
    <3>. QED BY <3>1, <3>2
  <2>7. host.toml \in {"legacy", "own"} => host'.toml \in {"legacy", "own"}
    BY <2>5 DEF to
  <2>. QED BY <2>5, <2>6, <2>7 DEF KeepsState, KeepsTunnel
<1>2. CASE ~(Has(t, "pi") /\ ~Has(t, "rpi"))
  <2>1. host' = host
    BY <1>2 DEF Moved
  <2>. QED BY <2>1, SparesStays DEF Spares
<1>. QED BY <1>1, <1>2

LEMMA WorksStay == ASSUME IInv, Works PROVE (KeepsState /\ KeepsTunnel) \/ cmd.flavor = "purge"
<1>. USE DEF IInv
<1>1. CASE Obtain
  BY <1>1, SparesStays DEF Obtain, Do, Spares, TypeOK, Host
<1>2. CASE Binary
  BY <1>2, SparesStays DEF Binary, Spares, TypeOK, Host
<1>3. CASE StopOld
  BY <1>3, SparesStays DEF StopOld, Do, Spares, TypeOK, Host
<1>4. CASE RenameGroup
  BY <1>4, SparesStays DEF RenameGroup, Do, Spares, TypeOK, Host
<1>5. CASE RenameUser
  BY <1>5, SparesStays DEF RenameUser, Do, Spares, TypeOK, Host
<1>6. CASE BackUpOldUnit
  BY <1>6, SparesStays DEF BackUpOldUnit, Do, Spares, TypeOK, Host
<1>7. CASE Mark
  BY <1>7, SparesStays DEF Mark, Do, Spares, TypeOK, Host
<1>8. CASE UserAdd
  BY <1>8, SparesStays DEF UserAdd, Do, Spares, TypeOK, Host
<1>9. CASE Docker
  BY <1>9, SparesStays DEF Docker, Do, Spares, TypeOK, Host
<1>10. CASE Login
  BY <1>10, SparesStays DEF Login, Do, Spares, TypeOK, Host
<1>11. CASE Unit
  BY <1>11, SparesStays DEF Unit, Do, Spares, TypeOK, Host
<1>12. CASE Reload
  BY <1>12, SparesStays DEF Reload, Do, Spares, TypeOK, Host
<1>13. CASE Enable
  BY <1>13, SparesStays DEF Enable, Do, Spares, TypeOK, Host
<1>14. CASE Report
  BY <1>14, SparesStays DEF Report, Do, Spares, TypeOK, Host
<1>15. CASE Restart
  BY <1>15, SparesStays DEF Restart, Do, Spares, TypeOK, Host
<1>16. CASE Guard
  BY <1>16, SparesStays DEF Guard, Do, Spares, TypeOK, Host
<1>17. CASE Adopt
  BY <1>17, SparesStays DEF Adopt, Spares
<1>18. CASE Tunnel
  BY <1>18, SparesStays DEF Tunnel, Spares, TypeOK, Host
<1>19. CASE Validate
  BY <1>19, SparesStays DEF Validate, Do, Spares, TypeOK, Host
<1>20. CASE Disable
  BY <1>20, SparesStays DEF Disable, Do, Spares, TypeOK, Host
<1>21. CASE RmUnit
  BY <1>21, SparesStays DEF RmUnit, Do, Spares, TypeOK, Host
<1>22. CASE UserDel
  BY <1>22, SparesStays DEF UserDel, Do, Spares, TypeOK, Host
<1>23. CASE Open
  <2>. DEFINE n == IF host.toml = "legacy" THEN "pi" ELSE "rpi"
  <2>1. CASE Has("lib", n)
    BY <1>23, <2>1, SparesStays DEF Open, Spares
  <2>2. CASE ~Has("lib", n)
    <3>. DEFINE tr == [host.tree EXCEPT !["lib"][n] = "fresh"]
    <3>1. host' = [host EXCEPT !.tree["lib"][n] = "fresh", !.owned = FALSE]
      BY <1>23, <2>2 DEF Open
    <3>2. host' = [host EXCEPT !.tree = tr, !.owned = FALSE]
      BY <3>1 DEF TypeOK, Host
    <3>3. n \in Names /\ host.tree \in [Trees -> [Names -> {"none", "fresh", "legacy"}]]
      BY DEF TypeOK, Names, Host
    <3>4. host.tree["lib"][n] = "none"
      BY <2>2 DEF Has
    <3>5. \A t \in Trees, m \in Names : tr[t][m] = host.tree[t][m] \/ host.tree[t][m] = "none"
      <4>. HIDE DEF n
      <4>. QED BY <3>3, <3>4
    <3>. HIDE DEF tr
    <3>6. host'.tree = tr /\ UNCHANGED <<host.toml, host.config, host.service, host.userunit>>
      BY <3>2 DEF TypeOK, Host
    <3>. QED BY <3>5, <3>6, MadeStays DEF KeepsTunnel
  <2>. QED BY <2>1, <2>2
<1>24. CASE Move
  <2>1. \E t \in Trees : host' = Moved(t)
    BY <1>24 DEF Move, Do, Trees
  <2>. QED BY <2>1, MovedStays
<1>25. CASE Rewrite \/ Toml \/ Section
  <2>1. /\ UNCHANGED <<host.tree, host.config, host.service, host.userunit>>
        /\ host'.toml = host.toml \/ (host.toml = "legacy" /\ host'.toml = "own") \/ host.toml = "none"
    <3>1. CASE Rewrite
      BY <3>1 DEF Rewrite, Do, TypeOK, Host
    <3>2. CASE Toml
      BY <3>2 DEF Toml, Do, TypeOK, Host
    <3>3. CASE Section
      BY <3>3 DEF Section, Do, TypeOK, Host
    <3>. QED BY <1>25, <3>1, <3>2, <3>3
  <2>. QED BY <2>1, MadeStays DEF KeepsTunnel
<1>26. CASE EnsureDir \/ Token
  <2>1. PICK t \in Trees : /\ host'.tree = Dir(t).tree
                          /\ UNCHANGED <<host.toml, host.config, host.service, host.userunit>>
    <3>1. CASE EnsureDir
      <4>1. PICK t \in Trees : host' = Dir(t)
        BY <3>1 DEF EnsureDir, Do, Trees
      <4>. QED BY <4>1, DirHost DEF Fields
    <3>2. CASE Token
      <4>. DEFINE d == Dir("lib")  x == Has("lib", "rpi") /\ host.owned
      <4>1. host' = [d EXCEPT !.owned = x] /\ "lib" \in Trees
        BY <3>2 DEF Token, Do, Trees
      <4>2. d \in Host /\ \A f \in Fields \ {"tree", "owned"} : d[f] = host[f]
        BY <4>1, DirHost
      <4>. HIDE DEF x
      <4>3. d.toml = host.toml /\ d.config = host.config /\ d.service = host.service /\ d.userunit = host.userunit
        BY <4>2 DEF Fields
      <4>. HIDE DEF d
      <4>4. host'.tree = d.tree /\ UNCHANGED <<host.toml, host.config, host.service, host.userunit>>
        BY <4>1, <4>2, <4>3 DEF Host
      <4>. QED BY <4>1, <4>4 DEF d
    <3>. QED BY <1>26, <3>1, <3>2
  <2>2. \A u \in Trees, m \in Names : Dir(t).tree[u][m] = host.tree[u][m] \/ host.tree[u][m] = "none"
    BY DirHost DEF Names
  <2>. QED BY <2>1, <2>2, MadeStays DEF KeepsTunnel
<1>27. CASE Scaffold
  <2>1. /\ UNCHANGED <<host.tree, host.toml, host.config, host.service>>
        /\ host'.userunit = host.userunit \/ host.userunit = "none"
    BY <1>27 DEF Scaffold, Do, TypeOK, Host
  <2>. QED BY <2>1, MadeStays DEF KeepsTunnel
<1>28. CASE Creds
  BY <1>28, SparesStays DEF Creds, Put, Spares, TypeOK, Host
<1>29. CASE Config
  <2>1. UNCHANGED <<host.tree, host.toml, host.userunit>> /\ host.config = "none" /\ ~host.foreign
    BY <1>29 DEF Config, Put, TypeOK, Host, Tunnels
  <2>. QED BY <2>1, MadeStays DEF KeepsTunnel
<1>30. CASE Service
  <2>1. UNCHANGED <<host.tree, host.toml, host.config>>
    BY <1>30 DEF Service, TypeOK, Host
  <2>2. host.config = "ours" /\ ~host.foreign
    BY <1>30 DEF Service, Tunnels, Prepared
  <2>. QED BY <2>1, <2>2, MadeStays DEF KeepsTunnel
<1>31. CASE Purge
  BY <1>31 DEF Purge, Do, Path
<1>. QED
  BY <1>1, <1>2, <1>3, <1>4, <1>5, <1>6, <1>7, <1>8, <1>9, <1>10, <1>11, <1>12, <1>13, <1>14, <1>15, <1>16,
     <1>17, <1>18, <1>19, <1>20, <1>21, <1>22, <1>23, <1>24, <1>25, <1>26, <1>27, <1>28, <1>29, <1>30, <1>31
  DEF Works

\* What the operator had is there until it is purged: a step takes no tree and
\* no setting, nor a tunnel set up by hand.
THEOREM OperatorsThingsStay == Spec => OperatorsStays
<1>1. ASSUME IInv, [Next]_vars PROVE [(KeepsState /\ KeepsTunnel) \/ cmd.flavor = "purge"]_host
  <2>1. CASE Works
    BY <1>1, <2>1, WorksStay
  <2>2. CASE Begins \/ Fail \/ GiveUp \/ Cut
    BY <2>2 DEF Begins, Begin, Fail, GiveUp, Cut
  <2>3. CASE UNCHANGED vars
    BY <2>3 DEF vars
  <2>. QED BY <1>1, <2>1, <2>2, <2>3 DEF Next
<1>. QED BY <1>1, Inductive, PTL DEF Spec, OperatorsStays
=============================================================================
