------------------------------ MODULE MCClient ------------------------------
(* The instance of Client for TLC. *)
EXTENDS Client

CONSTANTS d1, d2

MCDeps == {d1, d2}

Rel(v) == [v |-> v, plain |-> TRUE]

\* Before source_check, before the handshake, without groups, the newest, and
\* one that was built by hand.
MCReleases == {Rel(9), Rel(18), Rel(26), Rel(27), [v |-> 18, plain |-> FALSE]}

Cmd(kind, with) == [kind |-> kind, route |-> None, with |-> with]

MCCommands ==
    {Cmd("deploy", w) : w \in {{}, {"env"}, {"env", "groups"}, {"groups", "ssh"},
                               {"ssh", "tty"}, {"ssh", "tty", "github"}, {"ssh", "github"},
                               {"ssh", "tty", "github", "no_gh"}}}
    \cup {Cmd("push", w) : w \in {{}, {"env", "apply"}, {"modes"}, {"force", "modes"}}}
    \cup {Cmd("group", w) : w \in {{}, {"apply"}, {"modes"}, {"force", "apply"}}}
    \cup {Cmd("cancel", {}), Cmd("run", {}), Cmd("run", {"env"})}
    \cup {[kind |-> "call", route |-> f, with |-> {}] : f \in {None, "environments", "secret_groups"}}

\* A stop, a broken request and a push of others; two stops; two broken requests.
Way(s, b, p) == [stop |-> s, broken |-> b, push |-> p]
MCKinds == {"stop", "broken", "push"}
MCWays  == {Way(1, 1, 1), Way(2, 0, 1), Way(0, 2, 1)}
=============================================================================
