--------------------------- MODULE MCAddressing ---------------------------
(* The instance of Addressing for TLC: project "a" and its environment "b". *)
EXTENDS Addressing

CONSTANT g1

MCProject  == <<"a">>
MCReserved == {<<"m">>}
MCGuests   == {g1}
MCRanges   == {<<1, 2>>, <<2, 3>>}

Doc(branch, host, other) == [branch |-> branch, host |-> host, other |-> other]

\* Branches and hostnames that are computed or not, a reference that is
\* escaped, a slug that is used or not.
MCBaseDocs == {
    Doc(Absent,             <<"m">>,          <<"b">>),
    Doc(<<"${git.branch}">>, <<"m">>,         <<"$${A}">>),
    Doc(<<"b", "${A}">>,    Absent,           <<"${A}">>),
    Doc(<<"$${A}">>,        <<"1", "${A}">>,  <<"m">>)}

MCOverDocs == {
    Doc(Absent,              <<"b">>,                 Absent),
    Doc(Absent,              <<"${env.slug}">>,       <<"$${A}", "${A}">>),
    Doc(<<"${git.branch}">>, <<>>,                    <<"${env.slug}">>),
    Doc(<<"${A}">>,          <<"${env.slug}", "b">>,  Absent),
    Doc(<<"m", "_", "1">>,   <<"${A}">>,              <<"${env.name}", "${env.slug}">>)}

MCEnvArgs == {Absent, <<"b">>, <<"b", "-", "-", "a">>}

NoVars  == [v \in {} |-> <<>>]
Var(text) == [v \in {"${A}"} |-> text]

MCUsers == {NoVars, Var(<<>>), Var(<<"m">>), Var(<<"A", "_", "${A}">>)}

\* One that is cut in the middle of a separator, one without a slug.
MCBranches == {<<"A", "_", "_", "1">>, <<"a", "b", "_", "1">>, <<"_", "b", "-">>, <<"_">>}

Cmd(base, over, env, user, git) ==
    [base |-> base, over |-> over, env |-> env, user |-> user, git |-> git]

\* A project with one hostname or another, its environment with and without
\* a slug, with its hostname or its own, under a name with two dashes.
MCDeployed ==
    LET project(host)    == Doc(Absent, host, <<"b">>)
        env(host, other) == Doc(<<"${git.branch}">>, host, other)
    IN  {Cmd(project(h), NoFile, Absent, NoVars, <<"a">>) : h \in {<<"b">>, <<"m">>}}
        \cup {Cmd(project(<<"m">>), o, <<"b">>, NoVars, <<"a">>) :
                  o \in {env(<<"b">>, Absent), env(<<>>, <<"${env.slug}">>)}}
        \cup {Cmd(project(<<"m">>), env(<<"b">>, Absent), <<"b", "-", "-", "a">>, NoVars, <<"a">>)}

Env(base, env, slug) == [base |-> base, env |-> env, slug |-> slug]
Of(meta, host) == [key |-> Key(meta.base, meta.env, meta.slug), meta |-> meta, host |-> host]

\* The same key in two ways, a key that is not its own, the base's hostname.
MCStrangers == {
    Of(Env(<<"a">>, <<"b">>, <<"a">>), <<"m">>),
    Of(Env(<<"a">>, <<"b", "-", "-", "a">>, Absent), <<"b">>),
    Of(Env(<<"a", "-">>, <<"b">>, Absent), Absent),
    Of(Env(<<"a">>, <<"-", "b">>, Absent), Absent),
    [key |-> <<"a">>, meta |-> Env(<<"a">>, <<"b">>, Absent), host |-> Absent],
    [key |-> <<"a", "-", "-", "b">>, meta |-> Absent, host |-> Absent]}

MCDocs == {doc \in SeqOf([host : {<<"b">>, <<"m">>, g1, NoHost}, to : {Other}], 2) :
               List!WellFormed(doc)}

OldRow(key, port) == [k \in {key} |-> [meta |-> Absent, host |-> Absent, port |-> port]]

\* A project that has the key of an environment.
MCLegacy == {[k \in {} |-> Absent], OldRow(<<"a", "-", "-", "b", "-", "-", "a">>, 3),
             OldRow(<<"b">>, 1)}
=============================================================================
