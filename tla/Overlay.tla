------------------------------ MODULE Overlay ------------------------------
(***************************************************************************)
(* How the CLI turns rpi.toml, an overlay rpi.<env>.toml and --vars into   *)
(* the configuration it deploys (cli/overlay.rs, cli/vars.rs), and the key *)
(* of an environment into the parts it is made of.                         *)
(*                                                                         *)
(* A text is a sequence of characters, one of each class the code tells    *)
(* apart, and of references, each a unit of its own.  A document has three *)
(* string fields: the branch, the hostname, and one that stands for the    *)
(* others.  Of the other fields resolution only checks the form: a         *)
(* document that fails is refused, and is none of the ones here.           *)
(***************************************************************************)
EXTENDS Naturals, SequencesExt

CONSTANTS Project,   \* [project].name
          Reserved,  \* names of subcommands, no environment's
          MaxSlug,   \* MAX_SLUG_LEN
          Absent,    \* a field, a slug, an environment that is not there
          Refused    \* the command ends with an error

Small   == {"a", "b", "m"}
Digits  == {"1"}
ToLower == [c \in {"A"} |-> "a"]  \* the capitals, as to_ascii_lowercase maps them
Chars   == Small \cup Digits \cup DOMAIN ToLower \cup {"_", "-"}

\* ${A} is a --vars variable, the others are inputs; $${A} is an escape.
Variable   == "${A}"
Inputs     == {"${git.branch}", "${env.name}", "${env.slug}"}
References == {Variable} \cup Inputs
Escape     == "$${A}"

Text  == Seq(Chars \cup References \cup {Escape})
Value == Seq(Chars \cup {Variable})  \* of a variable or an input

Fields    == {"branch", "host", "other"}
Documents == [Fields -> Text \cup {Absent}]

Default == <<"m">>             \* the branch of a document that has none
-----------------------------------------------------------------------------
(* Names, slugs and keys.                                                  *)

TwoDashes(text) == \E i \in 1..(Len(text) - 1) : text[i] = "-" /\ text[i + 1] = "-"

ASSUME OverlayAssumption ==
    /\ Project \in Text /\ ~TwoDashes(Project)
    /\ MaxSlug \in Nat
    /\ Absent \notin Text

\* A dash, but none at the start and none after another.
Dashed(slug) == IF slug # <<>> /\ Last(slug) # "-" THEN Append(slug, "-") ELSE slug

\* A reference that is in a value is slugged by its characters.
Slugged(slug, char) ==
    LET c == IF char \in DOMAIN ToLower THEN ToLower[char] ELSE char
    IN  IF c \in Small \cup Digits THEN Append(slug, c)
        ELSE IF c = Variable THEN Dashed(Append(Dashed(slug), ToLower["A"]))
        ELSE Dashed(slug)

SlugOf(branch) ==
    LET slug[n \in 0..Len(branch)] ==
            IF n = 0 THEN <<>> ELSE Slugged(slug[n - 1], branch[n])
    IN  slug[Len(branch)]

Cut(slug) == SubSeq(slug, 1, IF Len(slug) < MaxSlug THEN Len(slug) ELSE MaxSlug)

\* Slip: the dash at the end is taken off before the slug is cut.
CutLast(branch) ==
    LET slug == SlugOf(branch)
    IN  Cut(IF slug # <<>> /\ Last(slug) = "-" THEN Front(slug) ELSE slug)

\* Empty if there is nothing to make a slug of.
Slug(branch) ==
    LET slug == Cut(SlugOf(branch))
    IN  IF slug # <<>> /\ Last(slug) = "-" THEN Front(slug) ELSE slug

Key(base, env, slug) ==
    base \o <<"-", "-">> \o env \o (IF slug = Absent THEN <<>> ELSE <<"-", "-">> \o slug)

ValidEnvName(env) ==
    /\ env # <<>> /\ env[1] \in Small
    /\ \A i \in DOMAIN env : env[i] \in Small \cup Digits \cup {"-"}
    /\ env \notin Reserved

\* A hostname of one label.
ValidHost(host) ==
    /\ host # <<>>
    /\ \A i \in DOMAIN host : host[i] \in Small \cup Digits \cup DOMAIN ToLower \cup {"-"}
    /\ host[1] # "-" /\ Last(host) # "-"
-----------------------------------------------------------------------------
(* Resolution.                                                             *)

\* References of a field, of a document.
RefsIn(text) == IF text = Absent THEN {}
                ELSE {text[i] : i \in DOMAIN text} \cap References
Refs(doc)    == UNION {RefsIn(doc[f]) : f \in Fields}

\* In one pass over the text: what is put in is not looked at again.
Substitute(text, set) == FlattenSeq([i \in DOMAIN text |->
    IF text[i] \in References THEN set[text[i]]
    ELSE IF text[i] = Escape THEN <<Variable>>
    ELSE <<text[i]>>])

\* Slip: both passes take every field they can.
SubstituteAll(doc, set, fields) == [f \in Fields |->
    IF doc[f] # Absent /\ RefsIn(doc[f]) \subseteq DOMAIN set
    THEN Substitute(doc[f], set) ELSE doc[f]]

SubstituteWhere(doc, set, fields) == [f \in Fields |->
    IF f \in fields /\ doc[f] # Absent THEN Substitute(doc[f], set) ELSE doc[f]]

Known(doc, set, fields) == \A f \in fields : RefsIn(doc[f]) \subseteq DOMAIN set

\* A field of the overlay replaces that of the base; "" unsets a hostname.
ApplyOverlay(base, over) == [f \in Fields |->
    IF over[f] = Absent THEN base[f]
    ELSE IF f = "host" /\ over[f] = <<>> THEN Absent
    ELSE over[f]]

EffectiveBranch(base, over) ==
    IF over.branch # Absent THEN over.branch
    ELSE IF base.branch # Absent THEN base.branch
    ELSE Default

\* Variables of --vars, and of the inputs those that are referenced.
VarSet(user, git, env, refs) ==
    [v \in DOMAIN user \cup ({"${git.branch}"} \cap refs)
           \cup (IF env = Absent THEN {} ELSE {"${env.name}"}) |->
        CASE v = "${git.branch}" -> git
          [] v = "${env.name}"   -> env
          [] OTHER               -> user[v]]

\* Of a command: the base file, the overlay (all Absent if there is none), the
\* environment, the variables and the branch checked out.
Resolve(base, over, env, user, git) ==
    LET refs  == Refs(base) \cup Refs(over)
        wants == env # Absent /\ "${env.slug}" \in refs
        set   == VarSet(user, git, env, refs)
        rest  == Fields \ {"branch"}
        base1 == SubstituteWhere(base, set, {"branch"})
        over1 == SubstituteWhere(over, set, {"branch"})
        slug  == IF wants THEN Slug(EffectiveBranch(base1, over1)) ELSE Absent
        all   == IF wants THEN [v \in DOMAIN set \cup {"${env.slug}"} |->
                                   IF v = "${env.slug}" THEN slug ELSE set[v]]
                          ELSE set
        base2 == SubstituteWhere(base1, all, rest)
        over2 == SubstituteWhere(over1, all, rest)
        done  == ApplyOverlay(base2, over2)
    IN  IF /\ env # Absent => ValidEnvName(env)
           /\ DOMAIN user \subseteq refs
           /\ Known(base, set, {"branch"}) /\ Known(over, set, {"branch"})
           /\ slug # <<>>
           /\ Known(base, all, rest) /\ Known(over, all, rest)
           /\ base2.host # Absent => ValidHost(base2.host)
           /\ done.host # Absent => ValidHost(done.host)
           /\ env # Absent /\ base2.host # Absent => done.host # base2.host
        THEN [key    |-> IF env = Absent THEN Project ELSE Key(Project, env, slug),
              env    |-> env,
              slug   |-> slug,
              branch |-> IF done.branch = Absent THEN Default ELSE done.branch,
              host   |-> done.host,
              other  |-> done.other]
        ELSE Refused
=============================================================================
