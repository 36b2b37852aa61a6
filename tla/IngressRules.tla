--------------------------- MODULE IngressRules ---------------------------
(***************************************************************************)
(* The edits of the rule list in config.yml: upsert_ingress_rule and       *)
(* remove_ingress_rule (infrastructure/cloudflared.rs).  cloudflared takes *)
(* the first rule that matches, a rule without a hostname matches all.     *)
(* The documents are those cloudflared accepts whose hand-written rules    *)
(* name one host each: no hostname twice, nothing after the catch-all.     *)
(***************************************************************************)
EXTENDS Naturals, SequencesExt

CONSTANTS Hosts,     \* hostnames of projects
          Guests,    \* hostnames of hand-written rules
          NoHost,      \* a rule that has no hostname
          Ports,     \* services of projects
          Other,     \* any hand-written service
          NotFound   \* http_status:404

VARIABLE rules  \* the ingress list of config.yml

WellFormed(doc) ==
    /\ \A i, j \in DOMAIN doc : doc[i].host = doc[j].host => i = j
    /\ doc # <<>> => Last(doc).host = NoHost

Of(h, to) == [host |-> h, to |-> to]

\* Position of the rule of h, 0 if it has none.
Find(doc, h) == SelectInSeq(doc, LAMBDA r : r.host = h)

\* Slip: the new rule goes to the end, behind the catch-all.
AppendRule(doc, h, to) ==
    IF Find(doc, h) # 0 THEN ReplaceAt(doc, Find(doc, h), Of(h, to))
    ELSE Append(doc, Of(h, to))

UpsertRule(doc, h, to) ==
    IF Find(doc, h) # 0 THEN ReplaceAt(doc, Find(doc, h), Of(h, to))
    ELSE IF Find(doc, NoHost) # 0 THEN InsertAt(doc, Find(doc, NoHost), Of(h, to))
    ELSE doc \o <<Of(h, to), Of(NoHost, NotFound)>>

RemoveRule(doc, h) == RemoveFirstMatch(doc, LAMBDA r : r.host = h)
-----------------------------------------------------------------------------
(* Properties, of every edit of a document the agent can come to.          *)

\* Where cloudflared sends a request for h.
Leads(doc, h) ==
    LET i == SelectInSeq(doc, LAMBDA r : r.host \in {h, NoHost})
    IN  IF i = 0 THEN NotFound ELSE doc[i].to

ByHand(doc) == {r \in {doc[i] : i \in DOMAIN doc} : r.host \notin Hosts}

Before(doc, r, s) == \E i, j \in DOMAIN doc : i <= j /\ doc[i] = r /\ doc[j] = s

\* The hand-written rules are the same and in the same order.
SameByHand(new, old) ==
    /\ ByHand(new) = ByHand(old)
    /\ \A r, s \in ByHand(old) : Before(new, r, s) <=> Before(old, r, s)

\* An upsert routes its hostname and nothing else changes its way: the rule
\* comes before the catch-all, which stays last, and every hand-written rule
\* stays as it was and in its order.
UpsertRoutesOne ==
    \A h \in Hosts, to \in Ports :
        LET new == UpsertRule(rules, h, to) IN
        /\ WellFormed(new)
        /\ Leads(new, h) = to
        /\ \A g \in (Hosts \cup Guests) \ {h} : Leads(new, g) = Leads(rules, g)
        /\ rules # <<>> => SameByHand(new, rules)

\* A removal leaves its hostname to the catch-all, also when an upsert comes
\* before it: no rule is left behind, and the others go where they went.
RemoveUndoesOne ==
    \A h \in Hosts :
        LET new == RemoveRule(rules, h) IN
        /\ WellFormed(new)
        /\ Find(new, h) = 0
        /\ Leads(new, h) = Leads(new, NoHost)
        /\ \A g \in (Hosts \cup Guests) \ {h} : Leads(new, g) = Leads(rules, g)
        /\ \A to \in Ports : rules # <<>> => RemoveRule(UpsertRule(rules, h, to), h) = new
        /\ SameByHand(new, rules)

\* No edit touches but the way of its hostname.
RoutesKept == UpsertRoutesOne /\ RemoveUndoesOne
=============================================================================
