---------------------------- MODULE RouteTable ----------------------------
(***************************************************************************)
(* What the ingress promises its callers (docs/architecture/flows/         *)
(* ingress.md, steps 3 to 7): a table of hostnames where each operation    *)
(* changes its own line at one instant or not at all, and an operation     *)
(* that answers success tells what its line says.                          *)
(***************************************************************************)
CONSTANTS Hosts,    \* hostnames the agent routes
          Ports,    \* host ports of projects
          Off,      \* not routed
          Unknown   \* an operation on the line is under way, or has failed

VARIABLES routes,   \* where each hostname leads
          answer    \* what the last operation on each hostname answered

vars == <<routes, answer>>

Init == /\ routes \in [Hosts -> Ports \cup {Off}]
        /\ answer = [h \in Hosts |-> Unknown]

Ask(h) == /\ answer' = [answer EXCEPT ![h] = Unknown]
          /\ UNCHANGED routes

\* A removal takes the line away first and may still fail after that.
Withdraw(h) == /\ answer[h] = Unknown
               /\ routes' = [routes EXCEPT ![h] = Off]
               /\ UNCHANGED answer

Answer(h) == /\ answer[h] = Unknown
             /\ answer' = [answer EXCEPT ![h] = routes[h]]
             /\ UNCHANGED routes

\* Changed and answered in one step.
Settle(h) == /\ answer[h] = Unknown
             /\ \E g \in Ports \cup {Off} :
                    /\ routes' = [routes EXCEPT ![h] = g]
                    /\ answer' = [answer EXCEPT ![h] = g]

Next == \E h \in Hosts : Ask(h) \/ Withdraw(h) \/ Answer(h) \/ Settle(h)

Spec == Init /\ [][Next]_vars
=============================================================================
