----------------------------- MODULE EventsHub -----------------------------
(***************************************************************************)
(* The event stream of a deployment, from the agent's hub                  *)
(* (infrastructure/events.rs) over the log handler (bin/agent/http.rs) to  *)
(* the pipeline `rpi deploy` draws (bin/cli/api.rs, bin/output/            *)
(* pipeline.rs).  The hub keeps the last events for who comes later and a  *)
(* ring for each live reader; a reader that falls behind the ring skips.   *)
(* Viewers that come when the stream is closed are in Scheduler.           *)
(***************************************************************************)
EXTENDS Integers, SequencesExt, FiniteSets

CONSTANTS Deploys,  \* deployments
          Viewers,  \* readers of a log stream
          Stages,   \* wire names of the stages
          Results,  \* final statuses a run can have
          Backlog,  \* events kept for a reader that comes later (1000)
          Ring,     \* events a reader may be behind (1024)
          None      \* nothing

ASSUME HubAssumption == /\ Backlog \in Nat /\ Backlog >= 2
                        /\ Ring \in Nat /\ Ring >= 3
                        /\ None \notin Deploys \cup Stages \cup Results \cup {"ok", "failed", "skipped"}

VARIABLES told,  \* of each deployment: all it has published, in order
          open,  \* deployments with a stream in the hub
          view   \* what each viewer has read and shows

hub == <<told, open, view>>

Marks  == {"ok", "failed", "skipped"} \X Stages
Events == Marks \cup ({"started"} \X Stages) \cup ({"finished"} \X Results)
          \cup {<<"line", None>>}

\* What a viewer follows, where its story begins, its snapshot ends and its live
\* events begin, what it reads next, whether it fell behind; the open pane, how
\* often it printed each mark, the result.
View == [of : Deploys \cup {None}, at : {"away", "following", "done", "cut"},
         first : Nat, upto : Nat, live : Nat, next : Nat, lagged : BOOLEAN,
         pane : Stages \cup {None}, shown : [Marks -> Nat], result : Results \cup {None}]

Away == [of |-> None, at |-> "away", first |-> 0, upto |-> 0, live |-> 0, next |-> 0, lagged |-> FALSE,
         pane |-> None, shown |-> [e \in Marks |-> 0], result |-> None]

HubTypeOK == /\ told \in [Deploys -> Seq(Events)]
             /\ open \in SUBSET Deploys
             /\ view \in [Viewers -> View]

HubInit == /\ told = [d \in Deploys |-> <<>>]
           /\ open = {}
           /\ view = [v \in Viewers |-> Away]

Following(v) == view[v].at = "following"

\* Of n events the hub keeps the last ones.
Kept(n) == [first |-> IF n - Backlog + 1 < 1 THEN 1 ELSE n - Backlog + 1, last |-> n]

\* subscribe: the backlog and a live receiver, under one lock.
Subscribe(v, d) ==
    /\ view[v].at = "away" /\ d \in open
    /\ LET kept == Kept(Len(told[d]))
           live == Len(told[d]) + 1
       IN  view' = [view EXCEPT ![v] = [Away EXCEPT !.of = d, !.at = "following",
                      !.first = kept.first, !.upto = kept.last, !.live = live,
                      !.next = IF kept.first > kept.last THEN live ELSE kept.first]]
    /\ UNCHANGED <<told, open>>

\* Pipeline::stage and the stamp at the end: a start opens a pane, in place of
\* one left open; a result closes it and is printed.
Show(w, e) ==
    LET s == e[2] IN
    CASE e[1] = "started"  -> [w EXCEPT !.pane = s]
      [] e \in Marks       -> [w EXCEPT !.pane = None, !.shown[e] = @ + 1]
      [] e[1] = "finished" -> [w EXCEPT !.pane = None, !.at = "done", !.result = s]
      [] OTHER             -> w

ShowNext(v, next) ==
    view' = [view EXCEPT ![v] = Show([@ EXCEPT !.next = next], told[view[v].of][view[v].next])]

Live(v) == Following(v) /\ view[v].next >= view[v].live

\* The backlog first, however long that takes,
Replay(v) ==
    /\ Following(v) /\ ~Live(v)
    /\ ShowNext(v, IF view[v].next = view[v].upto THEN view[v].live ELSE view[v].next + 1)
    /\ UNCHANGED <<told, open>>

Oldest(v) == Len(told[view[v].of]) - Ring + 1

\* then what is live, as long as the ring still has it:
Receive(v) ==
    /\ Live(v)
    /\ view[v].next >= Oldest(v) /\ view[v].next <= Len(told[view[v].of])
    /\ ShowNext(v, view[v].next + 1)
    /\ UNCHANGED <<told, open>>

\* Slip: who is too late goes on with the newest.
Resubscribe(v) ==
    /\ Live(v) /\ view[v].next < Oldest(v)
    /\ view' = [view EXCEPT ![v].next = Len(told[view[v].of]), ![v].lagged = TRUE]
    /\ UNCHANGED <<told, open>>

\* who is too late goes on with the oldest that is left (RecvError::Lagged).
Lag(v) ==
    /\ Live(v) /\ view[v].next < Oldest(v)
    /\ view' = [view EXCEPT ![v].next = Oldest(v), ![v].lagged = TRUE]
    /\ UNCHANGED <<told, open>>

Read(v) == Replay(v) \/ Receive(v) \/ Lag(v)

\* The agent's end: every connection breaks ("log stream ended without a final
\* status").
Cuts == [v \in Viewers |-> IF Following(v) THEN [view[v] EXCEPT !.at = "cut"] ELSE view[v]]

----------------------------------------------------------------------------
(* Properties. *)

\* How often an event is in a part of what d has told.
Times(d, e, from, to) == Cardinality({i \in from..to : told[d][i] = e})

\* A viewer that never fell behind has printed each mark since its backlog
\* begins as often as it was told, and no other: where the backlog and the live
\* events meet none is lost and none is printed twice.
NothingBetween ==
    \A v \in Viewers : view[v].of # None /\ ~view[v].lagged =>
        \A e \in Marks :
            view[v].shown[e] = Times(view[v].of, e, view[v].first, view[v].next - 1)

\* However far behind, at the end it has printed the stage that failed, and no
\* pane is left open (Pipeline::finish_err shows the log of the failed stage).
FailureShown ==
    \A v \in Viewers : view[v].at = "done" =>
        /\ view[v].pane = None
        /\ \A e \in Marks : /\ e[1] = "failed"
                            /\ \E i \in DOMAIN told[view[v].of] : told[view[v].of][i] = e
                            => view[v].shown[e] > 0

\* What a viewer prints is what the deployment told: all of it if it kept up,
\* and in any case what failed.
ViewersSeeTheStory == NothingBetween /\ FailureShown
=============================================================================
