----------------------------- MODULE MCInstall -----------------------------
(* Instances of Install for TLC. *)
EXTENDS Install

\* Nothing installed.
Bare == [users |-> {}, groups |-> {}, member |-> {},
         tree |-> [t \in Trees |-> [n \in Names |-> "none"]], toml |-> "none", owned |-> FALSE,
         unit |-> "none", loaded |-> "none", enabled |-> FALSE, bin |-> None, active |-> None,
         ledger |-> FALSE, tunnel |-> FALSE, creds |-> FALSE, config |-> "none",
         userunit |-> "none", section |-> FALSE, service |-> FALSE, foreign |-> FALSE]

\* An install of the old name.
Old == [Bare EXCEPT !.users = {"pi"}, !.groups = {"pi"}, !.bin = 1,
                    !.tree = [t \in Trees |-> [n \in Names |-> IF n = "pi" THEN "legacy" ELSE "none"]]]

\* A tunnel set up by hand where setup looks for it, or one it cannot see.
Tunneled == [Bare EXCEPT !.tree["lib"]["rpi"] = "fresh", !.config = "theirs", !.creds = TRUE,
                         !.tunnel = TRUE, !.userunit = "theirs"]
Foreign  == [Bare EXCEPT !.tree["lib"]["rpi"] = "fresh", !.foreign = TRUE, !.userunit = "theirs"]

\* An agent that runs, with a unit and a config of its operator's.
Running == [Bare EXCEPT !.users = {"rpi"}, !.groups = {"rpi"}, !.member = {"docker"},
                        !.tree = [t \in Trees |-> [n \in Names |-> IF n = "rpi" THEN "fresh" ELSE "none"]],
                        !.toml = "own", !.unit = "other", !.loaded = "other", !.enabled = TRUE,
                        !.bin = 1, !.active = 1]

TheHosts == {Bare, Old, Tunneled, Foreign, Running}

Zero == [k \in Kinds |-> 0]

Troubles == {[Zero EXCEPT !["command"] = 3, !["cut"] = 1, !["failure"] = 1]}

Calm == {[Zero EXCEPT !["command"] = 1]}
=============================================================================
