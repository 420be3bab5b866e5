------------------------------ MODULE MCAutomationRuns ------------------------------
(* Instances of AutomationRuns: the automations that are considered, each with *)
(* the bounds that make its hard cases happen.                                 *)
EXTENDS AutomationRunsProperties

CONSTANTS s1, s2

Heartbeats ==
    [mode |-> "heartbeat", schedule |-> "interval", misfire |-> "coalesce", cap |-> 0,
     stopOnError |-> FALSE, stopCheck |-> FALSE, worktree |-> FALSE, timed |-> FALSE,
     servers |-> {s1}, horizon |-> 2, possible |-> {}]

Standalones == [Heartbeats EXCEPT !.mode = "standalone"]

May(plans, kinds) == [plans EXCEPT !.possible = kinds]

Checked == [Heartbeats EXCEPT !.stopCheck = TRUE]
Onces == [Standalones EXCEPT !.schedule = "once", !.servers = {s1, s2}]
Short(plans) == [plans EXCEPT !.horizon = 1]

\* Stop checks; calls against a heartbeat; worktrees; overlapping passes; limits on time and
\* number; missed occurrences; messages that are lost.
AllPlans == {
    May(Checked, {"sweep", "ask"}), May(Checked, {"rename"}), May(Short(Checked), {"fault"}),
    May(Short(Heartbeats), {"runNow", "cancel"}), May(Short(Heartbeats), {"crash", "cancel"}),
    May([Short(Standalones) EXCEPT !.worktree = TRUE], {"cancel", "fault", "delete"}),
    Onces, May([Onces EXCEPT !.misfire = "run-latest", !.servers = {s1}], {"crash"}),
    May([Short(Standalones) EXCEPT !.timed = TRUE], {"cancel", "sweep", "ask"}),
    May([Heartbeats EXCEPT !.cap = 1, !.stopOnError = TRUE], {"runNow"}),
    May([Standalones EXCEPT !.misfire = "skip"], {"disable", "enable"}),
    May(Short(Heartbeats), {"drop", "start"}),
    May([Standalones EXCEPT !.misfire = "run-latest", !.cap = 1], {"runNow"}),
    May([Short(Standalones) EXCEPT !.misfire = "run-latest"], {"crash"})}

\* Crashes against a schedule and against its stop checks.
FairPlans == {
    May(Short(Checked), {"crash"}), Checked, May(Short(Heartbeats), {"runNow"}),
    May([Onces EXCEPT !.servers = {s1}], {"crash"})}

\* An automation that runs once, and late, where two servers may think it is theirs.
LateOnce == {[Onces EXCEPT !.misfire = "run-latest", !.horizon = 3]}
=============================================================================
