------------------------------ MODULE FixSpawners ------------------------------
(* The sessions the webhook handler spawns on a failure (webhook-handler.ts): a      *)
(* builder for the failing CI of an approved PR, a planner for a failed deploy       *)
(* workflow on main. Both count their attempts in a file that is loaded, changed     *)
(* after a token has been fetched, and written as a whole, by as many handlers at    *)
(* once as there are events. deploy-triage.json has no other writer. pr-reviews.json *)
(* has two: the PR cron, which loads it at its start and saves its own map ever      *)
(* after, and flows that load and save it for a check suite, for the feedback on a   *)
(* review, or to drop malformed entries. Both of them count attempts too, and spawn. *)
(* Abstracted: the other fields of a PR's entry (PrCron has them), logs, prompts,    *)
(* alerts; of the timestamps, how many attempts of a run are younger than 24 hours.  *)
EXTENDS Naturals, FiniteSets

CONSTANTS
  Pulls, Runs,          \* PRs and workflow runs of one entity
  Handlers,             \* webhook events in flight
  MaxCiFixAttempts,     \* MAX_CI_FIX_ATTEMPTS
  MaxDeployFixAttempts, \* MAX_DEPLOY_FIX_ATTEMPTS
  SafetyValve,          \* DEPLOY_SAFETY_VALVE
  MaxFailures,          \* events
  MaxLost,              \* saves that take another writer's change back, per file
  ReadsFail             \* whether the files may be unreadable

VARIABLES
  reviews,              \* pr-reviews.json: PR -> ci_fix_attempts
  deploys,              \* deploy-triage.json: run -> attempts, last one younger than 24 h
  cronReviews,          \* the map the PR cron holds
  other,                \* another flow between its load and its save of pr-reviews.json
  handlers,             \* events in flight, with the copy each loaded
  fixDone               \* sessions spawned, of them young, saves that lost one, events

fixVars == <<reviews, deploys, cronReviews, other, handlers, fixDone>>
othersVars == <<cronReviews, other>>

Keys == Pulls \cup Runs
NoTries == [p \in Pulls |-> 0]
None == [r \in Runs |-> [tries |-> 0, young |-> FALSE]]
Free == [pc |-> "free", key |-> "none", prs |-> NoTries, runs |-> None]
NoOther == [pc |-> "idle", base |-> NoTries]

Init ==
  /\ reviews = NoTries /\ deploys = None
  /\ cronReviews = NoTries /\ other = NoOther
  /\ handlers = [h \in Handlers |-> Free]
  /\ fixDone = [spawned |-> [k \in Keys |-> 0], young |-> [r \in Runs |-> 0],
                lostReviews |-> 0, lostDeploys |-> 0, events |-> 0]

(* load_pr_reviews and load_deploy_triage: an unreadable file is an empty one.       *)
Readings(file, empty) == {file} \cup IF ReadsFail THEN {empty} ELSE {}

(* save_pr_reviews of new by a writer that knew base. It takes something back when   *)
(* another writer's change is not in base, or an attempt of the file not in new.     *)
TakesBack(base, new) == base # reviews \/ \E p \in Pulls : new[p] < reviews[p]
ReviewsSaved(base, new, counts) ==
  /\ reviews' = new
  /\ fixDone' = [counts EXCEPT !.lostReviews = IF TakesBack(base, new) THEN @ + 1 ELSE @]
  /\ fixDone'.lostReviews <= MaxLost

Ends(h) == handlers' = [handlers EXCEPT ![h] = Free]
Loaded(h, key, prs, runs) ==
  handlers' = [handlers EXCEPT ![h] = [pc |-> "token", key |-> key, prs |-> prs, runs |-> runs]]

EventArrives(h) ==
  /\ handlers[h].pc = "free" /\ fixDone.events < MaxFailures
  /\ fixDone' = [fixDone EXCEPT !.events = @ + 1]

(* spawn_ci_fixer: an exhausted PR alerts.                                         *)
CiFails(h, p) ==
  /\ EventArrives(h)
  /\ \E f \in Readings(reviews, NoTries) :
       IF f[p] >= MaxCiFixAttempts THEN UNCHANGED handlers ELSE Loaded(h, p, f, None)
  /\ UNCHANGED <<reviews, deploys, othersVars>>

(* The attempts of the entity in the last 24 h, each a run with a number; an entry *)
(* counts with all of its attempts when its last one is younger.                   *)
YoungAttempts(f) ==
  {a \in Runs \X (1 .. MaxDeployFixAttempts) : f[a[1]].young /\ a[2] <= f[a[1]].tries}
Attempts24h(f) == Cardinality(YoungAttempts(f))

(* Slip: only the run at hand is held against the valve.                           *)
DeployStopsPerRun(f, r) ==
  \/ f[r].tries >= MaxDeployFixAttempts
  \/ f[r].young /\ f[r].tries >= SafetyValve

(* spawn_deploy_triage: the cap of the run, the safety valve of the entity.        *)
DeployStops(f, r) == f[r].tries >= MaxDeployFixAttempts \/ Attempts24h(f) >= SafetyValve

DeployFails(h, r) ==
  /\ EventArrives(h)
  /\ \E f \in Readings(deploys, None) :
       IF DeployStops(f, r) THEN UNCHANGED handlers ELSE Loaded(h, r, NoTries, f)
  /\ UNCHANGED <<reviews, deploys, othersVars>>

(* resolve_token or the write of the file throws: no attempt is counted.           *)
GivesUp(h) ==
  /\ handlers[h].pc = "token" /\ Ends(h)
  /\ UNCHANGED <<reviews, deploys, othersVars, fixDone>>

(* The copy of the time of the load is written with one attempt more.              *)
Saves(h) == handlers[h].pc = "token" /\ handlers' = [handlers EXCEPT ![h].pc = "spawn"]

CiAttemptSaved(h) ==
  LET p == handlers[h].key  prs == handlers[h].prs IN
  /\ Saves(h) /\ p \in Pulls
  /\ ReviewsSaved(prs, [prs EXCEPT ![p] = @ + 1], fixDone)
  /\ UNCHANGED <<deploys, othersVars>>

DeployAttemptSaved(h) ==
  LET r == handlers[h].key  runs == handlers[h].runs IN
  /\ Saves(h) /\ r \in Runs
  /\ deploys' = [runs EXCEPT ![r] = [tries |-> @.tries + 1, young |-> TRUE]]
  /\ fixDone' = [fixDone EXCEPT !.lostDeploys = IF runs # deploys THEN @ + 1 ELSE @]
  /\ fixDone'.lostDeploys <= MaxLost
  /\ UNCHANGED <<reviews, othersVars>>

(* session_manager.spawn, whose error is only reported.                            *)
BuilderSpawned(h) ==
  LET p == handlers[h].key IN
  /\ handlers[h].pc = "spawn" /\ p \in Pulls /\ Ends(h)
  /\ \/ fixDone' = [fixDone EXCEPT !.spawned[p] = @ + 1]
     \/ UNCHANGED fixDone
  /\ UNCHANGED <<reviews, deploys, othersVars>>

PlannerSpawned(h) ==
  LET r == handlers[h].key IN
  /\ handlers[h].pc = "spawn" /\ r \in Runs /\ Ends(h)
  /\ \/ fixDone' = [fixDone EXCEPT !.spawned[r] = @ + 1, !.young[r] = @ + 1]
     \/ UNCHANGED fixDone
  /\ UNCHANGED <<reviews, deploys, othersVars>>

(* A day after the last attempt of a run, which is a day after its others too. The *)
(* timestamp is the same in every copy.                                             *)
Aged(f, r) == [f EXCEPT ![r].young = FALSE]
AttemptsAge(r) ==
  /\ deploys[r].young /\ \A h \in Handlers : handlers[h].key # r
  /\ deploys' = Aged(deploys, r)
  /\ handlers' = [h \in Handlers |-> [handlers[h] EXCEPT !.runs = Aged(@, r)]]
  /\ fixDone' = [fixDone EXCEPT !.young[r] = 0]
  /\ UNCHANGED <<reviews, othersVars>>

(* The daemon starts again: what was in flight is gone, the cron loads the file.    *)
Restart ==
  /\ handlers' = [h \in Handlers |-> Free] /\ other' = NoOther
  /\ cronReviews' \in Readings(reviews, NoTries)
  /\ UNCHANGED <<reviews, deploys, fixDone>>

(* The other writers of pr-reviews.json, which may count an attempt at PR p and      *)
(* spawn a builder for it, when the map they hold allows one.                        *)
OthersFix(p, map) ==
  LET new == [map EXCEPT ![p] = @ + 1] IN
  /\ map[p] < MaxCiFixAttempts
  /\ \/ ReviewsSaved(map, new, fixDone)
     \/ ReviewsSaved(map, new, [fixDone EXCEPT !.spawned[p] = @ + 1])

(* The cron saves its map, without the entries of PRs that are not in its list ...   *)
CronSaves ==
  /\ \E gone \in SUBSET Pulls : cronReviews' = [p \in Pulls |-> IF p \in gone THEN 0 ELSE cronReviews[p]]
  /\ ReviewsSaved(cronReviews, cronReviews', fixDone) \/ UNCHANGED <<reviews, fixDone>>
  /\ UNCHANGED <<deploys, other, handlers>>

(* ... or with an attempt at a PR, in the map whether or not the save throws.        *)
CronFixes(p) ==
  /\ cronReviews[p] < MaxCiFixAttempts
  /\ cronReviews' = [cronReviews EXCEPT ![p] = @ + 1]
  /\ OthersFix(p, cronReviews) \/ UNCHANGED <<reviews, fixDone>>
  /\ UNCHANGED <<deploys, other, handlers>>

OtherLoads ==
  /\ other.pc = "idle"
  /\ other' \in {[pc |-> "loaded", base |-> f] : f \in Readings(reviews, NoTries)}
  /\ UNCHANGED <<reviews, deploys, cronReviews, handlers, fixDone>>

OtherSaves ==
  /\ other.pc = "loaded" /\ other' = NoOther
  /\ \/ ReviewsSaved(other.base, other.base, fixDone)
     \/ \E p \in Pulls : OthersFix(p, other.base)
     \/ UNCHANGED <<reviews, fixDone>>
  /\ UNCHANGED <<deploys, cronReviews, handlers>>

Next ==
  \/ \E h \in Handlers :
       \/ \E p \in Pulls : CiFails(h, p)
       \/ \E r \in Runs : DeployFails(h, r)
       \/ GivesUp(h) \/ CiAttemptSaved(h) \/ DeployAttemptSaved(h)
       \/ BuilderSpawned(h) \/ PlannerSpawned(h)
  \/ \E r \in Runs : AttemptsAge(r)
  \/ Restart
  \/ CronSaves \/ \E p \in Pulls : CronFixes(p)
  \/ OtherLoads \/ OtherSaves

Spec == Init /\ [][Next]_fixVars

--------------------------------------------------------------------------------
(* Properties *)

Young == Cardinality({a \in Runs \X (1 .. MaxFailures) : a[2] <= fixDone.young[a[1]]})

(* Each save that takes another writer's change back gives back at most one budget  *)
(* of a PR or, in the other file, of a run; and while none has taken an attempt of  *)
(* a run back, the sessions of an entity within 24 hours stay under the safety      *)
(* valve.                                                                            *)
SpawnsAreBudgeted ==
  /\ \A p \in Pulls : fixDone.spawned[p] <= MaxCiFixAttempts * (1 + fixDone.lostReviews)
  /\ \A r \in Runs : fixDone.spawned[r] <= MaxDeployFixAttempts * (1 + fixDone.lostDeploys)
  /\ fixDone.lostDeploys = 0 => Young <= SafetyValve
================================================================================
