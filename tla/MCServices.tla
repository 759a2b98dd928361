------------------------------- MODULE MCServices ------------------------------
(* One instance for the safety of ten parts of the system, each with the writers  *)
(* of the files it shares with others. A behaviour is one of a single part, the one *)
(* that service names; the others stay as they start.                                *)
EXTENDS Naturals, FiniteSets

CONSTANTS
  Calls,                                                \* handler calls in flight
  MaxLost, ReadsFail,                                   \* CheckSuite, FixSpawners
  Suites, MaxSha, FixLimit, MaxReruns, MaxInputs,       \* CheckSuite
  Starts, MaxRestarts, MaxUpsets,                       \* Commander
  Clients, Attempts, Threshold,                         \* Gateway
  Branches, MaxWork,                                    \* WorktreeCleanup
  Issues, MaxTriages, MaxDepth, MaxFixes, MaxSessions,  \* SentryTriage
  Incidents, Posts, Days,                               \* AlertRouter
  Prs, Watchers, Nobody, MaxTurns,                      \* PrWatches
  Names, MaxRooms, MaxClosings,                         \* Rooms
  Pulls, Runs, Handlers, MaxCiFixAttempts,              \* FixSpawners
  MaxDeployFixAttempts, SafetyValve, MaxFailures,
  MaxProcs, MaxSignals                                  \* Lifecycle

(* What the proofs need of the bounds.                                             *)
ASSUME SuiteAssumption ==
  IsFiniteSet(Calls) /\ MaxSha \in Nat \ {0} /\ FixLimit \in Nat /\ "none" \notin Suites
ASSUME LifeAssumption == MaxProcs \in Nat /\ MaxSignals \in Nat
ASSUME GatewayAssumption == 1 \in Clients /\ Threshold \in Nat
ASSUME RouterAssumption == Days \in Nat \ {0}
ASSUME CommanderAssumption == MaxRestarts \in Nat
ASSUME RoomsAssumption == MaxRooms \in Nat /\ "" \notin Names
ASSUME WatchAssumption == Nobody \notin Watchers
ASSUME FixAssumption ==
  /\ IsFiniteSet(Handlers) /\ IsFiniteSet(Runs) /\ Pulls \cap Runs = {} /\ "none" \notin Pulls \cup Runs
  /\ MaxCiFixAttempts \in Nat /\ MaxDeployFixAttempts \in Nat /\ SafetyValve \in Nat /\ MaxFailures \in Nat
ASSUME SentryAssumption ==
  IsFiniteSet(Issues) /\ Issues # {} /\ MaxTriages \in Nat \ {0} /\ MaxSessions \in Nat

VARIABLES
  service,
  prHead, suite, mail, calls, prFile, cronMap, flow, review, gate, done,
  cmd, pane, startCalls, heal, marker, warm, seen,
  clients, bot, watchdog, recycles,
  tree, refs, cleaners, wcDone,
  active, triageQueue, triages, triageCalls, rays, sentryDone,
  incidentFile, incidentCalls, posts, daily, routerDone,
  watches, watchFile, watchSaves, notes, pane2, injections, drain, watchDone,
  roomList, roomFile, roomEntity, home, archives, roomCalls, roomsDone,
  reviews, deploys, cronReviews, other, handlers, fixDone,
  proc, pidFile, launchd, cli, machine

Suite == INSTANCE CheckSuite
Command == INSTANCE Commander
Gate == INSTANCE Gateway
Trees == INSTANCE WorktreeCleanup
Sentry == INSTANCE SentryTriage
Router == INSTANCE AlertRouter
Watch == INSTANCE PrWatches WITH Channels <- Watchers
WorkRooms == INSTANCE Rooms
Fix == INSTANCE FixSpawners
Life == INSTANCE Lifecycle

(* A detached HEAD is no branch.                                                   *)
ASSUME TreesAssumption == Trees!Detached \notin Branches

suiteVars == <<prHead, suite, mail, calls, prFile, cronMap, flow, review, gate, done>>
commandVars == <<cmd, pane, startCalls, heal, marker, warm, seen>>
gateVars == <<clients, bot, watchdog, recycles>>
treesVars == <<tree, refs, cleaners, wcDone>>
sentriesVars == <<active, triageQueue, triages, triageCalls, rays, sentryDone>>
routersVars == <<incidentFile, incidentCalls, posts, daily, routerDone>>
watchersVars == <<watches, watchFile, watchSaves, notes, pane2, injections, drain, watchDone>>
roomsVars == <<roomList, roomFile, roomEntity, home, archives, roomCalls, roomsDone>>
fixersVars == <<reviews, deploys, cronReviews, other, handlers, fixDone>>
machineVars == <<proc, pidFile, launchd, cli, machine>>
allVars == <<service, suiteVars, commandVars, gateVars, treesVars, sentriesVars,
             routersVars, watchersVars, roomsVars, fixersVars, machineVars>>

Init ==
  /\ service \in {"suite", "command", "gate", "trees", "sentry", "router", "watch",
                 "rooms", "fix", "life"}
  /\ Suite!Init /\ Command!Init /\ Gate!Init
  /\ Trees!Init /\ Sentry!Init /\ Router!Init /\ Watch!Init
  /\ WorkRooms!Init /\ Fix!Init /\ Life!Init
  /\ service = "suite" \/ review = Suite!NoReview
  /\ service = "command" \/ (pane = "none" /\ startCalls[1] = "token")
  /\ service = "trees" \/ (tree.at = "x" /\ refs["x"] = Trees!Fresh)
  /\ service = "watch" \/ pane2.owner = "general"

Next ==
  /\ UNCHANGED service
  /\ IF service = "suite" THEN Suite!Next ELSE UNCHANGED suiteVars
  /\ IF service = "command" THEN Command!Next ELSE UNCHANGED commandVars
  /\ IF service = "gate" THEN Gate!Next ELSE UNCHANGED gateVars
  /\ IF service = "trees" THEN Trees!Next ELSE UNCHANGED treesVars
  /\ IF service = "sentry" THEN Sentry!Next ELSE UNCHANGED sentriesVars
  /\ IF service = "router" THEN Router!Next ELSE UNCHANGED routersVars
  /\ IF service = "watch" THEN Watch!Next ELSE UNCHANGED watchersVars
  /\ IF service = "rooms" THEN WorkRooms!Next ELSE UNCHANGED roomsVars
  /\ IF service = "fix" THEN Fix!Next ELSE UNCHANGED fixersVars
  /\ IF service = "life" THEN Life!Next ELSE UNCHANGED machineVars

Spec == Init /\ [][Next]_allVars

(* For TLC, what tells two states apart. The services that do not run stay as Init  *)
(* left them; calls in flight are told apart by what they do; and once commands for *)
(* rooms have overlapped, which they then have for ever, SessionsKeptOnce has no    *)
(* more to say.                                                                      *)
Crowd(f) == {<<f[k], Cardinality({j \in DOMAIN f : f[j] = f[k]})>> : k \in DOMAIN f}
Running ==
  CASE service = "suite" ->
         <<"suite", Crowd(calls), prHead, suite, mail, prFile, cronMap, flow, review, gate, done>>
    [] service = "command" -> <<"command", commandVars>>
    [] service = "gate" -> <<"gate", gateVars>>
    [] service = "trees" -> <<"trees", treesVars>>
    [] service = "sentry" ->
         <<"sentry", Crowd(triageCalls), active, triageQueue, triages, rays, sentryDone>>
    [] service = "router" -> <<"router", routersVars>>
    [] service = "watch" -> <<"watch", watchersVars>>
    [] service = "rooms" ->
         IF roomsDone.overlap THEN <<"rooms">>
         ELSE <<"rooms", Crowd(roomCalls), roomList, roomFile, roomEntity, home, archives, roomsDone>>
    [] service = "fix" ->
         <<"fix", Crowd(handlers), reviews, deploys, cronReviews, other, fixDone>>
    [] service = "life" -> <<"life", machineVars>>

--------------------------------------------------------------------------------
(* The properties of the services, as their modules state them.                   *)

(* A save that takes another's change back gives back one dispatch and one budget. *)
DispatchesAreBudgeted == Suite!DispatchesAreBudgeted

(* A commander that is down without anything under way was left down on purpose.  *)
NoSilentDarkness == Command!NoSilentDarkness

(* Two clients are live only after a recycle came out of destroy() overdue.       *)
OneLiveClient == Gate!OneLiveClient

(* A removal takes nothing its checks were made to protect.                       *)
OnlySafeTreesRemoved == Trees!OnlySafeTreesRemoved

(* A queued triage has a session or a call that will take it up.                  *)
QueuedTriageIsDriven == Sentry!QueuedTriageIsDriven

(* Without overlap no open incident is lost and a day has one thread.             *)
IncidentsAndThreadsKept == Router!IncidentsAndThreadsKept

(* The watch file follows the store, and a notification is typed into the session  *)
(* of the channel that watches.                                                     *)
WatchersAreServed == Watch!WatchFileFollows /\ Watch!TypedToTheWatcher

(* Sequential room commands lose no session through failures and restarts.         *)
SessionsKeptOnce == WorkRooms!SessionsKeptOnce

(* A save that loses another's attempt gives back one budget; the valve holds while  *)
(* none does.                                                                        *)
SpawnsAreBudgeted == Fix!SpawnsAreBudgeted

(* Port, pool, broker and gateway are one process's; the PID is of a daemon.       *)
OneDaemonAtWork == Life!OneDaemonAtWork
================================================================================
