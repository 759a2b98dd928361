------------------------------- MODULE Commander -------------------------------
(* The commander (commander-process.ts): one Claude session in tmux, started    *)
(* at boot, restarted with a growing delay when it dies, recovered when its     *)
(* plugin no longer delivers. start() is cut at its two awaits and at tmux's    *)
(* exit; the recovery of a deaf session at its alert, its start and its wait.   *)
(* Abstracted: arguments and the session id, delays, the process error event    *)
(* (it does what a failing tmux does), the text of alerts.                      *)
EXTENDS Naturals

CONSTANTS
  Starts,       \* start() calls in flight
  MaxRestarts,  \* MAX_RESTARTS
  MaxUpsets     \* messages, deaths, deaf plugins and failing spawns

VARIABLES
  cmd,          \* state, restart_count, pending timers, health poll
  pane,         \* the tmux session: none, alive, deaf
  startCalls,   \* start() calls: idle, token, sid, and how tmux ended
  heal,         \* recover_deaf_commander: idle, alert, settle, and its start() call
  marker,       \* last_inbound_at: none, grace, due
  warm,         \* inside the warm-up after last_started_at
  seen          \* upsets, and what an operator could know: gave up, no token, status

cmdVars == <<cmd, pane, startCalls, heal, marker, warm, seen>>

Init ==
  /\ cmd = [state |-> "stopped", count |-> 0, timers |-> 0, resets |-> 0, poll |-> FALSE, shut |-> FALSE]
  /\ pane \in {"none", "alive"}   \* a session a former daemon left
  /\ \E c \in Starts : startCalls = [d \in Starts |-> IF d = c THEN "token" ELSE "idle"]
  /\ heal = [pc |-> "idle", call |-> CHOOSE c \in Starts : TRUE]
  /\ marker = "none" /\ warm = FALSE
  /\ seen = [upsets |-> 0, gaveUp |-> FALSE, noToken |-> FALSE, byStatus |-> FALSE]

Up == cmd.state \in {"running", "starting"}
FreeCall(c) == startCalls[c] = "idle" /\ \A d \in Starts : startCalls[d] = "idle" => c <= d

-----------------------------------------------------------------------------
(* The session and its plugin. *)

Upset == seen.upsets < MaxUpsets /\ seen' = [seen EXCEPT !.upsets = @ + 1]

SessionDies ==
  /\ Upset /\ pane # "none" /\ pane' = "none"
  /\ UNCHANGED <<cmd, startCalls, heal, marker, warm>>

PluginGoesDeaf ==
  /\ Upset /\ pane = "alive" /\ pane' = "deaf"
  /\ UNCHANGED <<cmd, startCalls, heal, marker, warm>>

(* A human writes in #command-center. *)
MarkInbound ==
  /\ Upset /\ marker' = "grace"
  /\ UNCHANGED <<cmd, pane, startCalls, heal, warm>>

(* The grace period after a message, the warm-up after a start: time passes.   *)
GracePasses ==
  /\ \/ marker = "grace" /\ marker' = "due" /\ UNCHANGED warm
     \/ warm /\ warm' = FALSE /\ UNCHANGED marker
  /\ UNCHANGED <<cmd, pane, startCalls, heal, seen>>

-----------------------------------------------------------------------------
(* schedule_restart: counts, arms a timer or gives up. *)

ScheduledBlindly(s) == [cmd EXCEPT !.state = s, !.count = @ + 1]   \* slip: no timer
Scheduled(s) ==
  [cmd EXCEPT !.state = s, !.count = @ + 1,
              !.timers = IF cmd.count + 1 > MaxRestarts THEN @ ELSE @ + 1]
GaveUp == seen.gaveUp \/ cmd.count + 1 > MaxRestarts

(* A call of start(): nothing to do when running or starting. *)
Called(c) == startCalls' = IF Up THEN startCalls ELSE [startCalls EXCEPT ![c] = "token"]

RestartTimer(c) ==
  /\ cmd.timers > 0 /\ FreeCall(c)
  /\ Called(c)
  /\ cmd' = [cmd EXCEPT !.timers = @ - 1]
  /\ UNCHANGED <<pane, heal, marker, warm, seen>>

(* Ten minutes of running reset the count. *)
BackoffReset ==
  /\ cmd.resets > 0
  /\ cmd' = [cmd EXCEPT !.resets = @ - 1, !.count = IF cmd.state = "running" THEN 0 ELSE @]
  /\ UNCHANGED <<pane, startCalls, heal, marker, warm, seen>>

(* has_token: without one start() returns; else a session in the way is killed. *)
StartGoesOn(c) ==
  /\ startCalls[c] = "token"
  /\ \/ /\ startCalls' = [startCalls EXCEPT ![c] = "idle"]
        /\ seen' = [seen EXCEPT !.noToken = TRUE]
        /\ UNCHANGED <<cmd, pane>>
     \/ /\ startCalls' = [startCalls EXCEPT ![c] = "sid"]
        /\ pane' = "none"
        /\ cmd' = [cmd EXCEPT !.state = "starting"]
        /\ UNCHANGED seen
  /\ UNCHANGED <<heal, marker, warm>>

(* tmux new-session: refused while a session of that name exists. *)
StartSpawns(c) ==
  /\ startCalls[c] = "sid"
  /\ \/ /\ pane = "none" /\ pane' = "alive"
        /\ startCalls' = [startCalls EXCEPT ![c] = "made"]
        /\ UNCHANGED seen
     \/ /\ IF pane = "none" THEN Upset ELSE UNCHANGED seen
        /\ startCalls' = [startCalls EXCEPT ![c] = "failed"]
        /\ UNCHANGED pane
  /\ UNCHANGED <<cmd, heal, marker, warm>>

(* proc.on("close") *)
StartCloses(c) ==
  /\ startCalls[c] \in {"made", "failed"}
  /\ startCalls' = [startCalls EXCEPT ![c] = "idle"]
  /\ IF startCalls[c] = "made" /\ pane # "none"
     THEN /\ cmd' = [cmd EXCEPT !.state = "running", !.poll = TRUE, !.resets = @ + 1]
          /\ warm' = TRUE
          /\ UNCHANGED seen
     ELSE /\ cmd' = Scheduled("crashed")
          /\ seen' = [seen EXCEPT !.gaveUp = GaveUp]
          /\ UNCHANGED warm
  /\ UNCHANGED <<pane, heal, marker>>

-----------------------------------------------------------------------------
(* The health poll. *)

PollSeesDeath ==
  /\ cmd.poll /\ cmd.state = "running" /\ pane = "none"
  /\ cmd' = [Scheduled("crashed") EXCEPT !.poll = FALSE, !.resets = IF @ = 0 THEN 0 ELSE @ - 1]
  /\ seen' = [seen EXCEPT !.gaveUp = GaveUp]
  /\ UNCHANGED <<pane, startCalls, heal, marker, warm>>

(* check_plugin_liveness. An alive session may work or have worked unseen.     *)
Probe ==
  /\ cmd.poll /\ cmd.state = "running" /\ pane # "none"
  /\ heal.pc = "idle" /\ marker # "none" /\ ~warm
  /\ \/ marker' = "none" /\ UNCHANGED heal                      \* working, or has processed
     \/ marker = "due" /\ marker' = "none" /\ heal' = [heal EXCEPT !.pc = "alert"]   \* idle: deaf
  /\ UNCHANGED <<cmd, pane, startCalls, warm, seen>>

(* recover_deaf_commander: after its alert it kills the session of that        *)
(* moment and starts, whatever happened meanwhile.                             *)
HealKills(c) ==
  /\ heal.pc = "alert" /\ FreeCall(c)
  /\ pane' = "none"
  /\ cmd' = [cmd EXCEPT !.state = "stopped"]
  /\ startCalls' = [startCalls EXCEPT ![c] = "token"]
  /\ heal' = [pc |-> "settle", call |-> c]
  /\ UNCHANGED <<marker, warm, seen>>

(* The verdict is alerted once the start has settled or after three seconds.   *)
HealEnds ==
  /\ heal.pc = "settle" /\ startCalls[heal.call] \notin {"token", "sid"}
  /\ heal' = [heal EXCEPT !.pc = "idle"]
  /\ UNCHANGED <<cmd, pane, startCalls, marker, warm, seen>>

-----------------------------------------------------------------------------
(* health_check, for the status page: a dead session is marked crashed. *)
StatusRequest ==
  /\ cmd.state = "running" /\ pane = "none"
  /\ cmd' = [cmd EXCEPT !.state = "crashed"]
  /\ seen' = [seen EXCEPT !.byStatus = TRUE]
  /\ UNCHANGED <<pane, startCalls, heal, marker, warm>>

Stop ==
  /\ ~cmd.shut
  /\ cmd' = [cmd EXCEPT !.state = "stopped", !.poll = FALSE, !.shut = TRUE,
               !.timers = IF @ = 0 THEN 0 ELSE @ - 1, !.resets = IF @ = 0 THEN 0 ELSE @ - 1]
  /\ pane' = "none"
  /\ UNCHANGED <<startCalls, heal, marker, warm, seen>>

StartStep(c) == StartGoesOn(c) \/ StartSpawns(c) \/ StartCloses(c)

Next ==
  \/ SessionDies \/ PluginGoesDeaf \/ MarkInbound \/ GracePasses
  \/ \E c \in Starts : RestartTimer(c) \/ StartStep(c) \/ HealKills(c)
  \/ BackoffReset \/ PollSeesDeath \/ Probe \/ HealEnds
  \/ StatusRequest \/ Stop

Spec == Init /\ [][Next]_cmdVars

-----------------------------------------------------------------------------
(* Properties *)

(* A commander that is down with no start, timer or recovery under way was     *)
(* stopped, gave up, has no token, or was first found dead by a status         *)
(* request: through restarts, recoveries and starts that race, no other path   *)
(* leaves it dark.                                                             *)
NoSilentDarkness ==
  cmd.state \in {"crashed", "stopped"} =>
    \/ cmd.timers > 0 \/ heal.pc = "alert" \/ \E c \in Starts : startCalls[c] # "idle"
    \/ cmd.shut \/ seen.gaveUp \/ seen.noToken \/ seen.byStatus
=============================================================================
