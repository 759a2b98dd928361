-------------------------------- MODULE Gateway --------------------------------
(* The daemon's one Discord gateway and its watchdog (gateway-watchdog.ts,      *)
(* connect, open_gateway, recycle_client and disconnect of discord.ts): a       *)
(* gateway that is silent for the threshold while no shard connects is          *)
(* destroyed and logged in afresh. A recycle that overruns its deadline is      *)
(* given up by the watchdog and goes on all the same.                           *)
(* Abstracted: time (ages in steps), shards (one), the ready work, alerts.      *)
EXTENDS Naturals

CONSTANTS
  Clients,    \* discord.js clients that exist at a time, from 1 on
  Attempts,   \* recycle_client calls in flight
  Threshold   \* threshold_ms, in steps of the clock

VARIABLES
  clients,    \* new (no shard yet), connecting, live, silent, dead
  bot,        \* DiscordBot: its client, and connected
  watchdog,   \* idle, race or alert; was_connecting; ages of ack and baseline
  recycles    \* recycle_client calls: idle, typing, destroy, login, late or not

gatewayVars == <<clients, bot, watchdog, recycles>>

None == 0
NoRecycle == [pc |-> "idle", client |-> None, late |-> FALSE]

Init ==
  /\ clients = [c \in Clients |-> IF c = 1 THEN "live" ELSE "dead"]
  /\ bot = [client |-> 1, connected |-> TRUE, overrun |-> FALSE]
  /\ watchdog = [on |-> TRUE, pc |-> "idle", was |-> FALSE, ack |-> 0, base |-> 0]
  /\ recycles = [a \in Attempts |-> NoRecycle]

Status == clients[bot.client]
LiveClients == {c \in Clients : clients[c] = "live"}
Older(n) == IF n = Threshold THEN n ELSE n + 1

-----------------------------------------------------------------------------
(* Discord and discord.js. *)

(* Heartbeats are acknowledged on a live client; otherwise the ages grow.      *)
TimePasses ==
  /\ watchdog' = [watchdog EXCEPT !.ack = IF Status = "live" THEN 0 ELSE Older(@), !.base = Older(@)]
  /\ UNCHANGED <<clients, bot, recycles>>

GoesSilent(c) ==
  /\ clients[c] \in {"live", "connecting"}
  /\ clients' = [clients EXCEPT ![c] = "silent"]
  /\ UNCHANGED <<bot, watchdog, recycles>>

(* discord.js reconnects on its own. *)
Reconnects(c) ==
  /\ \/ clients[c] = "live" /\ clients' = [clients EXCEPT ![c] = "connecting"]
     \/ /\ clients[c] = "connecting" /\ ~\E a \in Attempts : recycles[a].client = c
        /\ clients' = [clients EXCEPT ![c] = "live"]
  /\ UNCHANGED <<bot, watchdog, recycles>>

-----------------------------------------------------------------------------
(* GatewayWatchdog *)

(* run_recycle: the attempt and its deadline race. *)
RunRecycle(a) ==
  /\ recycles[a].pc = "idle" /\ \A b \in Attempts : recycles[b].pc = "idle" => a <= b
  /\ watchdog' = [watchdog EXCEPT !.pc = "race"]
  /\ recycles' = [recycles EXCEPT ![a] = [NoRecycle EXCEPT !.pc = "typing"]]

TickWaits ==
  /\ watchdog.on /\ watchdog.pc = "idle"
  /\ \/ Status = "connecting" /\ watchdog' = [watchdog EXCEPT !.was = TRUE]
     \/ /\ Status # "connecting" /\ watchdog.was
        /\ watchdog' = [watchdog EXCEPT !.was = FALSE, !.base = 0]
  /\ UNCHANGED <<clients, bot, recycles>>

SilentForThreshold == watchdog.ack = Threshold /\ watchdog.base = Threshold

TickRecycles(a) ==
  /\ watchdog.on /\ watchdog.pc = "idle" /\ ~watchdog.was
  /\ Status # "connecting" /\ SilentForThreshold
  /\ RunRecycle(a)
  /\ UNCHANGED <<clients, bot>>

(* The invalidated event of a client forces a recycle, unless one runs.        *)
Invalidated(a, c) ==
  /\ clients[c] = "live" /\ clients' = [clients EXCEPT ![c] = "silent"]
  /\ IF watchdog.pc = "idle" THEN RunRecycle(a) ELSE UNCHANGED <<watchdog, recycles>>
  /\ UNCHANGED bot

DeadlinePasses(a) ==
  /\ watchdog.pc = "race" /\ recycles[a].pc # "idle" /\ ~recycles[a].late
  /\ watchdog' = [watchdog EXCEPT !.pc = "alert"]
  /\ recycles' = [recycles EXCEPT ![a].late = TRUE]
  /\ UNCHANGED <<clients, bot>>

(* The alert is sent, then the lock is released and the baseline renewed.      *)
AlertSent ==
  /\ watchdog.pc = "alert"
  /\ watchdog' = [watchdog EXCEPT !.pc = "idle", !.base = 0, !.was = FALSE]
  /\ UNCHANGED <<clients, bot, recycles>>

-----------------------------------------------------------------------------
(* recycle_client: typing loops, destroy, a new client, login. *)

DestroyedWhenConnected(c) ==   \* slip: the guard of disconnect
  IF bot.connected THEN [clients EXCEPT ![c] = "dead"] ELSE clients
Destroyed(c) == [clients EXCEPT ![c] = "dead"]

(* The client destroyed is the one of this moment. *)
RecycleDestroys(a) ==
  /\ recycles[a].pc = "typing"
  /\ recycles' = [recycles EXCEPT ![a].pc = "destroy"]
  /\ clients' = Destroyed(bot.client)
  /\ bot' = [bot EXCEPT !.connected = FALSE]
  /\ UNCHANGED watchdog

Fresh == {c \in Clients : clients[c] = "dead" /\ c # bot.client /\ ~\E b \in Attempts : recycles[b].client = c}

(* destroy() came back: the new client replaces whatever client there is.      *)
RecycleOpens(a) ==
  /\ recycles[a].pc = "destroy"
  /\ \E c \in Clients :
       /\ c \in Fresh /\ \A d \in Fresh : c <= d
       /\ clients' = [clients EXCEPT ![c] = "new"]
       /\ recycles' = [recycles EXCEPT ![a].pc = "login", ![a].client = c]
       /\ bot' = [bot EXCEPT !.client = c, !.overrun = @ \/ recycles[a].late]
  /\ watchdog' = [watchdog EXCEPT !.ack = Threshold]

LoginConnects(a) ==
  LET c == recycles[a].client IN
  /\ recycles[a].pc = "login" /\ clients[c] = "new"
  /\ clients' = [clients EXCEPT ![c] = "connecting"]
  /\ UNCHANGED <<bot, watchdog, recycles>>

Settled(a) ==
  /\ recycles' = [recycles EXCEPT ![a] = NoRecycle]
  /\ watchdog' = IF recycles[a].late THEN watchdog ELSE [watchdog EXCEPT !.pc = "alert"]

(* The client is ready, or login failed; a destroyed client does not log in.   *)
LoginEnds(a) ==
  LET c == recycles[a].client IN
  /\ recycles[a].pc = "login"
  /\ Settled(a)
  /\ \/ /\ clients[c] = "connecting"
        /\ clients' = [clients EXCEPT ![c] = "live"] /\ bot' = [bot EXCEPT !.connected = TRUE]
     \/ /\ clients' = [clients EXCEPT ![c] = IF @ = "dead" THEN "dead" ELSE "silent"]
        /\ UNCHANGED bot

(* disconnect: destroys the client only while connected. *)
Disconnect ==
  /\ watchdog.on
  /\ watchdog' = [watchdog EXCEPT !.on = FALSE]
  /\ clients' = IF bot.connected THEN Destroyed(bot.client) ELSE clients
  /\ bot' = [bot EXCEPT !.connected = FALSE]
  /\ UNCHANGED recycles

RecycleStep(a) == RecycleDestroys(a) \/ RecycleOpens(a) \/ LoginConnects(a) \/ LoginEnds(a)

Next ==
  \/ TimePasses \/ TickWaits \/ AlertSent \/ Disconnect
  \/ \E c \in Clients : GoesSilent(c) \/ Reconnects(c)
  \/ \E a \in Attempts : \/ TickRecycles(a) \/ DeadlinePasses(a) \/ RecycleStep(a)
                         \/ \E c \in Clients : Invalidated(a, c)

Spec == Init /\ [][Next]_gatewayVars

-----------------------------------------------------------------------------
(* Properties *)

(* Events are handled once: through recycles that overlap after a deadline,    *)
(* two clients are live only if a recycle came out of destroy() overdue.       *)
OneLiveClient == bot.overrun \/ \A c, d \in LiveClients : c = d
=============================================================================
