------------------------------ MODULE BotPool ------------------------------
(* The bot pool (pool.ts) with the Discord handlers that drive it.          *)
(*                                                                          *)
(* A pool bot is a Discord identity with one tmux session, named after the  *)
(* bot. The pool lends it to a channel (assigned), keeps its context when   *)
(* the bot is taken away (parked, or the session history), and repairs it.  *)
(* Every procedure is cut at its awaits: what it captured before an await   *)
(* is in its own record, and it acts afterwards on whatever the bot has     *)
(* become. Awaits that touch only files or Discord (access.json, nickname,  *)
(* avatar, secrets, notifications) are one point each time they follow one  *)
(* another.                                                                 *)
(*                                                                          *)
(* Abstracted: wall-clock time (what depends on an age is a choice), the    *)
(* pane of a session (idle, stale login: a choice), LRU and work-room order *)
(* of eviction candidates (any candidate), entities (one per channel), the  *)
(* model, effort, nickname and avatar of a bot, memory extraction. The write *)
(* of pool-state.json is taken where persist is called: it copies the state *)
(* before its await; the await ends the procedure.                          *)
(* Covered failures: a session dies, a spawn fails, the daemon stops or     *)
(* crashes at any await and boots again. Not covered: a failing write of    *)
(* access.json, a transcript deleted from the disk.                         *)
EXTENDS Integers, FiniteSets, Sequences

CONSTANTS
  Bots,             \* pool bots (which of several equals is found first is a choice)
  Channels,         \* entity channels
  BrokerChannels,   \* those with the broker transport (pilot_channels)
  None,             \* null
  MaxMsgs,          \* inbound messages per channel
  MaxSessions,      \* session ids drawn per channel
  MaxUpsets,        \* what the users, the sessions and the host do to the pool
  CrashLimit,       \* crashes per bot and hour before the pool gives up (3)
  RecycleLimit      \* deaf recycles per channel and hour (2)

ASSUME PoolAssumption ==
  /\ Bots # {} /\ IsFiniteSet(Bots)
  /\ BrokerChannels \subseteq Channels /\ None \notin Channels \cup Bots
  /\ {MaxMsgs, MaxSessions, MaxUpsets, CrashLimit, RecycleLimit} \subseteq Nat

VARIABLES
  bots,        \* this.bots: state, channel, session, session_confirmed
  tmux,        \* the live session of a bot, or None
  inbound,     \* bots whose last_inbound_at awaits a sign of processing
  history,     \* session_history
  disk,        \* sessions with a transcript (JSONL)
  saved,       \* pool-state.json
  drawn,       \* session ids drawn per channel
  owner,       \* broker ownership: the bot registered for a channel
  asg,         \* the assign() in flight of a channel (assigning_channels)
  rel,         \* channels whose release() is at its awaits
  buffer,      \* broker_coldstart_buffer
  jobs,        \* the maintenance procedures in flight
  cands,       \* resume_candidates
  probation,   \* post_restart_probation
  fate,        \* what became of each inbound message
  life,        \* phase of the daemon
  draining,    \* _draining
  crashes,     \* crash_history: crashes of a bot in the last hour
  recycles,    \* deaf_recycle_history: recycles of a channel in the last hour
  upsets       \* upsets so far

pool == <<bots, tmux, inbound, history, disk, saved, drawn, owner>>
proc == <<asg, rel, buffer, jobs, cands, probation>>
vars == <<bots, tmux, inbound, history, disk, saved, drawn, owner,
          asg, rel, buffer, jobs, cands, probation,
          fate, life, draining, crashes, recycles, upsets>>

Jobs == {"boot", "tick", "letter"}   \* start-up and its heal, health tick, dead letters
Msgs == 1 .. MaxMsgs
System == MaxMsgs + 1                \* a message the daemon writes itself
Sessions == [of : Channels, n : 1 .. MaxSessions]

FreeBot  == [st |-> "free", chan |-> None, sess |-> None, conf |-> FALSE]
NoAssign == [pc |-> "idle", bot |-> None, sess |-> None, msg |-> 0]
NoJob    == [op |-> "idle", pc |-> "idle", bot |-> None, chan |-> None,
             sess |-> None, conf |-> FALSE]

Fates == {"new",       \* not sent yet
          "releasing", \* its handler awaits the release of a dead session
          "held",      \* its handler awaits the reaction, before assign()
          "driver",    \* carried by the assign in flight
          "filed",     \* left in the pending file of the session it started
          "fed",       \* in the queue of the broker
          "seen",      \* the plugin of a live session got it, not the daemon
          "buffered",  \* in the cold-start buffer
          "refused",   \* the author was told, or the assign threw
          "shadowed",  \* assign() returned a session that already existed
          "discarded"} \* dropped from the cold-start buffer

-----------------------------------------------------------------------------
(* Look-ups and helpers. *)

Assigned(c) == {b \in Bots : bots[b].st = "assigned" /\ bots[b].chan = c}
GetAssignment(c) == IF Assigned(c) = {} THEN None ELSE CHOOSE b \in Assigned(c) : TRUE
InState(st) == {b \in Bots : bots[b].st = st}
BrokerOwns(c) == owner[c] # None
UsesBrokerWhenOwned(c) == BrokerOwns(c)   \* slip: not true after a reboot

UsesBroker(c) == c \in BrokerChannels
Alive(b) == tmux[b] # None
Fresh(c) == [of |-> c, n |-> drawn[c] + 1]
Recovering(b) == \E j \in Jobs : jobs[j].op \in {"recycle", "retire"} /\ jobs[j].bot = b

(* persist: the bots that are not free and the history, unconfirmed ids nulled. *)
Snapshot(bs, h) ==
  [bots |-> [b \in Bots |->
     IF bs[b].st # "free" /\ bs[b].chan # None
     THEN [st |-> bs[b].st, chan |-> bs[b].chan,
           sess |-> IF bs[b].conf THEN bs[b].sess ELSE None]
     ELSE None],
   hist |-> h]
Persist == saved' = Snapshot(bots', history')

(* The gate of stash_session_history: confirmed and still on the disk. *)
Stashed(c, s, conf) ==
  IF s # None /\ c # None /\ conf /\ s \in disk
  THEN [history EXCEPT ![c] = s] ELSE history

Fated(c, m, f) == IF m \in Msgs THEN [fate EXCEPT ![c][m] = f] ELSE fate
FatedAll(c, ms, f) ==
  [fate EXCEPT ![c] = [m \in Msgs |-> IF m \in ms THEN f ELSE @[m]]]
Buffered(c) == {buffer[c][i] : i \in DOMAIN buffer[c]}

-----------------------------------------------------------------------------
(* assign() *)

(* Draining pools refuse, and a broker channel needs a driver message. *)
Admits(c, m) == ~draining /\ (m # 0 \/ ~UsesBroker(c))

(* Nobody serves the channel and no assign of it is in flight. *)
Unclaimed(c) == Assigned(c) = {} /\ asg[c].pc = "idle"

(* The bots assign may take: the parked one of the channel, a free one, any *)
(* parked one, or an assigned one that is idle or waits for its human.      *)
Returning(c) == {b \in InState("parked") : bots[b].chan = c}
ChoicesIgnoreParked(c) ==   \* slip: a parked bot is not looked up first
  IF InState("free") # {} THEN InState("free") ELSE InState("parked") \cup InState("assigned")

Choices(c) ==
  IF Returning(c) # {} THEN Returning(c)
  ELSE IF InState("free") # {} THEN InState("free")
  ELSE IF InState("parked") # {} THEN InState("parked")
  ELSE InState("assigned")

(* The session to resume: of the parked bot, of the history, or a new one. *)
Resolved(c, b) ==
  IF b \in Returning(c) /\ bots[b].sess # None THEN bots[b].sess ELSE history[c]

(* Taking a bot: its last context goes to the history if it served another  *)
(* channel (confirmed ones only, no look at the disk); its session dies.    *)
EvictionStash(c, b) ==
  IF bots[b].chan \notin {None, c} /\ bots[b].sess # None /\ bots[b].conf
  THEN [history EXCEPT ![bots[b].chan] = bots[b].sess] ELSE history
Take(c, b) ==
  /\ history' = EvictionStash(c, b)
  /\ tmux' = [tmux EXCEPT ![b] = None]

(* A call that gets past the locks. Parking the victim has awaits of its    *)
(* own: the bot is parked and killed at once, the rest comes later.         *)
BeginAssign(c, m, b) ==
  LET slot(pc) == [pc |-> pc, bot |-> b, sess |-> Resolved(c, b), msg |-> m] IN
  /\ b \in Choices(c)
  /\ IF bots[b].st = "assigned"
     THEN /\ asg' = [asg EXCEPT ![c] = slot("park")]
          /\ bots' = [bots EXCEPT ![b].st = "parked"]
          /\ tmux' = [tmux EXCEPT ![b] = None]
          /\ UNCHANGED history /\ Persist
     ELSE /\ asg' = [asg EXCEPT ![c] = slot("spawn")]
          /\ Take(c, b)
          /\ UNCHANGED <<bots, saved>>

(* deliver_or_buffer_broker_inbound, after an assign that returned null. *)
DeliverOrBuffer(c, m, assigning) ==
  IF UsesBroker(c) /\ assigning
  THEN buffer' = [buffer EXCEPT ![c] = Append(@, m)] /\ fate' = Fated(c, m, "buffered")
  ELSE /\ fate' = Fated(c, m, IF UsesBroker(c) /\ BrokerOwns(c) THEN "fed" ELSE "refused")
       /\ UNCHANGED buffer

(* The handler of message m calls assign(): draining, an existing session,  *)
(* an assign in flight, no bot at all, or a bot.                            *)
AssignForMessage(c, m) ==
  /\ life # "down"
  /\ \/ fate[c][m] = "held"
     \/ fate[c][m] = "releasing" /\ c \notin rel
  /\ \/ /\ ~Admits(c, m) \/ (Assigned(c) = {} /\ ~Unclaimed(c))
        /\ DeliverOrBuffer(c, m, asg[c].pc # "idle")
        /\ UNCHANGED <<pool, asg>>
     \/ /\ Admits(c, m) /\ Assigned(c) # {}
        /\ fate' = Fated(c, m, "shadowed")
        /\ UNCHANGED <<pool, asg, buffer>>
     \/ /\ Admits(c, m) /\ Unclaimed(c)
        /\ InState("free") \cup InState("parked") = {}    \* everyone is working
        /\ DeliverOrBuffer(c, m, FALSE)
        /\ UNCHANGED <<pool, asg>>
     \/ /\ Admits(c, m) /\ Unclaimed(c)
        /\ \E b \in Bots : BeginAssign(c, m, b)
        /\ fate' = Fated(c, m, "driver")
        /\ UNCHANGED <<inbound, disk, drawn, owner, buffer>>
  /\ UNCHANGED <<rel, jobs, cands, probation, life, draining, crashes, recycles, upsets>>

(* /swap, /room, /resume and the HTTP API: without a message on a plugin    *)
(* channel, with one the daemon writes on a broker channel.                 *)
AssignByCommand(c) ==
  LET m == IF UsesBroker(c) THEN System ELSE 0 IN
  /\ life # "down" /\ Admits(c, m) /\ Unclaimed(c)
  /\ upsets < MaxUpsets
  /\ upsets' = upsets + 1
  /\ \E b \in Bots : BeginAssign(c, m, b)
  /\ UNCHANGED <<inbound, disk, drawn, owner, rel, buffer, jobs, cands, probation,
                 fate, life, draining, crashes, recycles>>

(* park_bot has returned: the victim is taken as it is now. *)
AssignParked(c) ==
  /\ asg[c].pc = "park"
  /\ Take(c, asg[c].bot)
  /\ asg' = [asg EXCEPT ![c].pc = "spawn"]
  /\ UNCHANGED <<bots, inbound, disk, saved, drawn, owner, rel, buffer, jobs, cands,
                 probation, fate, life, draining, crashes, recycles, upsets>>

UnlockKeepsBuffer(c, f) ==   \* slip: the buffer outlives the assign
  asg' = [asg EXCEPT ![c] = NoAssign] /\ fate' = f /\ UNCHANGED buffer

(* The end of assign, whatever happened: the lock is dropped and what is    *)
(* still in the buffer of the channel is discarded.                         *)
Unlock(c, f) ==
  /\ asg' = [asg EXCEPT ![c] = NoAssign]
  /\ buffer' = [buffer EXCEPT ![c] = <<>>]
  /\ fate' = [f EXCEPT ![c] = [m \in Msgs |->
                IF m \in Buffered(c) /\ @[m] = "buffered" THEN "discarded" ELSE @[m]]]

(* The bot becomes the channel's; the history entry is used up. *)
Commit(c, b, s, conf) ==
  /\ bots' = [bots EXCEPT ![b] =
                [st |-> "assigned", chan |-> c, sess |-> s, conf |-> conf]]
  /\ history' = [history EXCEPT ![c] = None]
  /\ Persist

(* prepare_broker_session registers the owner, or fails and leaves the      *)
(* session to the plugin.                                                   *)
Prepare(c, b) ==
  owner' \in {owner} \cup (IF UsesBroker(c) THEN {[owner EXCEPT ![c] = b]} ELSE {})

(* tmux new-session -s pool-N fails when the name is taken. *)
Spawn(b, c, s, driven) ==
  /\ ~Alive(b)
  /\ tmux' = [tmux EXCEPT ![b] = [chan |-> c, sess |-> s, driven |-> driven]]

(* The spawn of assign succeeds. A session the broker owns awaits the       *)
(* unlink of the pending file; any other takes the bot in the same turn.    *)
AssignSpawned(c) ==
  LET a == asg[c]
      s == IF a.sess # None THEN a.sess ELSE Fresh(c)
  IN
  /\ a.pc = "spawn"
  /\ s \in Sessions
  /\ Prepare(c, a.bot)
  /\ Spawn(a.bot, c, s, a.msg # 0)
  /\ drawn' = [drawn EXCEPT ![c] = IF a.sess # None THEN @ ELSE @ + 1]
  /\ IF a.msg # 0 /\ owner'[c] # None
     THEN /\ asg' = [asg EXCEPT ![c].pc = "feed"]
          /\ UNCHANGED <<bots, history, saved, buffer, fate>>
     ELSE /\ Commit(c, a.bot, s, a.sess # None)
          /\ Unlock(c, Fated(c, a.msg, "filed"))
  /\ UNCHANGED <<inbound, disk, rel, jobs, cands, probation, life, draining, crashes,
                 recycles, upsets>>

(* Then message #1 and the buffered burst go to the broker, which ignores   *)
(* them when the owner has gone meanwhile.                                  *)
AssignFed(c) ==
  LET a == asg[c]
      f == IF BrokerOwns(c) THEN "fed" ELSE "discarded"
      s == IF a.sess # None THEN a.sess ELSE [of |-> c, n |-> drawn[c]]
  IN
  /\ a.pc = "feed"
  /\ Commit(c, a.bot, s, a.sess # None)
  /\ Unlock(c, FatedAll(c, Buffered(c) \cup ({a.msg} \cap Msgs), f))
  /\ UNCHANGED <<tmux, inbound, disk, drawn, owner, rel, jobs, cands, probation, life,
                 draining, crashes, recycles, upsets>>

(* start_tmux throws: the name is taken, or claude does not come up. The    *)
(* broker keeps the owner that was registered for it.                       *)
AssignFailed(c) ==
  /\ asg[c].pc = "spawn"
  /\ Prepare(c, asg[c].bot)
  /\ Unlock(c, Fated(c, asg[c].msg, "refused"))
  /\ UNCHANGED <<bots, tmux, inbound, history, disk, saved, drawn, rel, jobs, cands,
                 probation, life, draining, crashes, recycles, upsets>>

-----------------------------------------------------------------------------
(* release() *)

(* What release does at once, for the bot assigned to c, unless another     *)
(* release of c is at its awaits.                                           *)
Releasable(c) == Assigned(c) # {} /\ c \notin rel
ReleaseNow(c) ==
  IF Releasable(c)
  THEN LET b == GetAssignment(c) IN
       /\ tmux' = [tmux EXCEPT ![b] = None]
       /\ bots' = [bots EXCEPT ![b] = FreeBot]
       /\ rel' = rel \cup {c}
  ELSE UNCHANGED <<tmux, bots, rel>>

(* ... and after access.json is written: the broker forgets the channel. *)
ReleaseEnds(c) ==
  /\ c \in rel
  /\ rel' = rel \ {c}
  /\ owner' = [owner EXCEPT ![c] = None]
  /\ UNCHANGED <<bots, history>> /\ Persist
  /\ UNCHANGED <<tmux, inbound, disk, drawn, asg, buffer, jobs, cands, probation, fate,
                 life, draining, crashes, recycles, upsets>>

(* /swap, /close and the HTTP API release; /reset forgets the context first. *)
ReleaseByCommand(c) ==
  /\ life # "down" /\ Releasable(c) /\ upsets < MaxUpsets
  /\ upsets' = upsets + 1
  /\ history' \in {history, [history EXCEPT ![c] = None]}
  /\ ReleaseNow(c)
  /\ UNCHANGED <<inbound, disk, saved, drawn, owner, asg, buffer, jobs, cands, probation,
                 fate, life, draining, crashes, recycles>>

(* release_with_history: whatever session id the bot has is kept. *)
WithHistory(b) ==
  IF bots[b].sess # None /\ bots[b].chan # None
  THEN [history EXCEPT ![bots[b].chan] = bots[b].sess] ELSE history

-----------------------------------------------------------------------------
(* The Discord front end *)

(* handle_message: a live session gets the message (through the broker, or  *)
(* its own plugin); a dead one, or one with an expired login, is released   *)
(* with its context; without a session the handler reacts, then assigns.    *)
HandleMessage(c, m) ==
  LET b == GetAssignment(c) IN
  /\ life # "down" /\ fate[c][m] = "new" /\ \A k \in 1 .. m - 1 : fate[c][k] # "new"
  /\ \/ /\ b # None /\ Alive(b)
        /\ inbound' = inbound \cup {b}
        /\ fate' = Fated(c, m, IF BrokerOwns(c) THEN "fed" ELSE "seen")
        /\ UNCHANGED <<bots, tmux, history, rel>>
     \/ /\ b # None /\ ~Alive(b)
        /\ history' = WithHistory(b) /\ ReleaseNow(c)
        /\ fate' = Fated(c, m, IF Releasable(c) THEN "releasing" ELSE "held")
        /\ UNCHANGED inbound
     \/ /\ b = None
        /\ fate' = Fated(c, m, "held")
        /\ UNCHANGED <<bots, tmux, history, rel, inbound>>
  /\ UNCHANGED <<disk, saved, drawn, owner, asg, buffer, jobs, cands, probation, life,
                 draining, crashes, recycles, upsets>>

(* The typing loop finds a stale login: the session is killed and the bot   *)
(* released with its context.                                               *)
StaleLogin(c) ==
  LET b == GetAssignment(c) IN
  /\ life # "down" /\ b # None /\ Alive(b) /\ upsets < MaxUpsets
  /\ upsets' = upsets + 1
  /\ history' = WithHistory(b)
  /\ IF Releasable(c) THEN ReleaseNow(c)
     ELSE tmux' = [tmux EXCEPT ![b] = None] /\ UNCHANGED <<bots, rel>>
  /\ UNCHANGED <<inbound, disk, saved, drawn, owner, asg, buffer, jobs, cands, probation,
                 fate, life, draining, crashes, recycles>>

-----------------------------------------------------------------------------
(* Sessions: they die, write their first turn, and are confirmed. *)

SessionDies(b) ==
  /\ Alive(b) /\ upsets < MaxUpsets
  /\ upsets' = upsets + 1
  /\ tmux' = [tmux EXCEPT ![b] = None]
  /\ UNCHANGED <<bots, inbound, history, disk, saved, drawn, owner, proc, fate, life,
                 draining, crashes, recycles>>

WriteTranscript(b) ==
  /\ Alive(b) /\ tmux[b].sess \notin disk
  /\ disk' = disk \cup {tmux[b].sess}
  /\ UNCHANGED <<bots, tmux, inbound, history, saved, drawn, owner, proc, fate, life,
                 draining, crashes, recycles, upsets>>

(* watch_session_confirmation: polls for the transcript of the session the  *)
(* bot has; it may give up, so this need not happen.                        *)
ConfirmSession(b) ==
  /\ life # "down"
  /\ bots[b].st = "assigned" /\ bots[b].sess \in disk /\ ~bots[b].conf
  /\ bots' = [bots EXCEPT ![b].conf = TRUE]
  /\ UNCHANGED history /\ Persist
  /\ UNCHANGED <<tmux, inbound, disk, drawn, owner, proc, fate, life, draining, crashes,
                 recycles, upsets>>

-----------------------------------------------------------------------------
(* Maintenance. A job captures the fields of its bot when it starts.        *)

Captured(op, pc, b, s) ==
  [op |-> op, pc |-> pc, bot |-> b, chan |-> bots[b].chan, sess |-> s,
   conf |-> bots[b].conf]

(* release_broker_to_dark: signal, stash (await), kill and free whatever    *)
(* the bot is by then, access.json (await), drop the ownership only.        *)
BeginDark(j, b, s) == jobs' = [jobs EXCEPT ![j] = Captured("dark", "stash", b, s)]

DarkFree(j) ==
  LET k == jobs[j] IN
  /\ k.op = "dark" /\ k.pc = "stash"
  /\ history' = Stashed(k.chan, k.sess, k.conf)
  /\ tmux' = [tmux EXCEPT ![k.bot] = None]
  /\ bots' = [bots EXCEPT ![k.bot] = FreeBot]
  /\ jobs' = [jobs EXCEPT ![j].pc = "tail"]
  /\ UNCHANGED <<inbound, disk, saved, drawn, owner, asg, rel, buffer, cands, probation,
                 fate, life, draining, crashes, recycles, upsets>>

DarkEnds(j) ==
  LET k == jobs[j] IN
  /\ k.op = "dark" /\ k.pc = "tail"
  /\ owner' = IF k.chan = None THEN owner ELSE [owner EXCEPT ![k.chan] = None]
  /\ UNCHANGED <<bots, history>> /\ Persist
  /\ jobs' = [jobs EXCEPT ![j] = NoJob]
  /\ UNCHANGED <<tmux, inbound, disk, drawn, asg, rel, buffer, cands, probation, fate,
                 life, draining, crashes, recycles, upsets>>

(* restart_crashed_session: without entity the bot is freed on the spot.    *)
(* Else it looks for the transcript (await), prepares (awaits) and spawns.  *)
BeginRestart(j, b) ==
  IF bots[b].chan = None
  THEN /\ bots' = [bots EXCEPT ![b] = [FreeBot EXCEPT !.conf = bots[b].conf]]
       /\ UNCHANGED <<history, jobs>> /\ Persist
  ELSE /\ jobs' = [jobs EXCEPT ![j] = Captured("restart", "spawn", b, bots[b].sess)]
       /\ UNCHANGED <<bots, history, saved>>

RestartSpawned(j) ==
  LET k == jobs[j]
      resume == k.sess # None /\ k.sess \in disk
      s == IF resume THEN k.sess ELSE Fresh(k.chan)
  IN
  /\ k.op = "restart" /\ k.pc = "spawn"
  /\ s \in Sessions
  /\ Spawn(k.bot, k.chan, s, FALSE)
  /\ drawn' = [drawn EXCEPT ![k.chan] = IF resume THEN @ ELSE @ + 1]
  /\ bots' = [bots EXCEPT ![k.bot].sess = s, ![k.bot].conf = resume]
  /\ UNCHANGED history /\ Persist
  /\ jobs' = [jobs EXCEPT ![j] = NoJob]
  /\ UNCHANGED <<inbound, disk, owner, asg, rel, buffer, cands, probation, fate, life,
                 draining, crashes, recycles, upsets>>

RestartFailed(j) ==
  /\ jobs[j].op = "restart" /\ jobs[j].pc = "spawn"
  /\ jobs' = [jobs EXCEPT ![j].pc = "giveup", ![j].conf = bots[jobs[j].bot].conf]
  /\ UNCHANGED <<pool, asg, rel, buffer, cands, probation, fate, life, draining, crashes,
                 recycles, upsets>>

(* After the stash the bot is freed; nothing is killed on this path. *)
RestartGivesUp(j) ==
  LET k == jobs[j] IN
  /\ k.op = "restart" /\ k.pc = "giveup"
  /\ history' = Stashed(k.chan, k.sess, k.conf)
  /\ bots' = [bots EXCEPT ![k.bot] = [FreeBot EXCEPT !.conf = bots[k.bot].conf]]
  /\ Persist
  /\ jobs' = [jobs EXCEPT ![j] = NoJob]
  /\ UNCHANGED <<tmux, inbound, disk, drawn, owner, asg, rel, buffer, cands, probation,
                 fate, life, draining, crashes, recycles, upsets>>

(* recycle_deaf_bot: stash and release; assign again with a daemon message  *)
(* unless the channel has spent its recycles. handle_crash_loop is the same *)
(* without the assign.                                                      *)
BeginRecycle(j, b) ==
  LET c == bots[b].chan IN
  /\ ~Recovering(b)
  /\ inbound' = inbound \ {b}
  /\ probation' = {p \in probation : p.bot # b}
  /\ IF recycles[c] >= RecycleLimit
     THEN /\ jobs' = [jobs EXCEPT ![j] = Captured("retire", "stash", b, bots[b].sess)]
          /\ UNCHANGED recycles
     ELSE /\ jobs' = [jobs EXCEPT ![j] = Captured("recycle", "stash", b, bots[b].sess)]
          /\ recycles' = [recycles EXCEPT ![c] = @ + 1]

BeginRetire(j, b) ==
  jobs' = [jobs EXCEPT ![j] = Captured("retire", "stash", b, bots[b].sess)]

RecycleReleases(j) ==
  LET k == jobs[j] IN
  /\ k.op \in {"recycle", "retire"} /\ k.pc = "stash"
  /\ history' = Stashed(k.chan, k.sess, k.conf)
  /\ ReleaseNow(k.chan)
  /\ jobs' = [jobs EXCEPT ![j].pc = IF Releasable(k.chan) THEN "wait" ELSE "assign"]
  /\ UNCHANGED <<inbound, disk, saved, drawn, owner, asg, buffer, cands, probation, fate,
                 life, draining, crashes, recycles, upsets>>

(* The release is over: the recycle assigns; it is dark when assign refuses *)
(* or another call has the lock.                                            *)
RecycleAssigns(j) ==
  LET k == jobs[j] IN
  /\ k.op \in {"recycle", "retire"}
  /\ k.pc = "assign" \/ (k.pc = "wait" /\ k.chan \notin rel)
  /\ IF k.op = "recycle" /\ Admits(k.chan, System) /\ Unclaimed(k.chan)
     THEN /\ \E b \in Bots : BeginAssign(k.chan, System, b)
          /\ jobs' = [jobs EXCEPT ![j].pc = "assigned"]
     ELSE /\ jobs' = [jobs EXCEPT ![j] = NoJob]
          /\ UNCHANGED <<bots, tmux, history, saved, asg>>
  /\ UNCHANGED <<inbound, disk, drawn, owner, rel, buffer, cands, probation, fate, life,
                 draining, crashes, recycles, upsets>>

(* ... and a recycled bot is watched like one that got a message. *)
RecycleEnds(j) ==
  LET k == jobs[j]
      b == GetAssignment(k.chan)
  IN
  /\ k.op = "recycle" /\ k.pc = "assigned" /\ asg[k.chan].pc = "idle"
  /\ inbound' = IF b = None THEN inbound ELSE inbound \cup {b}
  /\ jobs' = [jobs EXCEPT ![j] = NoJob]
  /\ UNCHANGED <<bots, tmux, history, disk, saved, drawn, owner, asg, rel, buffer, cands,
                 probation, fate, life, draining, crashes, recycles, upsets>>

(* The health tick at one bot. A dead session of a broker channel goes      *)
(* dark; a dead plugin session is restarted until it crashes too often.     *)
TickDead(b) ==
  /\ jobs["tick"] = NoJob /\ life # "down" /\ ~draining
  /\ bots[b].st = "assigned" /\ ~Alive(b)
  /\ \/ /\ bots[b].chan # None /\ UsesBroker(bots[b].chan)
        /\ BeginDark("tick", b, bots[b].sess)
        /\ UNCHANGED <<bots, history, saved, crashes>>
     \/ /\ bots[b].chan = None \/ ~UsesBroker(bots[b].chan)
        /\ crashes' = [crashes EXCEPT ![b] = IF @ > CrashLimit THEN @ ELSE @ + 1]
        /\ IF crashes'[b] > CrashLimit /\ bots[b].chan # None
           THEN BeginRetire("tick", b) /\ UNCHANGED <<bots, history, saved>>
           ELSE BeginRestart("tick", b)
  /\ UNCHANGED <<tmux, inbound, disk, drawn, owner, asg, rel, buffer, cands, probation,
                 fate, life, draining, recycles, upsets>>

Armed(b) == b \in inbound /\ ~Recovering(b) /\ ~BrokerOwns(bots[b].chan)

(* check_plugin_liveness: an armed plugin session past its warm-up shows    *)
(* signs of work (the marker is cleared) or is deaf.                        *)
TickProbe(b) ==
  /\ jobs["tick"] = NoJob /\ life # "down" /\ ~draining
  /\ bots[b].st = "assigned" /\ Alive(b) /\ bots[b].chan # None
  /\ Armed(b)
  /\ \/ inbound' = inbound \ {b} /\ UNCHANGED <<jobs, probation, recycles>>
     \/ BeginRecycle("tick", b)
  /\ UNCHANGED <<bots, tmux, history, disk, saved, drawn, owner, asg, rel, buffer, cands,
                 fate, life, draining, crashes, upsets>>

(* heal_dead_letter: the broker gave up on a message of the channel. *)
HealDeadLetter(c) ==
  LET b == GetAssignment(c) IN
  /\ jobs["letter"] = NoJob /\ life # "down" /\ UsesBroker(c) /\ b # None
  /\ upsets < MaxUpsets
  /\ upsets' = upsets + 1
  /\ BeginDark("letter", b, bots[b].sess)
  /\ UNCHANGED <<pool, asg, rel, buffer, cands, probation, fate, life, draining, crashes,
                 recycles>>

-----------------------------------------------------------------------------
(* Start-up: initialize, resume_parked_bots, reconcile_assigned_health,     *)
(* heal_post_restart.                                                       *)

(* What initialize makes of a bot: its saved entry, with the session id     *)
(* dropped when the transcript is gone; assigned if its session survived.   *)
(* A live session without a channel is killed. (Two entries never name one  *)
(* channel, see OneBotPerChannel, so the check for duplicates is left out.) *)
Restored(b) ==
  LET e == saved.bots[b]
      s == IF e.sess \in disk THEN e.sess ELSE None
  IN IF e = None THEN FreeBot
     ELSE [st |-> IF Alive(b) THEN "assigned" ELSE "parked",
           chan |-> e.chan, sess |-> s, conf |-> s # None]
RestoredHistory ==
  [c \in Channels |-> IF saved.hist[c] \in disk THEN saved.hist[c] ELSE None]
Candidates ==
  {b \in Bots : saved.bots[b] # None /\ saved.bots[b].st = "assigned" /\ saved.bots[b].sess \in disk}

Initialize ==
  /\ life = "down"
  /\ bots' = [b \in Bots |-> Restored(b)]
  /\ tmux' = [b \in Bots |-> IF saved.bots[b] = None THEN None ELSE tmux[b]]
  /\ history' = RestoredHistory
  /\ Persist
  /\ cands' = {[bot |-> b, chan |-> saved.bots[b].chan, sess |-> saved.bots[b].sess] :
                 b \in Candidates}
  /\ life' = "resume"
  /\ UNCHANGED <<inbound, disk, drawn, owner, asg, rel, buffer, jobs, probation, fate,
                 draining, crashes, recycles, upsets>>

(* One resume candidate: skipped if its bot went elsewhere meanwhile, dark  *)
(* on a broker channel, else its stale session is killed for a new one.     *)
ResumeBegins(x) ==
  LET b == x.bot IN
  /\ life = "resume" /\ jobs["boot"] = NoJob /\ x \in cands
  /\ cands' = cands \ {x}
  /\ IF bots[b].st = "free" \/ bots[b].chan # x.chan
     THEN UNCHANGED <<tmux, jobs>>
     ELSE IF UsesBroker(x.chan)
     THEN BeginDark("boot", b, x.sess) /\ UNCHANGED tmux
     ELSE /\ tmux' = [tmux EXCEPT ![b] = None]
          /\ jobs' = [jobs EXCEPT !["boot"] =
                        [op |-> "resume", pc |-> "spawn", bot |-> b, chan |-> x.chan,
                         sess |-> x.sess, conf |-> TRUE]]
  /\ UNCHANGED <<bots, inbound, history, disk, saved, drawn, owner, asg, rel, buffer,
                 probation, fate, life, draining, crashes, recycles, upsets>>

ResumeSpawned ==
  LET k == jobs["boot"] IN
  /\ k.op = "resume"
  /\ Spawn(k.bot, k.chan, k.sess, FALSE)
  /\ bots' = [bots EXCEPT ![k.bot] = [@ EXCEPT !.st = "assigned", !.sess = k.sess, !.conf = TRUE]]
  /\ inbound' = inbound \cup {k.bot}
  /\ probation' = {p \in probation : p.bot # k.bot}
                    \cup {[bot |-> k.bot, chan |-> k.chan, sess |-> k.sess]}
  /\ jobs' = [jobs EXCEPT !["boot"] = NoJob]
  /\ UNCHANGED <<history, disk, saved, drawn, owner, asg, rel, buffer, cands, fate, life,
                 draining, crashes, recycles, upsets>>

(* A resume that fails leaves the bot as it is, assigned ones without a session. *)
ResumeFailed ==
  /\ jobs["boot"].op = "resume"
  /\ jobs' = [jobs EXCEPT !["boot"] = NoJob]
  /\ UNCHANGED <<pool, asg, rel, buffer, cands, probation, fate, life, draining, crashes,
                 recycles, upsets>>

(* All candidates had their turn: the dead among the assigned are listed... *)
ReconcileBegins ==
  /\ life = "resume" /\ jobs["boot"] = NoJob /\ cands = {}
  /\ life' = "reconcile"
  /\ cands' = {[bot |-> b, chan |-> None, sess |-> None] :
                 b \in {d \in Bots : bots[d].st = "assigned" /\ bots[d].chan # None /\ ~Alive(d)}}
  /\ UNCHANGED <<bots, history>> /\ Persist
  /\ UNCHANGED <<tmux, inbound, disk, drawn, owner, asg, rel, buffer, jobs, probation,
                 fate, draining, crashes, recycles, upsets>>

(* ... and each is repaired as it is when its turn comes. *)
ReconcileOne(x) ==
  LET b == x.bot IN
  /\ life = "reconcile" /\ jobs["boot"] = NoJob /\ x \in cands
  /\ cands' = cands \ {x}
  /\ IF bots[b].chan # None /\ UsesBroker(bots[b].chan)
     THEN BeginDark("boot", b, bots[b].sess) /\ UNCHANGED <<bots, history, saved>>
     ELSE BeginRestart("boot", b)
  /\ UNCHANGED <<tmux, inbound, disk, drawn, owner, asg, rel, buffer, probation, fate,
                 life, draining, crashes, recycles, upsets>>

BootEnds ==
  /\ life = "reconcile" /\ jobs["boot"] = NoJob /\ cands = {}
  /\ life' = "up"
  /\ UNCHANGED <<pool, asg, rel, buffer, jobs, cands, probation, fate, draining, crashes,
                 recycles, upsets>>

(* heal_post_restart, at one entry: skipped when the assignment changed or  *)
(* the session shows any sign of life, else the bot is recycled.            *)
HealPostRestart(p) ==
  LET b == p.bot IN
  /\ life = "up" /\ ~draining /\ jobs["boot"] = NoJob /\ p \in probation
  /\ \/ /\ probation' = probation \ {p}
        /\ inbound' \in {inbound, inbound \ {b}}
        /\ UNCHANGED <<jobs, recycles>>
     \/ /\ bots[b].st = "assigned" /\ bots[b].chan = p.chan /\ bots[b].sess = p.sess
        /\ Alive(b)
        /\ BeginRecycle("boot", b)
  /\ UNCHANGED <<bots, tmux, history, disk, saved, drawn, owner, asg, rel, buffer, cands,
                 fate, life, draining, crashes, upsets>>

-----------------------------------------------------------------------------
(* Stop: drain() at the signal; then the pool is saved and the sessions of  *)
(* the assigned bots are killed. A crash leaves the sessions running.       *)

Forget ==
  /\ asg' = [c \in Channels |-> NoAssign] /\ rel' = {} /\ cands' = {} /\ probation' = {}
  /\ buffer' = [c \in Channels |-> <<>>] /\ jobs' = [j \in Jobs |-> NoJob]
  /\ owner' = [c \in Channels |-> None] /\ inbound' = {}
  /\ bots' = [b \in Bots |-> FreeBot] /\ history' = [c \in Channels |-> None]
  /\ crashes' = [b \in Bots |-> 0] /\ recycles' = [c \in Channels |-> 0]
  /\ fate' = [c \in Channels |-> [m \in Msgs |->
                IF fate[c][m] \in {"held", "releasing", "driver", "buffered"}
                THEN "refused" ELSE fate[c][m]]]
  /\ life' = "down" /\ draining' = FALSE

Drain ==
  /\ life # "down" /\ ~draining /\ upsets < MaxUpsets
  /\ draining' = TRUE
  /\ upsets' = upsets + 1
  /\ UNCHANGED <<pool, proc, fate, life, crashes, recycles>>

Shutdown ==
  /\ life # "down" /\ draining
  /\ saved' = Snapshot(bots, history)
  /\ tmux' = [b \in Bots |-> IF bots[b].st = "assigned" THEN None ELSE tmux[b]]
  /\ Forget
  /\ UNCHANGED <<disk, drawn, upsets>>

Crash ==
  /\ life # "down" /\ upsets < MaxUpsets
  /\ upsets' = upsets + 1
  /\ Forget
  /\ UNCHANGED <<tmux, saved, disk, drawn>>

-----------------------------------------------------------------------------
Init ==
  /\ bots = [b \in Bots |-> FreeBot] /\ tmux = [b \in Bots |-> None]
  /\ inbound = {} /\ disk = {}
  /\ history = [c \in Channels |-> None] /\ owner = [c \in Channels |-> None]
  /\ drawn = [c \in Channels |-> 0]
  /\ saved = [bots |-> [b \in Bots |-> None], hist |-> [c \in Channels |-> None]]
  /\ asg = [c \in Channels |-> NoAssign] /\ rel = {}
  /\ buffer = [c \in Channels |-> <<>>] /\ jobs = [j \in Jobs |-> NoJob]
  /\ cands = {} /\ probation = {}
  /\ fate = [c \in Channels |-> [m \in Msgs |-> "new"]]
  /\ life = "up" /\ draining = FALSE
  /\ crashes = [b \in Bots |-> 0] /\ recycles = [c \in Channels |-> 0]
  /\ upsets = 0

AssignSteps(c) ==
  \/ AssignParked(c) \/ AssignSpawned(c) \/ AssignFed(c)
  \/ AssignFailed(c) \/ ReleaseEnds(c)
JobSteps(j) ==
  \/ DarkFree(j) \/ DarkEnds(j) \/ RestartSpawned(j) \/ RestartFailed(j)
  \/ RestartGivesUp(j) \/ RecycleReleases(j) \/ RecycleAssigns(j) \/ RecycleEnds(j)
Maintenance ==
  \/ \E b \in Bots : TickDead(b) \/ TickProbe(b)
  \/ \E c \in Channels : HealDeadLetter(c)
  \/ \E x \in cands : ResumeBegins(x) \/ ReconcileOne(x)
  \/ ResumeSpawned \/ ResumeFailed \/ ReconcileBegins \/ BootEnds
  \/ \E p \in probation : HealPostRestart(p)
World ==
  \/ \E c \in Channels, m \in Msgs : HandleMessage(c, m) \/ AssignForMessage(c, m)
  \/ \E c \in Channels : AssignByCommand(c) \/ ReleaseByCommand(c) \/ StaleLogin(c)
  \/ \E b \in Bots : SessionDies(b) \/ WriteTranscript(b) \/ ConfirmSession(b)
  \/ Drain \/ Shutdown \/ Crash \/ Initialize

Next ==
  \/ \E c \in Channels : AssignSteps(c)
  \/ \E j \in Jobs : JobSteps(j)
  \/ Maintenance
  \/ World

Spec == Init /\ [][Next]_vars
-----------------------------------------------------------------------------
(* Properties *)

TypeOK ==
  /\ \A b \in Bots :
       /\ bots[b].st \in {"free", "assigned", "parked"} /\ bots[b].conf \in BOOLEAN
       /\ bots[b].chan \in Channels \cup {None} /\ bots[b].sess \in Sessions \cup {None}
       /\ tmux[b] \in {None} \cup [chan : Channels, sess : Sessions, driven : BOOLEAN]
  /\ inbound \subseteq Bots /\ disk \subseteq Sessions /\ rel \subseteq Channels
  /\ \A c \in Channels :
       /\ history[c] \in Sessions \cup {None} /\ owner[c] \in Bots \cup {None}
       /\ asg[c].pc \in {"idle", "park", "spawn", "feed"} /\ asg[c].bot \in Bots \cup {None}
       /\ buffer[c] \in Seq(Msgs) /\ drawn[c] \in 0 .. MaxSessions
       /\ \A m \in Msgs : fate[c][m] \in Fates
  /\ \A j \in Jobs : jobs[j].op \in {"idle", "dark", "restart", "recycle", "retire", "resume"}
  /\ life \in {"up", "resume", "reconcile", "down"}

(* The pool types, and no channel is held by two bots, assigned or parked,   *)
(* however assigns, releases, evictions, repairs and reboots interleave:     *)
(* get_assignment and the parked look-up of assign rely on it.               *)
OneBotPerChannel ==
  /\ TypeOK
  /\ \A b, d \in Bots : bots[b].st # "free" /\ bots[d].st # "free"
                          /\ bots[b].chan = bots[d].chan /\ bots[b].chan # None => b = d

(* Every live session of a broker channel was created for a message that     *)
(* drives its first turn: no repair, resume or recycle makes an idle one.    *)
BrokerSessionsAreDriven ==
  \A b \in Bots : Alive(b) /\ tmux[b].chan \in BrokerChannels => tmux[b].driven

(* Nothing waits in the cold-start buffer of a channel that no assign is     *)
(* working on: every way out of assign empties it.                           *)
BufferIsTransient == \A c \in Channels : buffer[c] # <<>> => asg[c].pc # "idle"

(* A broker message whose author saw the "received" mark is not dropped: not *)
(* left behind because the session appeared while its handler awaited the    *)
(* reaction, and not thrown away with the cold-start buffer.                 *)
NoDroppedInbound ==
  \A c \in BrokerChannels, m \in Msgs : fate[c][m] \notin {"shadowed", "discarded"}

=============================================================================
