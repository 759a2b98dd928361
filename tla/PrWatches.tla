------------------------------- MODULE PrWatches -------------------------------
(* PR watches (pr-watches.ts, notify_pr_watcher of webhook-handler.ts) and the    *)
(* injection of their notifications into a bot's tmux session (pool.ts). The      *)
(* whole set of watches is saved at each change, without a queue, and a save or   *)
(* the load at the start may fail; notifications                                  *)
(* for a session that is not at its prompt wait, by tmux name, for the next       *)
(* health cycle. One bot, which the pool may hand to another channel.             *)
(* Abstracted: the API request, message texts, the retries of Enter (typed or     *)
(* not confirmed), pending files.                                                 *)
EXTENDS Naturals, Sequences

CONSTANTS
  Prs,       \* pull requests
  Channels,  \* channels that watch, the bot's first one among them
  Calls,     \* webhook handlers in flight
  Nobody,    \* no channel
  MaxTurns   \* watches added and moves of the session

VARIABLES
  watches,     \* the store in memory: the watching channel of each PR
  watchFile,   \* pr-watches.json
  watchSaves,  \* states being written
  notes,       \* notify_pr_watcher calls
  pane2,       \* the bot's tmux session: owner, prompt, busy or dead
  injections,  \* pending_injections of the session
  drain,       \* the health cycle typing them: idle or typing
  watchDone    \* turns, store and file apart, hand-overs nobody saw, typed wrongly

watchVars == <<watches, watchFile, watchSaves, notes, pane2, injections, drain, watchDone>>

NoNote == [pc |-> "idle", pr |-> CHOOSE p \in Prs : TRUE, final |-> FALSE]

Init ==
  /\ watches = [p \in Prs |-> Nobody] /\ watchFile = watches /\ watchSaves = {}
  /\ notes = [k \in Calls |-> NoNote]
  /\ \E c \in Channels : pane2 = [owner |-> c, at |-> "prompt"]
  /\ injections = <<>> /\ drain = "idle"
  /\ watchDone = [turns |-> 0, stale |-> FALSE, deadSeen |-> FALSE, moved |-> FALSE, wrong |-> FALSE]

Turn == watchDone.turns < MaxTurns
Turned(d) == watchDone' = [d EXCEPT !.turns = @ + 1]
\* A change written while another write is under way may be overwritten by it.
Overlapping == [watchDone EXCEPT !.stale = watchSaves # {}]

-----------------------------------------------------------------------------
(* PRWatchStore *)

(* persist: the set as it is now goes to disk in its own time.                    *)
Persists(w) == watchSaves' = watchSaves \cup {w}

Changed(w, d) == /\ watches' = w
                 /\ Persists(w)
                 /\ watchDone' = d

Add(p, c) ==
  /\ Turn
  /\ Changed([watches EXCEPT ![p] = c], [Overlapping EXCEPT !.turns = @ + 1])
  /\ UNCHANGED <<watchFile, notes, pane2, injections, drain>>

(* cleanup_expired *)
Expire ==
  /\ \E S \in SUBSET {p \in Prs : watches[p] # Nobody} :
       S # {} /\ Changed([p \in Prs |-> IF p \in S THEN Nobody ELSE watches[p]], Overlapping)
  /\ UNCHANGED <<watchFile, notes, pane2, injections, drain>>

Saved(w) ==
  /\ w \in watchSaves
  /\ watchFile' = w /\ watchSaves' = watchSaves \ {w}
  /\ UNCHANGED <<watches, notes, pane2, injections, drain, watchDone>>

(* write_json_atomic throws: the change stays in the store and misses the file.   *)
SaveFails(w) ==
  /\ w \in watchSaves
  /\ watchSaves' = watchSaves \ {w}
  /\ watchDone' = [watchDone EXCEPT !.stale = TRUE]
  /\ UNCHANGED <<watches, watchFile, notes, pane2, injections, drain>>

-----------------------------------------------------------------------------
(* The tmux session, as the pool and its user drive it. *)

SessionTurns ==
  /\ pane2.at # "dead"
  /\ pane2' = [pane2 EXCEPT !.at = IF @ = "prompt" THEN "busy" ELSE "prompt"]
  /\ UNCHANGED <<watches, watchFile, watchSaves, notes, injections, drain, watchDone>>

(* Released or evicted, the bot loses its session and its channel ...             *)
SessionEnds ==
  /\ pane2.at # "dead"
  /\ pane2' = [owner |-> Nobody, at |-> "dead"]
  /\ watchDone' = [watchDone EXCEPT !.deadSeen = FALSE]
  /\ UNCHANGED <<watches, watchFile, watchSaves, notes, injections, drain>>

(* ... and gets a session of the same name for another one.                       *)
SessionStarts(c) ==
  /\ Turn /\ pane2.at = "dead"
  /\ pane2' = [owner |-> c, at |-> "prompt"]
  /\ Turned([watchDone EXCEPT !.moved = @ \/ (injections # <<>> /\ (~watchDone.deadSeen \/ drain = "typing"))])
  /\ UNCHANGED <<watches, watchFile, watchSaves, notes, injections, drain>>

-----------------------------------------------------------------------------
(* notify_pr_watcher *)

Typed(c) == [watchDone EXCEPT !.wrong = @ \/ (pane2.at # "dead" /\ pane2.owner # c)]

(* Only a watch whose channel has the bot is injected; at the prompt it is typed, *)
(* else queued; a watch without a bot is removed.                                 *)
Notify(k, p) ==
  /\ notes[k].pc = "idle" /\ watches[p] # Nobody
  /\ \E final \in BOOLEAN :
       IF pane2.owner = watches[p]
       THEN /\ notes' = [notes EXCEPT ![k] = [pc |-> "inject", pr |-> p, final |-> final]]
            /\ IF pane2.at = "prompt"
               THEN watchDone' = Typed(watches[p]) /\ UNCHANGED injections
               ELSE injections' = Append(injections, watches[p]) /\ UNCHANGED watchDone
       ELSE /\ notes' = [notes EXCEPT ![k] = [pc |-> "inject", pr |-> p, final |-> TRUE]]
            /\ UNCHANGED <<injections, watchDone>>
  /\ Len(injections) < 2
  /\ UNCHANGED <<watches, watchFile, watchSaves, pane2, drain>>

(* After the injection a final event removes the watch of that moment.            *)
Notified(k) ==
  /\ notes[k].pc = "inject"
  /\ notes' = [notes EXCEPT ![k] = NoNote]
  /\ IF notes[k].final /\ watches[notes[k].pr] # Nobody
     THEN Changed([watches EXCEPT ![notes[k].pr] = Nobody], Overlapping)
     ELSE UNCHANGED <<watches, watchSaves, watchDone>>
  /\ UNCHANGED <<watchFile, pane2, injections, drain>>

-----------------------------------------------------------------------------
(* drain_pending_injections, in each health cycle *)

KeptQueue == injections   \* slip: a dead session keeps its queue
DroppedQueue == <<>>

DrainBegins ==
  /\ drain = "idle" /\ injections # <<>>
  /\ IF pane2.at = "dead"
     THEN /\ injections' = DroppedQueue
          /\ watchDone' = [watchDone EXCEPT !.deadSeen = TRUE]
          /\ UNCHANGED drain
     ELSE /\ pane2.at = "prompt" /\ drain' = "typing"
          /\ UNCHANGED <<injections, watchDone>>
  /\ UNCHANGED <<watches, watchFile, watchSaves, notes, pane2>>

(* Each message, also one queued meanwhile, is typed or lost. *)
DrainTypes ==
  /\ drain = "typing"
  /\ IF injections = <<>> THEN drain' = "idle" /\ UNCHANGED <<injections, watchDone>>
     ELSE /\ watchDone' = Typed(Head(injections))
          /\ injections' = Tail(injections)
          /\ UNCHANGED drain
  /\ UNCHANGED <<watches, watchFile, watchSaves, notes, pane2>>

(* A restart loads the watches, or none when the load fails, and forgets what was *)
(* queued.                                                                        *)
Restart ==
  /\ watches' \in {watchFile, [p \in Prs |-> Nobody]}
  /\ watchDone' = [watchDone EXCEPT !.stale = watches' # watchFile]
  /\ watchSaves' = {} /\ injections' = <<>> /\ drain' = "idle"
  /\ notes' = [k \in Calls |-> NoNote]
  /\ UNCHANGED <<watchFile, pane2>>

Next ==
  \/ \E p \in Prs, c \in Channels : Add(p, c)
  \/ Expire \/ SessionTurns \/ SessionEnds \/ DrainBegins \/ DrainTypes \/ Restart
  \/ \E w \in watchSaves : Saved(w) \/ SaveFails(w)
  \/ \E c \in Channels : SessionStarts(c)
  \/ \E k \in Calls : Notified(k) \/ \E p \in Prs : Notify(k, p)

Spec == Init /\ [][Next]_watchVars

-----------------------------------------------------------------------------
(* Properties *)

(* A notification is typed only into the session of the channel that watches,     *)
(* unless the tmux name changed hands while it waited and no health cycle saw     *)
(* the name without a session.                                                    *)
TypedToTheWatcher == watchDone.wrong => watchDone.moved

(* Once nothing is being written the file is what the store holds, over expiries, *)
(* notifications that remove and restarts, unless the last change was written     *)
(* beside another one or its write failed, or the last load failed: the next      *)
(* change written alone puts right what earlier ones left wrong.                  *)
WatchFileFollows == watchSaves = {} => watchFile = watches \/ watchDone.stale
=============================================================================
