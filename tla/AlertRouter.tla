------------------------------- MODULE AlertRouter ------------------------------
(* The alert router (alert-router.ts): routine alerts go to one thread per day,   *)
(* found, created and cached; incidents open a thread of their own, are kept in   *)
(* active-incidents.json, and are resolved from it. The file is read and written  *)
(* whole without a lock, with calls to Discord in between; any of them may fail,  *)
(* and a read that fails counts as an empty file. The daemon may restart.         *)
(* Abstracted: entities (one), embeds and bodies, the tiers that only post.       *)
EXTENDS Naturals, FiniteSets

CONSTANTS
  Incidents,  \* incidents opened
  Posts,      \* routine alerts
  Days        \* days that pass

VARIABLES
  incidentFile,  \* active-incidents.json
  incidentCalls, \* per incident: its opening or its resolution, with the state loaded
  posts,         \* per routine alert: idle, find, create, done
  daily,         \* today, the cache, the day threads on Discord
  routerDone     \* incidents opened, resolved, dropped by a save over a failed read;
                 \* searches that missed the day's thread; overlaps of file and thread

routerVars == <<incidentFile, incidentCalls, posts, daily, routerDone>>

Call(pc, copy) == [pc |-> pc, copy |-> copy]

Init ==
  /\ incidentFile = {}
  /\ incidentCalls = [i \in Incidents |-> Call("none", {})]
  /\ posts = [p \in Posts |-> "idle"]
  /\ daily = [today |-> 1, cached |-> 0, threads |-> [d \in 1 .. Days |-> 0]]
  /\ routerDone = [opened |-> {}, resolved |-> {}, dropped |-> {}, missed |-> [d \in 1 .. Days |-> 0],
                    fileOverlap |-> FALSE, threadOverlap |-> FALSE]

Loaded == \E i \in Incidents : incidentCalls[i].pc \in {"add", "blind", "edit", "delete"}

-----------------------------------------------------------------------------
(* post_incident_open: the embed and its thread, then the file is loaded ...     *)
OpenIncident(i) ==
  /\ incidentCalls[i].pc = "none"
  /\ incidentCalls' \in {[incidentCalls EXCEPT ![i] = Call(pc, {})] : pc \in {"threaded", "unposted"}}
  /\ UNCHANGED <<incidentFile, posts, daily, routerDone>>

OpeningLoads(i) ==
  /\ incidentCalls[i].pc = "threaded"
  /\ incidentCalls' \in {[incidentCalls EXCEPT ![i] = Call("add", incidentFile \cup {i})],
                         [incidentCalls EXCEPT ![i] = Call("blind", {i})]}   \* the read failed
  /\ routerDone' = [routerDone EXCEPT !.fileOverlap = @ \/ Loaded]
  /\ UNCHANGED <<incidentFile, posts, daily>>

(* ... and saved; a failing save is logged and the incident is open all the same. *)
(* Saved over a failed read, the incidents that were open are gone.               *)
OpeningSaves(i) ==
  /\ incidentCalls[i].pc \in {"add", "blind"}
  /\ incidentCalls' = [incidentCalls EXCEPT ![i] = Call("open", {})]
  /\ \/ /\ incidentFile' = incidentCalls[i].copy
        /\ routerDone' = [routerDone EXCEPT !.opened = @ \cup {i},
                             !.dropped = IF incidentCalls[i].pc = "blind" THEN @ \cup routerDone.opened ELSE @]
     \/ UNCHANGED <<incidentFile, routerDone>>
  /\ UNCHANGED <<posts, daily>>

(* resolve_incident: an incident that is not in what was read, which is nothing   *)
(* when the read fails, is left alone ...                                         *)
Resolve(i) ==
  /\ incidentCalls[i].pc = "open"
  /\ \/ /\ i \in incidentFile
        /\ incidentCalls' = [incidentCalls EXCEPT ![i] = Call("edit", incidentFile)]
        /\ routerDone' = [routerDone EXCEPT !.fileOverlap = @ \/ Loaded]
     \/ incidentCalls' = [incidentCalls EXCEPT ![i] = Call("ignored", {})] /\ UNCHANGED routerDone
  /\ UNCHANGED <<incidentFile, posts, daily>>

(* ... the message and the thread are told, or Discord throws ...                *)
ResolutionPosted(i) ==
  /\ incidentCalls[i].pc = "edit"
  /\ incidentCalls' \in {[incidentCalls EXCEPT ![i].pc = "delete"], [incidentCalls EXCEPT ![i] = Call("open", {})]}
  /\ UNCHANGED <<incidentFile, posts, daily, routerDone>>

WithoutNothing(i) == incidentCalls[i].copy   \* slip: the entry is not deleted
Without(i) == incidentCalls[i].copy \ {i}

(* ... and what was loaded before is saved without it, or the save throws and the *)
(* incident that Discord shows as resolved stays on file.                         *)
ResolutionSaves(i) ==
  /\ incidentCalls[i].pc = "delete"
  /\ \/ /\ incidentFile' = Without(i)
        /\ incidentCalls' = [incidentCalls EXCEPT ![i] = Call("resolved", {})]
        /\ routerDone' = [routerDone EXCEPT !.resolved = @ \cup {i}]
     \/ incidentCalls' = [incidentCalls EXCEPT ![i] = Call("open", {})] /\ UNCHANGED <<incidentFile, routerDone>>
  /\ UNCHANGED <<posts, daily>>

-----------------------------------------------------------------------------
(* post_routine and resolve_daily_thread *)

(* The cache answers, or the thread is looked for.                               *)
PostRoutine(p) ==
  /\ posts[p] = "idle"
  /\ posts' = [posts EXCEPT ![p] = IF daily.cached = daily.today THEN "done" ELSE "find"]
  /\ daily' = [daily EXCEPT !.cached = IF @ = daily.today THEN @ ELSE 0]
  /\ UNCHANGED <<incidentFile, incidentCalls, routerDone>>

(* The search sees the day's thread, or there is none, or the search fails and    *)
(* answers as if there were none.                                                 *)
FindThread(p) ==
  /\ posts[p] = "find"
  /\ \/ /\ daily.threads[daily.today] > 0
        /\ posts' = [posts EXCEPT ![p] = "done"] /\ daily' = [daily EXCEPT !.cached = daily.today]
        /\ UNCHANGED routerDone
     \/ /\ posts' = [posts EXCEPT ![p] = "create"] /\ UNCHANGED daily
        /\ routerDone' = [routerDone EXCEPT
              !.missed[daily.today] = IF daily.threads[daily.today] > 0 THEN @ + 1 ELSE @,
              !.threadOverlap = @ \/ \E q \in Posts : posts[q] = "create"]
  /\ UNCHANGED <<incidentFile, incidentCalls>>

(* Without a thread the alert goes to the channel.                               *)
CreateThread(p) ==
  /\ posts[p] = "create"
  /\ posts' = [posts EXCEPT ![p] = "done"]
  /\ daily' \in {daily, [daily EXCEPT !.threads[daily.today] = @ + 1, !.cached = daily.today]}
  /\ UNCHANGED <<incidentFile, incidentCalls, routerDone>>

Midnight ==
  /\ daily.today < Days /\ \A p \in Posts : posts[p] \notin {"find", "create"}
  /\ daily' = [daily EXCEPT !.today = @ + 1]
  /\ UNCHANGED <<incidentFile, incidentCalls, posts, routerDone>>

-----------------------------------------------------------------------------
(* A restart of the daemon: the cache and the calls under way are gone, and what  *)
(* is on file may be resolved again.                                              *)
Restart ==
  /\ incidentCalls' = [i \in Incidents |->
        CASE incidentCalls[i].pc \in {"threaded", "add", "blind"} -> Call("unposted", {})
          [] incidentCalls[i].pc \in {"edit", "delete"} -> Call("open", {})
          [] OTHER -> incidentCalls[i]]
  /\ posts' = [p \in Posts |-> IF posts[p] \in {"find", "create"} THEN "done" ELSE posts[p]]
  /\ daily' = [daily EXCEPT !.cached = 0]
  /\ UNCHANGED <<incidentFile, routerDone>>

Next ==
  \/ \E i \in Incidents : \/ OpenIncident(i) \/ OpeningLoads(i) \/ OpeningSaves(i)
                          \/ Resolve(i) \/ ResolutionPosted(i) \/ ResolutionSaves(i)
  \/ \E p \in Posts : PostRoutine(p) \/ FindThread(p) \/ CreateThread(p)
  \/ Midnight \/ Restart

Spec == Init /\ [][Next]_routerVars

-----------------------------------------------------------------------------
(* Properties *)

(* While calls on the file do not overlap, it holds exactly the incidents opened  *)
(* and not resolved, but for those that a save over a failed read dropped; and    *)
(* while creations do not overlap, a day has one thread and one more for each     *)
(* search that missed it. Discord, the disk and restarts may interfere anywhere.  *)
IncidentsAndThreadsKept ==
  /\ routerDone.fileOverlap \/ incidentFile = (routerDone.opened \ routerDone.resolved) \ routerDone.dropped
  /\ routerDone.threadOverlap \/ \A d \in 1 .. Days : daily.threads[d] <= 1 + routerDone.missed[d]
=============================================================================
