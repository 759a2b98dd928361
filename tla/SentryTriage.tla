------------------------------ MODULE SentryTriage ------------------------------
(* Sentry triage (sentry-triage.ts): an issue event is deduplicated, waits for    *)
(* capacity in a queue or starts a Ray session; its verdict may start a fix       *)
(* session. A call is cut at its awaits; updates of the state file are serialized *)
(* by its lock and are one step each. Reading the file and writing it may fail.   *)
(* Abstracted: prompts, verdict text and parsing (a verdict is a choice), the     *)
(* mapping of projects to entities, Sentry's API (an answer or a failure), the    *)
(* alerts but for the thread of the incident. There is an alert router. A restart *)
(* of the daemon begins anew with an empty queue.                                 *)
EXTENDS Naturals, Sequences, FiniteSets

CONSTANTS
  Issues,       \* Sentry issues; each has its own GitHub issue
  Calls,        \* handler calls in flight
  MaxTriages,   \* MAX_CONCURRENT_TRIAGES
  MaxDepth,     \* MAX_QUEUE_DEPTH
  MaxFixes,     \* MAX_SENTRY_FIX_ATTEMPTS
  MaxSessions   \* sessions started, and events handled

VARIABLES
  active,       \* active_triages: per issue the session, 0 for none
  triageQueue,  \* triage_queue
  triages,      \* sentry-triages.json: per issue its record
  triageCalls,  \* calls and what they are about to do
  rays,         \* sessions by number: triages running, or ended unheard; live fixes
  sentryDone    \* events taken, merged fixes, and whether the queue was missed

sentryVars == <<active, triageQueue, triages, triageCalls, rays, sentryDone>>

Sessions == 1 .. MaxSessions
NoRecord == [status |-> "none", fix |-> "none", attempts |-> 0, linked |-> FALSE]
NoCall == [pc |-> "idle", issue |-> CHOOSE i \in Issues : TRUE, queued |-> FALSE, ray |-> 0]
NoRay == [kind |-> "none", issue |-> CHOOSE i \in Issues : TRUE, old |-> FALSE, heard |-> FALSE]

Init ==
  /\ active = [i \in Issues |-> 0] /\ triageQueue = <<>>
  /\ triages = [i \in Issues |-> NoRecord]
  /\ triageCalls = [k \in Calls |-> NoCall]
  /\ rays = [s \in Sessions |-> NoRay]
  /\ sentryDone = [started |-> 0, events |-> 0, missed |-> FALSE, merged |-> {}]

ActiveCount(a) == Cardinality({i \in Issues : a[i] # 0})
IsAtCapacity(a) == ActiveCount(a) >= MaxTriages

(* cleanup_stale_triages: entries of sessions older than the timeout go; the     *)
(* sessions live on.                                                              *)
Current == [i \in Issues |-> IF active[i] # 0 /\ rays[active[i]].old THEN 0 ELSE active[i]]

At(k, pc) == triageCalls[k].pc = pc
Goes(k, pc) == triageCalls' = [triageCalls EXCEPT ![k].pc = pc]
Returns(k) == triageCalls' = [triageCalls EXCEPT ![k] = NoCall]
Underway(s) == rays[s].kind = "triage"

(* load_triage_state takes a file it cannot read for an empty one, which the next *)
(* update_triage_state saves. An update whose write fails throws.                 *)
Unread == [i \in Issues |-> NoRecord]
Merged(r, u) == [f \in DOMAIN r |-> IF f \in DOMAIN u THEN u[f] ELSE r[f]]
Updated(i, u) == \E file \in {triages, Unread} : triages' = [file EXCEPT ![i] = Merged(@, u)]

-----------------------------------------------------------------------------
(* handle_sentry_triage_event *)

(* should_triage: not while active, and not within the cooldown of a triage that *)
(* was not dismissed, unless the issue regressed. No record can be read of one    *)
(* that is not cooling.                                                           *)
TriageEvent(k, i) ==
  /\ sentryDone.events < MaxSessions
  /\ At(k, "idle")
  /\ active' = Current
  /\ \E regression \in BOOLEAN, cooling \in BOOLEAN :
       IF Current[i] # 0 \/ (~regression /\ cooling /\ triages[i].status \notin {"none", "dismissed"})
       THEN UNCHANGED triageCalls
       ELSE triageCalls' = [triageCalls EXCEPT ![k] = [NoCall EXCEPT !.pc = "fetch", !.issue = i]]
  /\ sentryDone' = [sentryDone EXCEPT !.events = @ + 1]
  /\ UNCHANGED <<triageQueue, triages, rays>>

(* The details came: start, queue or, with the queue full, drop.                  *)
DetailsFetched(k) ==
  /\ At(k, "fetch")
  /\ \/ Returns(k) /\ UNCHANGED active
     \/ /\ active' = Current
        /\ IF ~IsAtCapacity(Current) THEN Goes(k, "openStart")
           ELSE IF Len(triageQueue) < MaxDepth THEN Goes(k, "openQueue") ELSE Returns(k)
  /\ UNCHANGED <<triageQueue, triages, rays, sentryDone>>

(* open_incident_for_triage: the thread of the incident, which nothing here reads,  *)
(* is saved unless Discord or the update fails. The triages that filled the         *)
(* capacity may have ended since.                                                   *)
IncidentOpened(k) ==
  LET i == triageCalls[k].issue IN
  /\ triageCalls[k].pc \in {"openStart", "openQueue"}
  /\ UNCHANGED triages \/ Updated(i, <<>>)
  /\ IF At(k, "openStart")
     THEN /\ Goes(k, "state") /\ UNCHANGED <<triageQueue, sentryDone>>
     ELSE /\ Returns(k)
          /\ triageQueue' = Append(triageQueue, i)
          /\ sentryDone' = [sentryDone EXCEPT !.missed = @ \/ \A s \in Sessions : ~Underway(s)]
  /\ UNCHANGED <<active, rays>>

-----------------------------------------------------------------------------
(* spawn_triage_session and process_queue *)

Investigate(k) ==
  /\ At(k, "state")
  /\ Updated(triageCalls[k].issue, [status |-> "investigating"])
  /\ Goes(k, "spawn")
  /\ UNCHANGED <<active, triageQueue, rays, sentryDone>>

(* An update throws: the call is over, and if it was the queue's, so is its round. *)
UpdateThrows(k) ==
  /\ triageCalls[k].pc \in {"state", "spawn"} /\ Returns(k)
  /\ sentryDone' = [sentryDone EXCEPT !.missed = @ \/ (triageCalls[k].queued /\ triageQueue # <<>>)]
  /\ UNCHANGED <<active, triageQueue, triages, rays>>

(* A call of process_queue goes round its loop, a direct call ends.               *)
AfterSpawn(k) ==
  triageCalls' = [triageCalls EXCEPT ![k] = IF @.queued THEN [NoCall EXCEPT !.pc = "queue", !.queued = TRUE] ELSE NoCall]

SpawnTriage(k) ==
  LET i == triageCalls[k].issue s == sentryDone.started + 1 IN
  /\ At(k, "spawn")
  /\ \/ /\ s \in Sessions
        /\ rays' = [rays EXCEPT ![s] = [NoRay EXCEPT !.kind = "triage", !.issue = i]]
        /\ active' = [active EXCEPT ![i] = s]
        /\ sentryDone' = [sentryDone EXCEPT !.started = s]
        /\ triageCalls' = [triageCalls EXCEPT ![k].pc = "listen", ![k].ray = s]
        /\ UNCHANGED triages
     \/ /\ Updated(i, [status |-> "dismissed"]) /\ AfterSpawn(k)
        /\ UNCHANGED <<active, rays, sentryDone>>
  /\ UNCHANGED triageQueue

(* The state is read for the thread of the incident; only then does the call listen *)
(* for the end of the session, which may be over.                                   *)
Listen(k) ==
  LET s == triageCalls[k].ray IN
  /\ At(k, "listen") /\ AfterSpawn(k)
  /\ rays' = IF Underway(s) THEN [rays EXCEPT ![s].heard = TRUE] ELSE rays
  /\ UNCHANGED <<active, triageQueue, triages, sentryDone>>

EndsUnheard(s) ==
  /\ Underway(s) /\ ~rays[s].heard
  /\ rays' = [rays EXCEPT ![s].kind = "unheard"]
  /\ sentryDone' = [sentryDone EXCEPT !.missed = @ \/ triageQueue # <<>>]
  /\ UNCHANGED <<active, triageQueue, triages, triageCalls>>

(* An issue counts as active although its session ended, which nobody heard.      *)
HeldUnheard == \E i \in Issues : active[i] # 0 /\ ~Underway(active[i])

ProcessQueue(k) ==
  /\ At(k, "queue")
  /\ IF triageQueue # <<>> /\ ~IsAtCapacity(active)
     THEN /\ triageCalls' = [triageCalls EXCEPT ![k].pc = "state", ![k].issue = Head(triageQueue)]
          /\ triageQueue' = Tail(triageQueue)
          /\ sentryDone' = [sentryDone EXCEPT !.missed = @ /\ Tail(triageQueue) # <<>>]
     ELSE /\ Returns(k) /\ UNCHANGED triageQueue
          /\ sentryDone' = [sentryDone EXCEPT !.missed = @ \/ (triageQueue # <<>> /\ HeldUnheard)]
  /\ UNCHANGED <<active, triages, rays>>

(* Half an hour passes for a session. *)
Ages(s) ==
  /\ rays[s].kind \in {"triage", "unheard"} /\ ~rays[s].old
  /\ rays' = [rays EXCEPT ![s].old = TRUE]
  /\ UNCHANGED <<active, triageQueue, triages, triageCalls, sentryDone>>

(* on_complete and on_fail take the issue off the active ones, whichever session  *)
(* it has by now, and process the queue in a call of their own.                    *)
QueueForgotten(k) == triageCalls' = triageCalls   \* slip: an end without process_queue
QueueProcessed(k) == triageCalls' = [triageCalls EXCEPT ![k] = [NoCall EXCEPT !.pc = "queue", !.queued = TRUE]]

TriageCompletes(k, s) ==
  LET i == rays[s].issue IN
  /\ Underway(s) /\ rays[s].heard /\ At(k, "idle")
  /\ active' = [active EXCEPT ![i] = 0]
  /\ \/ /\ rays' = [rays EXCEPT ![s] = NoRay]       \* no verdict, nothing to fix, no update
        /\ \/ UNCHANGED triages
           \/ \E u \in {[status |-> "tracked"], [status |-> "tracked", linked |-> TRUE]} : Updated(i, u)
     \/ /\ rays' = [rays EXCEPT ![s].kind = "verdict"]
        /\ Updated(i, [status |-> "tracked", linked |-> TRUE])
  /\ QueueProcessed(k)
  /\ UNCHANGED <<triageQueue, sentryDone>>

TriageFails(k, s) ==
  LET i == rays[s].issue IN
  /\ Underway(s) /\ rays[s].heard /\ At(k, "idle")
  /\ active' = [active EXCEPT ![i] = 0]
  /\ rays' = [rays EXCEPT ![s] = NoRay]
  /\ UNCHANGED triages \/ Updated(i, [status |-> "dismissed"])
  /\ QueueProcessed(k)
  /\ UNCHANGED <<triageQueue, sentryDone>>

-----------------------------------------------------------------------------
(* spawn_sentry_fix, begun by a verdict: the attempt is counted and the fix runs,  *)
(* heard or, when the last update throws, unheard; or an update or the spawn fails. *)

SpawnFix(s) ==
  LET i == rays[s].issue IN
  /\ rays[s].kind = "verdict"
  /\ \E n \in {triages[i].attempts, 0} :
       \/ /\ rays' = [rays EXCEPT ![s] = NoRay]
          /\ \/ UNCHANGED triages
             \/ n < MaxFixes /\ \E f \in {"fixing", "failed"} : Updated(i, [attempts |-> n + 1, fix |-> f])
       \/ /\ n < MaxFixes /\ Updated(i, [attempts |-> n + 1, fix |-> "fixing"])
          /\ \E h \in BOOLEAN : rays' = [rays EXCEPT ![s].kind = "fix", ![s].heard = h]
  /\ UNCHANGED <<active, triageQueue, triageCalls, sentryDone>>

(* on_fix_complete, on_fix_fail *)
FixEnds(s) ==
  LET i == rays[s].issue IN
  /\ rays[s].kind = "fix"
  /\ rays' = [rays EXCEPT ![s] = NoRay]
  /\ UNCHANGED triages \/ (rays[s].heard /\ \E f \in {"fixed", "failed"} : Updated(i, [fix |-> f]))
  /\ UNCHANGED <<active, triageQueue, triageCalls, sentryDone>>

(* handle_sentry_fix_pr_merged: records linked to the PR and not yet fixed.       *)
FixPrMerged(i) ==
  /\ triages[i].linked /\ i \notin sentryDone.merged
  /\ UNCHANGED triages \/ (triages[i].fix # "fixed" /\ Updated(i, [fix |-> "fixed"]))
  /\ sentryDone' = [sentryDone EXCEPT !.merged = @ \cup {i}]
  /\ UNCHANGED <<active, triageQueue, triageCalls, rays>>

(* handle_sentry_resolved *)
SentryResolved(i) ==
  /\ triages[i].status \notin {"none", "auto-resolved"}
  /\ Updated(i, [status |-> "auto-resolved"])
  /\ UNCHANGED <<active, triageQueue, triageCalls, rays, sentryDone>>

CallStep(k) ==
  \/ DetailsFetched(k) \/ IncidentOpened(k) \/ Investigate(k) \/ UpdateThrows(k) \/ SpawnTriage(k)
  \/ Listen(k) \/ ProcessQueue(k)
  \/ \E i \in Issues : TriageEvent(k, i)
  \/ \E s \in Sessions : TriageCompletes(k, s) \/ TriageFails(k, s)

Next ==
  \/ \E k \in Calls : CallStep(k)
  \/ \E s \in Sessions : Ages(s) \/ EndsUnheard(s) \/ SpawnFix(s) \/ FixEnds(s)
  \/ \E i \in Issues : FixPrMerged(i) \/ SentryResolved(i)

Spec == Init /\ [][Next]_sentryVars

-----------------------------------------------------------------------------
(* Properties *)

(* A queued triage has a session whose end takes it up, or a call at work, unless  *)
(* the queue was missed since it was last empty: by a push after the triages it     *)
(* waited for had ended, by the end of a session that nobody listened for yet, by a *)
(* round that found capacity taken by such a session, or by an update that threw in *)
(* the round. Timeouts, failed spawns, lost records and heard ends in any order     *)
(* strand none.                                                                     *)
QueuedTriageIsDriven ==
  triageQueue # <<>> =>
    \/ \E s \in Sessions : Underway(s)
    \/ \E k \in Calls : triageCalls[k].pc # "idle"
    \/ sentryDone.missed
=============================================================================
