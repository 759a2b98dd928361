-------------------------------- MODULE TaskQueue -------------------------------
(* The task queue (packages/daemon/src/queue.ts) over the session manager              *)
(* (packages/daemon/src/session.ts), behind POST and DELETE /tasks.                    *)
(*                                                                                     *)
(* Tasks are numbered in the order of their submission, so submitted_at is the number. *)
(* A spawning task is one process_next at its await; it takes the next task when the   *)
(* spawn returns.  Every task runs a session id of its own.  The cron, the webhooks    *)
(* and triage spawn sessions past the queue: others counts theirs.  Nothing survives   *)
(* a restart of the daemon, which is therefore the end of a behaviour.                 *)
EXTENDS Naturals, Sequences, FiniteSets

CONSTANTS
  MaxActive,   \* max_active_sessions
  MaxDepth,    \* max_queue_depth
  Priorities,  \* the priorities submitted, as PRIORITY_ORDER ranks them
  MaxTasks,    \* bound on the tasks submitted
  MaxOthers    \* bound on the sessions that live past the queue

ASSUME QueueAssumption ==
  /\ {MaxActive, MaxDepth} \subseteq Nat \ {0} /\ Priorities \subseteq 0..3
  /\ {MaxTasks, MaxOthers} \subseteq Nat

VARIABLES
  next,     \* number of the next task
  status,   \* of each task; "spawning" and "running" are both "active" in the code
  rank,     \* priority of each task
  pending,  \* this.pending
  proc,     \* the process of each task's session; "erred" failed with its close to come
  others    \* live sessions of the other callers of spawn

vars == <<next, status, rank, pending, proc, others>>

Tasks == 1..MaxTasks
Statuses == {"new", "queued", "spawning", "running", "completed", "failed", "cancelled"}
Active == {t \in Tasks : status[t] \in {"spawning", "running"}}

Typed ==
  /\ next \in 1..MaxTasks + 1
  /\ status \in [Tasks -> Statuses] /\ rank \in [Tasks -> 0..3]
  /\ pending \in Seq(Tasks) /\ Len(pending) <= MaxDepth
  /\ proc \in [Tasks -> {"none", "alive", "broken", "erred", "gone"}]
  /\ others \in 0..MaxOthers

\* q lists the queued tasks of st, each one once.
Lists(st, q) ==
  /\ \A i \in 1..Len(q) : st[q[i]] = "queued"
  /\ \A t \in Tasks : st[t] = "queued" => \E i \in 1..Len(q) : q[i] = t
  /\ \A i, j \in 1..Len(q) : q[i] = q[j] => i = j

\* The fields have their types, the array keeps its depth, and it holds the tasks whose
\* status says that they wait: the code keeps the two apart in an array and a Map.
TypeOK == Typed /\ Lists(status, pending)

Init ==
  /\ next = 1 /\ status = [t \in Tasks |-> "new"] /\ rank = [t \in Tasks |-> 0]
  /\ pending = <<>> /\ proc = [t \in Tasks |-> "none"] /\ others = 0

\* process_next up to its await, in statuses st with q pending.
ProcessNext(st, q) ==
  IF q # <<>> /\ Cardinality({t \in Tasks : st[t] \in {"spawning", "running"}}) < MaxActive
  THEN status' = [st EXCEPT ![Head(q)] = "spawning"] /\ pending' = Tail(q)
  ELSE status' = st /\ pending' = q

\* Mutant: a new task goes before the waiting ones of its priority.
PlacedFirst(i, r) ==
  /\ \A j \in 1..i - 1 : rank[pending[j]] < r
  /\ \A j \in i..Len(pending) : rank[pending[j]] >= r

\* sort_pending puts a new task of rank r at position i: after what is as urgent.
Placed(i, r) ==
  /\ \A j \in 1..i - 1 : rank[pending[j]] <= r
  /\ \A j \in i..Len(pending) : rank[pending[j]] > r

\* submit; a full queue throws QueueFullError instead.
Submit(r) ==
  /\ next <= MaxTasks /\ Len(pending) < MaxDepth
  /\ \E i \in 1..Len(pending) + 1 :
       /\ Placed(i, r)
       /\ ProcessNext([status EXCEPT ![next] = "queued"],
                      SubSeq(pending, 1, i - 1) \o <<next>> \o SubSeq(pending, i, Len(pending)))
  /\ next' = next + 1 /\ rank' = [rank EXCEPT ![next] = r] /\ UNCHANGED <<proc, others>>

Cancel(i) ==
  /\ i \in 1..Len(pending)
  /\ status' = [status EXCEPT ![pending[i]] = "cancelled"]
  /\ pending' = SubSeq(pending, 1, i - 1) \o SubSeq(pending, i + 1, Len(pending))
  /\ UNCHANGED <<next, rank, proc, others>>

\* spawn returns: the process is alive, or node reports an error for it later.
Spawned(t, process) ==
  /\ status[t] = "spawning" /\ proc' = [proc EXCEPT ![t] = process]
  /\ ProcessNext([status EXCEPT ![t] = "running"], pending)
  /\ UNCHANGED <<next, rank, others>>

\* Mutant: the loop ends with the task whose spawn threw.
SpawnThrowsStops(t) ==
  /\ status[t] = "spawning" /\ status' = [status EXCEPT ![t] = "failed"]
  /\ UNCHANGED <<next, rank, pending, proc, others>>

\* spawn throws (interactive task, unreadable directory): the loop goes on.
SpawnThrows(t) ==
  /\ status[t] = "spawning" /\ ProcessNext([status EXCEPT ![t] = "failed"], pending)
  /\ UNCHANGED <<next, rank, proc, others>>

\* on_session_completed and on_session_failed for the session of t.
Settles(t, s) ==
  ProcessNext(IF status[t] = "running" THEN [status EXCEPT ![t] = s] ELSE status, pending)

\* The process closes with code 0, or another one.
Closes(t, s) ==
  /\ proc[t] = "alive" /\ proc' = [proc EXCEPT ![t] = "gone"]
  /\ Settles(t, s) /\ UNCHANGED <<next, rank, others>>

\* No process came to be: an error event, then a close event with the same session id.
Errors(t) ==
  /\ proc[t] = "broken" /\ proc' = [proc EXCEPT ![t] = "erred"]
  /\ Settles(t, "failed") /\ UNCHANGED <<next, rank, others>>

ErrorCloses(t) ==
  /\ proc[t] = "erred" /\ proc' = [proc EXCEPT ![t] = "gone"]
  /\ Settles(t, "failed") /\ UNCHANGED <<next, rank, others>>

\* A session of another caller starts and ends; its end is an event of this queue too.
OtherStarts == others < MaxOthers /\ others' = others + 1 /\ UNCHANGED <<next, status, rank, pending, proc>>
OtherEnds ==
  /\ others > 0 /\ others' = others - 1 /\ ProcessNext(status, pending)
  /\ UNCHANGED <<next, rank, proc>>

SpawnReturns(t) == SpawnThrows(t) \/ \E process \in {"alive", "broken"} : Spawned(t, process)
Ends(t) == Errors(t) \/ ErrorCloses(t) \/ \E s \in {"completed", "failed"} : Closes(t, s)

Next ==
  \/ \E r \in Priorities : Submit(r)
  \/ \E i \in 1..Len(pending) : Cancel(i)
  \/ \E t \in Tasks : SpawnReturns(t) \/ Ends(t)
  \/ OtherStarts \/ OtherEnds

Spec == Init /\ [][Next]_vars

\* A spawn resolves and a session ends: claude runs one prompt with -p.  No task spawns or
\* ends twice, so it is enough that some spawn and some session does.
Fairness == WF_vars(\E t \in Tasks : SpawnReturns(t)) /\ WF_vars(\E t \in Tasks : Ends(t))
FairSpec == Spec /\ Fairness

--------------------------------------------------------------------------------
(* Properties.                                                                    *)

\* The queue never has more than max_active_sessions tasks in its hands, loops that
\* overlap at their awaits included.
Capacity == Cardinality(Active) <= MaxActive

\* A free slot next to a waiting task means that a loop is at its await and will look
\* again: no end of a session, failed spawn or cancellation strands the queue.
WorkConserving ==
  pending # <<>> =>
    Cardinality(Active) = MaxActive \/ \E t \in Tasks : status[t] = "spawning"

\* A task is in the queue's hands while its process lives, and only then or until its
\* error is reported: no event is lost, missed by a registration, or counted twice.
Attributed ==
  \A t \in Tasks :
    /\ proc[t] \in {"alive", "broken"} <=> status[t] = "running"
    /\ proc[t] = "gone" => status[t] \in {"completed", "failed"}

\* A task that starts is the most urgent of those waiting, and of these the oldest.
NoOvertaking ==
  [][\A t, u \in Tasks :
       status[t] # "spawning" /\ status'[t] = "spawning" /\ status[u] = "queued" /\ status'[u] = "queued"
         => rank'[t] < rank'[u] \/ (rank'[t] = rank'[u] /\ t < u)]_vars

\* An accepted task comes to its end.
TasksSettle ==
  \A t \in Tasks : status[t] = "queued" ~> status[t] \in {"completed", "failed", "cancelled"}

\* index.ts announces "max N concurrent sessions" for the session manager.
SessionsCapped == Cardinality({t \in Tasks : proc[t] = "alive"}) + others <= MaxActive
================================================================================
