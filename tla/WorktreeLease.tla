------------------------------ MODULE WorktreeLease ------------------------------
(* The single-owner lease of one linked worktree (worktree-lease.ts), as the PR cron   *)
(* takes it for its builders (pr-cron.ts, spawn_external_pr_fixer) and the Stop hook   *)
(* of every session on the machine touches it (server.ts, handle_stop_hook).           *)
(*                                                                                     *)
(* A builder is one attempt: its operation id and its session id are one value here,   *)
(* and a lease says which of the two it knows.  Time is in ticks; silent counts those  *)
(* since a worker was last heard of, up to the longer TTL.  The store's synchronous    *)
(* operations are atomic, the steps of an attempt between its awaits are actions.      *)
EXTENDS Naturals

CONSTANTS
  Builders,     \* attempts of the cron to fix the pull request of this tree
  Agents,       \* sessions the daemon did not spawn
  LeaseTtl,     \* worktree_lease_ttl_ms, in ticks
  ObservedTtl,  \* worktree_observed_ttl_ms, in ticks
  MayRestart    \* whether the daemon restarts

VARIABLES
  lease,    \* the entry of the tree, possibly dead: it is evicted when looked up
  builder,  \* where each attempt is; an orphan outlived the daemon that spawned it
  working,  \* the agents at work in the tree
  silent,   \* ticks since each worker claimed or completed a turn, up to LeaseTtl
  lapsed    \* history: the attempts that were once silent for all of their TTL

vars == <<lease, builder, working, silent, lapsed>>

Workers == Builders \cup Agents
NoLease == [holder |-> "none"]
Leases == [holder : {"daemon-cron", "agent-observed"}, owner : Workers,
           bound : BOOLEAN, left : 0..LeaseTtl]

TypeOK ==
  /\ lease \in Leases \cup {NoLease} /\ (lease.holder = "daemon-cron" => lease.owner \in Builders)
  /\ lease.holder = "agent-observed" => lease.left <= ObservedTtl
  /\ builder \in [Builders -> {"idle", "claimed", "alive", "dead", "orphan", "done"}]
  /\ working \subseteq Agents /\ silent \in [Workers -> 0..LeaseTtl]
  /\ lapsed \subseteq Builders

Init ==
  /\ lease = NoLease /\ builder = [b \in Builders |-> "idle"]
  /\ working = {} /\ silent = [w \in Workers |-> LeaseTtl] /\ lapsed = {}

Explicit(b) == [holder |-> "daemon-cron", owner |-> b, bound |-> FALSE, left |-> LeaseTtl]
Observed(w) == [holder |-> "agent-observed", owner |-> w, bound |-> TRUE, left |-> ObservedTtl]
Ttl(l) == IF l.holder = "daemon-cron" THEN LeaseTtl ELSE ObservedTtl

\* owns, by the operation id of attempt b, and by the session id of worker w.
OwnedByOp(l, b) == l.holder = "daemon-cron" /\ l.owner = b
OwnedBySession(l, w) == l.holder # "none" /\ l.owner = w /\ l.bound

Expired == lease.holder # "none" /\ lease.left = 0

\* The bound process is gone, and the probe of its pid may say so: the pid may have
\* been given to another process, and then the lease waits for its TTL.
Reapable == lease.holder = "daemon-cron" /\ lease.bound /\ builder[lease.owner] = "dead"

\* Mutant: a probe that fails for want of permission counts as a dead process.
LookupsEperm ==
  IF Expired THEN {NoLease}
  ELSE IF lease.holder = "daemon-cron" /\ lease.bound THEN {lease, NoLease} ELSE {lease}

\* live_lease: what a lookup may return, and leaves in the map.
Lookups ==
  IF Expired THEN {NoLease} ELSE IF Reapable THEN {lease, NoLease} ELSE {lease}

\* claim_pr_worktree: acquire is the test and the set; a held tree defers the attempt.
Claims(b) ==
  /\ builder[b] = "idle" /\ NoLease \in Lookups
  /\ lease' = Explicit(b)
  /\ builder' = [builder EXCEPT ![b] = "claimed"] /\ silent' = [silent EXCEPT ![b] = 0]
  /\ UNCHANGED <<working, lapsed>>

\* release_held with the operation id: another owner's lease is "forbidden".
Releases(b) == \E l \in Lookups : lease' = IF OwnedByOp(l, b) THEN NoLease ELSE l

\* bind_session: only the attempt's own lease learns its session and its pid.
Binds(b) ==
  \E l \in Lookups : lease' = IF OwnedByOp(l, b) THEN [l EXCEPT !.bound = TRUE] ELSE l

\* Mutant: the catch of the spawn keeps the lease.
SpawnThrowsKeeps(b) ==
  /\ builder[b] = "claimed" /\ builder' = [builder EXCEPT ![b] = "done"]
  /\ UNCHANGED <<lease, working, silent, lapsed>>

\* The awaits after the claim end in a throw, or in a process with its lease bound.
SpawnThrows(b) ==
  /\ builder[b] = "claimed" /\ builder' = [builder EXCEPT ![b] = "done"]
  /\ Releases(b) /\ UNCHANGED <<working, silent, lapsed>>
Spawns(b) ==
  /\ builder[b] = "claimed" /\ builder' = [builder EXCEPT ![b] = "alive"]
  /\ Binds(b) /\ UNCHANGED <<working, silent, lapsed>>

\* Mutant: a turn in an occupied tree moves the lease to the session that took it.
TouchSteals(w) ==
  \E l \in Lookups :
    lease' = IF OwnedBySession(l, w) THEN [l EXCEPT !.left = Ttl(l)] ELSE Observed(w)

\* touch_observed: created, renewed with the lease's own TTL, or blocked.
Touch(w) ==
  \E l \in Lookups :
    lease' = IF l = NoLease THEN Observed(w)
             ELSE IF OwnedBySession(l, w) THEN [l EXCEPT !.left = Ttl(l)] ELSE l

\* handle_stop_hook, for a turn completed with the tree as the working directory.
Turn(w) ==
  /\ w \in working \/ (w \in Builders /\ builder[w] \in {"alive", "orphan"})
  /\ Touch(w) /\ silent' = [silent EXCEPT ![w] = 0] /\ UNCHANGED <<builder, working, lapsed>>

\* The process exits, and later its close or error event reaches the listeners of
\* release_worktree_on_session_end; an orphan has none.
Dies(b) ==
  /\ builder[b] \in {"alive", "orphan"}
  /\ builder' = [builder EXCEPT ![b] = IF @ = "alive" THEN "dead" ELSE "done"]
  /\ UNCHANGED <<lease, working, silent, lapsed>>
Ends(b) ==
  /\ builder[b] = "dead" /\ builder' = [builder EXCEPT ![b] = "done"]
  /\ Releases(b) /\ UNCHANGED <<working, silent, lapsed>>

Arrives(a) ==
  /\ a \notin working /\ working' = working \cup {a} /\ UNCHANGED <<lease, builder, silent, lapsed>>
Leaves(a) ==
  /\ a \in working /\ working' = working \ {a} /\ UNCHANGED <<lease, builder, silent, lapsed>>

\* Time passes for the workers.
Silence ==
  /\ silent' = [w \in Workers |-> IF silent[w] < LeaseTtl THEN silent[w] + 1 ELSE LeaseTtl]
  /\ lapsed' = lapsed \cup {b \in Builders : builder[b] \in {"claimed", "alive"} /\ silent'[b] = LeaseTtl}
  /\ UNCHANGED <<builder, working>>

\* Mutant: a bound process extends its lease for as long as it lives.
TickWhileUnbound ==
  /\ Silence
  /\ lease' = IF lease.holder = "none" \/ lease.left = 0 \/ (lease.bound /\ lease.holder = "daemon-cron")
              THEN lease ELSE [lease EXCEPT !.left = @ - 1]

\* Time passes for the lease, whoever holds it.
Tick ==
  Silence /\ lease' = IF lease.holder = "none" \/ lease.left = 0 THEN lease ELSE [lease EXCEPT !.left = @ - 1]

\* The daemon restarts: the store is empty and the attempts of the old one are over,
\* but for those of its builders it did not kill.
Restart ==
  /\ MayRestart /\ lease' = NoLease
  /\ \E survivors \in SUBSET {b \in Builders : builder[b] \in {"alive", "orphan"}} :
       builder' = [b \in Builders |->
         IF b \in survivors THEN "orphan" ELSE IF builder[b] = "idle" THEN "idle" ELSE "done"]
  /\ UNCHANGED <<working, silent, lapsed>>

Next ==
  \/ \E b \in Builders : Claims(b) \/ SpawnThrows(b) \/ Spawns(b) \/ Dies(b) \/ Ends(b)
  \/ \E w \in Workers : Turn(w)
  \/ \E a \in Agents : Arrives(a) \/ Leaves(a)
  \/ Tick \/ Restart

Spec == Init /\ [][Next]_vars

\* Time passes; nothing is assumed of builders, which may hang, nor of agents.
FairSpec == Spec /\ WF_vars(Tick)

--------------------------------------------------------------------------------
(* Properties.                                                                    *)

Live == lease.holder # "none" /\ lease.left > 0

\* From its claim to its exit a builder has the tree for itself, unless it once was silent
\* for the whole of its TTL: no release, reaping, binding or turn of another takes it.
BuilderHoldsTree ==
  \A b \in Builders :
    builder[b] \in {"claimed", "alive"} /\ b \notin lapsed =>
      OwnedByOp(lease, b) /\ lease.left + silent[b] >= LeaseTtl

\* Two builders of one daemon at work are one that lapsed and its successor.
NoTwoBuilders ==
  \A b, c \in Builders :
    b # c /\ builder[b] = "alive" /\ builder[c] = "alive" => b \in lapsed \/ c \in lapsed

\* Every way out of an attempt frees the tree from its explicit lease.
NoPhantomHold ==
  Live /\ lease.holder = "daemon-cron" => builder[lease.owner] \in {"claimed", "alive", "dead"}

\* The observed hold of a session ends with its TTL or the daemon, by no other's hand.
ObservedHoldKept ==
  [][\A w \in Workers :
       Live /\ lease.holder = "agent-observed" /\ OwnedBySession(lease, w) /\ ~Restart
         => OwnedBySession(lease', w) /\ lease'.left >= lease.left - 1]_vars

\* No outage: while nobody completes a turn a held tree comes free, whether or not the
\* process that holds it ends.
NoOutage == <>[](\A w \in Workers : silent[w] > 0) => []<>~Live

\* "An observed lease ... stays live exactly as long as the agent keeps working there":
\* no builder is sent to a tree where an agent has just completed a turn.
AgentsRespected ==
  [][\A b \in Builders, a \in Agents :
       builder[b] = "idle" /\ builder'[b] = "claimed" /\ a \in working => silent[a] >= ObservedTtl]_vars

\* "Every path out of a spawned session frees the tree."
EndFreesTree ==
  \A b \in Builders : builder[b] = "done" /\ Live => lease.owner # b
================================================================================
