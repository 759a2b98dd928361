------------------------------- MODULE MCProgress -------------------------------
(* One instance for the liveness of five components: the task queue, the two halves *)
(* of the broker, the review cron and the lease of a worktree.  No two of them write *)
(* the same state; a behaviour is one of a single component, the one part names, and *)
(* the others stay as they are.                                                      *)
EXTENDS TaskQueue

CONSTANTS
  Channels, NoChannel, MaxMsgs, MaxDeliveries, Bots, NoBot, Shims, Conns, NoConn,
  MaxCrashes, MaxLaunches,              \* BrokerServer
  Calls, MaxLinks,                      \* BrokerOutbound
  MaxCycles, MaxDeferrals, MaxCiFixes, MaxPasses, FailureSets,
  Outcomes, MultiRepo, Updates, Others, \* PrCron
  Builders, Agents, LeaseTtl, ObservedTtl, MayRestart  \* WorktreeLease

ASSUME LinksAssumption == MaxLinks \in Nat
ASSUME LeaseAssumption ==
  /\ Builders \cap Agents = {}
  /\ LeaseTtl \in Nat \ {0} /\ ObservedTtl \in 1..LeaseTtl
  /\ MayRestart \in BOOLEAN

VARIABLES
  part,
  inNext, inbound, file, owners, owner, conn, up, down, shim, daemon, crashes,
  launches, emitted, acked, latest,
  answer, waiting, requests, running, results, link, links, sentOn, bot,
  ownership, token, outcome,
  open, draft, verdict, fed, passes, entry, disk, saving, review, poll,
  built, drained, owed, promised, escalations, ciBuilt, ciRunning,
  lease, builder, working, silent, lapsed

Server == INSTANCE BrokerServer WITH next <- inNext, entry <- inbound, ownership <- owners
Outbound == INSTANCE BrokerOutbound WITH pending <- waiting
Cron == INSTANCE PrCron
Lease == INSTANCE WorktreeLease

serverVars == <<inNext, inbound, file, owners, owner, conn, up, down, shim, daemon,
                crashes, launches, emitted, acked, latest>>
outboundVars == <<answer, waiting, requests, running, results, link, links, sentOn,
                  bot, ownership, token, outcome>>
cronVars == <<open, draft, verdict, fed, passes, entry, disk, saving, review, poll,
              built, drained, owed, promised, escalations, ciBuilt, ciRunning>>
leaseVars == <<lease, builder, working, silent, lapsed>>
allVars == <<part, vars, serverVars, outboundVars, cronVars, leaseVars>>

(* Two of the four priorities are enough for tasks that are as urgent, more       *)
(* urgent and less urgent than each other.                                        *)
HighAndMedium == {1, 2}

MCInit ==
  /\ part \in {"tasks", "server", "outbound", "cron", "lease"}
  /\ Init /\ Server!Init /\ Outbound!Init /\ Cron!Init /\ Lease!Init

MCNext ==
  /\ UNCHANGED part
  /\ IF part = "tasks" THEN Next ELSE UNCHANGED vars
  /\ IF part = "server" THEN Server!Next ELSE UNCHANGED serverVars
  /\ IF part = "outbound" THEN Outbound!Next ELSE UNCHANGED outboundVars
  /\ IF part = "cron" THEN Cron!Next ELSE UNCHANGED cronVars
  /\ IF part = "lease" THEN Lease!Next ELSE UNCHANGED leaseVars

(* The fairness the five modules state, with part as a guard.                     *)
MCSpec ==
  /\ MCInit /\ [][MCNext]_allVars
  /\ WF_vars(part = "tasks" /\ \E t \in Tasks : SpawnReturns(t))
  /\ WF_vars(part = "tasks" /\ \E t \in Tasks : Ends(t))
  /\ WF_serverVars(part = "server" /\ Server!Sweep(0))
  /\ WF_serverVars(part = "server" /\ Server!Start)
  /\ \A k \in Conns :
       WF_serverVars(part = "server" /\ (Server!RecvRegister(k) \/ Server!RecvAck(k) \/ Server!OnClose(k)))
  /\ \A s \in Shims :
       /\ WF_serverVars(part = "server" /\ \E k \in Conns : Server!Connect(s, k))
       /\ WF_serverVars(part = "server" /\ \E ok \in BOOLEAN : Server!Emit(s, ok))
       /\ WF_serverVars(part = "server" /\ \E m \in Server!Msgs : Server!SendAck(s, m))
       /\ WF_serverVars(part = "server" /\ Server!ShimClose(s) /\ ~conn[shim[s].conn].server)
  /\ \A r \in Calls : WF_outboundVars(part = "outbound" /\ Outbound!TimeOut(r))
  /\ WF_cronVars(part = "cron" /\ Cron!Poll) /\ WF_cronVars(part = "cron" /\ Cron!Routing)
  /\ \A f \in Cron!Flows : WF_cronVars(part = "cron" /\ (Cron!Serializes(f) \/ Cron!Renames(f)))
  /\ SF_cronVars(part = "cron" /\ \E r \in Cron!Results \ {"deferred"} : Cron!DrainSpawns(r))
  /\ WF_leaseVars(part = "lease" /\ Lease!Tick)

--------------------------------------------------------------------------------
(* The properties of the components, as their modules state them.  A task and a   *)
(* call are made once, so that "each comes to its end" is that from some time on  *)
(* all have: TLC checks one formula instead of one per task and call.             *)

(* TaskQueue!TasksSettle: an accepted task comes to its end.                      *)
AllTasksSettle == <>[](\A t \in Tasks : status[t] \notin {"queued", "spawning", "running"})

(* BrokerOutbound!NoCallHangs: a call that was sent is answered.                  *)
AllCallsAnswered == <>[](waiting = {})

(* A shim that stays connected gets its backlog settled.                          *)
ConnectedBacklogDrains == Server!ConnectedBacklogDrains

(* A deferred fix is handed over, or the PR moves on.                             *)
OwedFixIsHandedOver == Cron!OwedFixIsHandedOver

(* The agent is told the daemon's result of that very call, and a call waits      *)
(* exactly while it is unanswered.                                                *)
AnswersAreTheDaemons ==
  Outbound!TypeOK /\ Outbound!AnswersAreTheDaemons /\ Outbound!PendingIsUnanswered

(* A builder at work holds the tree; failed attempts hold nothing; an observed hold *)
(* is not stolen; and the tree comes free when nobody works.                         *)
BuilderHoldsTree == Lease!BuilderHoldsTree
NoPhantomHold == Lease!NoPhantomHold
ObservedHoldKept == Lease!ObservedHoldKept
NoOutage == Lease!NoOutage
================================================================================
