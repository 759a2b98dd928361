# lobster-farm in TLA+

This directory holds a verification development of the lobster-farm daemon: TLA+
modules that model its components, TLC configurations that model-check them on small
instances, and theorems about them that TLAPS checks for every value of the constants.
Every definition is a reading of the TypeScript source; `PROJECT.json` maps each one to
the lines it stands for, lists the runs, and pairs every checked property with a mutation
of the code that breaks it.

## 1. The system

lobster-farm is a daemon (`packages/daemon`) that runs a pool of Claude Code sessions in
tmux, each attached to a Discord channel, plus the automation around them: reviewing and
merging pull requests, fixing CI, triaging Sentry issues, keeping git worktrees clean.  A
CLI (`packages/cli`) installs, starts and updates the daemon through launchd.  The daemon
is one Node.js process: handlers run to completion between `await`s, so interleavings
happen exactly at awaits, timers, child-process events and socket events.  A model's
step is one such synchronous stretch.

| Component (packages/daemon/src unless noted) | State it keeps | Operations | Talks to | What is hard |
|---|---|---|---|---|
| Broker queue `broker/queue.ts` | entries by id, write loop, file | load, enqueue, mark_delivered, ack, clear, sweep, flush | server, disk | async coalesced writes, crash and reload, attempt budget |
| Broker facade and server `broker/index.ts`, `broker/server.ts` | channel ownership, connections, owners | feed, register, release, deregister, deliver, sweep | pool, shims over a unix socket | reconnects, late closes, ordering, silent loss |
| Discord shim `shim/discord-shim.ts` | socket, pending calls | emit then ack, outbound calls | CLI, server | lost connections, timeouts against late answers |
| Bot pool `pool.ts` | bots and their states, locks, session history, tmux | assign, release, park, resume, evict, heal, restart | discord, broker, tmux, persistence | locks held across awaits, eviction races, crashes |
| Task queue and sessions `queue.ts`, `session.ts` | pending and active tasks, child processes | submit, process, complete, fail, cancel | persistence, Claude CLI | completion before registration, capacity |
| PR cron `pr-cron.ts` | processed PRs, active reviews | poll, review, merge retry, deferred fixes | leases, session manager, GitHub | results crossing with webhooks, markers lost |
| Webhooks, check suites `webhook-handler.ts`, `check-suite-handler.ts` | active reviews by SHA, attempt counters in files, v2 state | review, requeue, fix, merge, notify | leases, session manager, GitHub | duplicate and reordered events |
| Merge gate `merge-gate.ts`, `staging-promotion.ts` | none (GitHub and git) | re-check then merge or promote | GitHub, leases | state changes between check and merge |
| Review leases `review-lease.ts` | lease per PR with expiry | acquire, release, holds, gate | cron, webhook, HTTP API | expiry under a holder that still works |
| Worktree leases and cleanup `worktree-lease.ts`, `worktree-cleanup.ts` | leases per path, cleanup candidates | acquire, observe, release, reap, remove | cron, hooks, git | removing a tree in use, pid reuse |
| PR watches `pr-watches.ts` | watches per PR | add, remove, expire, notify | webhook, pool | concurrent saves |
| Commander `commander-process.ts` | process state, restart backoff | start, monitor, restart, stop | tmux | crash loops |
| Discord front end `discord.ts` | channel map, rooms and their archives, gateway client | route message, commands, rooms, swaps | pool, broker | message before assignment, commands cut at awaits |
| Gateway watchdog, plugin liveness, rate limits, reply enforcement | timers, counters | poll, escalate | pool, discord | false alarms, repeated actions |
| Sentry triage, alert router | incident state, dedup maps | triage, route, throttle | sessions, discord | duplicates |
| Persistence `persistence.ts` | JSON files | atomic write, load, temp sweep | every stateful part | torn writes, leftovers |
| Process guards `singleton.ts`, `pid.ts`; HTTP `server.ts`; start-up `index.ts` | lock, pid file, routes | acquire, release, boot order | launchd, CLI | two daemons, partial start |
| CLI `packages/cli` | launchd job, dist build | start, stop, restart, update, init | daemon, launchd | stale builds, races with launchd |

`PROJECT.json` lists each of these with its status.  What makes a component correct is
stated per module below; what is hard to test is listed there as hazards, at the line
where it bites, each with the properties that would catch it.

## 2. Plan

In order of importance; what is done is marked.

1. Broker (done): `QueueEntries`, `DurableMailbox`, `BrokerQueue`, `BrokerQueue_proofs`,
   `BrokerServer` and `BrokerServer_proofs`, `BrokerOutbound`.  Abstract specification: the
   mailbox.  Theorems: durability, exact coalescing, refinement, order, the safety of the
   server, answers of tool calls.
2. Pull requests (done): `ReviewLease` and `PrMerge` with `PrMerge_proofs`, `PrCron`,
   `CheckSuite`, `FixSpawners`.  `PrCron_proofs` has the theorem about `PrCron`.
3. Tasks (done): `TaskQueue`, `Progress_proofs`.
4. Pool (done): `BotPool`, `BotPool_proofs`.  Left: a composition with `BrokerServer`, whose
   ownership it sees as `owner`.
5. Worktrees (done): `WorktreeLease`, with its proofs in `Progress_proofs`, `WorktreeCleanup`.
6. Services (done): `Commander`, `Gateway`, `SentryTriage`, `AlertRouter`, `PrWatches`,
   `Rooms`, `Lifecycle`, with `Services_proofs` and `ServiceFiles_proofs` for all of them.
   Left: `ReplyEnforcement`.

Runs use two or three members of each set, one or two of each fault, and name their
bounds; theorems are worth proving for the stores whose invariants are inductive over
data (queue, leases, task queue, pool states, the PR entry).

The suite is kept small enough to run as a whole on every change: a dozen configurations,
each with the properties that one instance serves, and the parts that do not call each other
together in two (`MCServices` for safety, `MCProgress` for liveness).

## 3. Modules

### 3.1 The broker

`QueueEntries` holds the pure operations on queue entries: what is due, what an attempt
does to an entry's budget.  Messages are numbered in the order they are fed; the number is
the queue id and the enqueue stamp at once.

`BrokerQueue` is `queue.ts` at the granularity of its awaits.  `Feed`, `Deliver`,
`SweepQueue`, `Ack` and `ClearChannel` are the synchronous handlers that call the queue's
methods; `SchedulePersist` is part of each.  The write loop is split where it suspends:
the keys are copied when an iteration starts (`snapKeys`), the fields are serialized after
the `mkdir` await (`Serialize`), the rename lands or any step fails (`WriteLands`,
`WriteFails`), and a request made meanwhile causes one follow-up.  `StopBegin`/`StopDone`
are `flush`; `Crash` may come at any await; `Start` is `load`.  The two clocks are sets:
`windowOver` (redelivery window passed) and `aged` (past the dead-letter age).

`DurableMailbox` is what the queue promises: a message is held until settled; a crash
loses only what no write contained, and may bring back settlements not written.
`BrokerQueue` implements it under the mapping `Box`, with `durable <- landed`.

`BrokerServer` adds the facade's ownership, the server's connections and the shims.  A
connection slot has two ends and two pipes: bytes in flight when the writer closes can
still be read, bytes written to a closed reader are lost, closes are noticed late.  The
queue's file is written in one step here (`BrokerQueue` opens it up).  `Connect` assumes
that the register envelope of a connection that was closed before is read before the same
channel's next connection is made: the shim waits at least 500 ms (backoff) or 3 s (grace)
and the server reads a local socket.  Without it two registers could be processed in the
wrong order; nothing else in the code orders them.  An ack that falls due while its shim has
no open connection is lost here; in the code it is buffered when the next socket is already
connecting (`discord-shim.ts:243`, `:353`), which spares a redelivery that the model has.

`BrokerOutbound` follows tool calls from the agent through shim, socket, daemon and REST
call back, with the 20 s timer and reconnects.

| Run | Question | Bounds |
|---|---|---|
| queue | is anything durable lost, do writes coalesce correctly, is delivery in order, is the mailbox implemented, does every message leave the queue | 1 channel, 2 messages, 1 attempt, 2 daemon lives |
| server_safety | who may receive a message, who may remove it | 2 channels, 2 shims, 2 slots, 1 message, 1 crash, 2 launches |
| progress (parts `server`, `outbound`) | does a connected shim drain the backlog without the age limit; is each call answered, with its own result, in bounded time | 1 channel, 1 message, 1 shim launched once, 2 slots, 1 crash; 2 calls, 2 connections |
| outbound_backpressure | is a result reported as the daemon gave it (it is not) | 2 calls, 2 bots, 2 connections |

One channel is enough for the queue's own state: channels meet in the file, which every
write replaces as a whole, and the theorems hold for any number of them.
Two messages suffice for ordering and for a write that contains one but not the other;
one attempt makes the budget boundary (first attempt, refusal) reachable with few steps;
two lives give load, work, crash, load.  Two slots and two shims give a superseded
connection whose close is late and a slot taken by another channel (a connection object of
the code is fresh; that a slot is used again belongs to the bound).

Fairness: `setInterval` keeps calling the sweep while the daemon runs; a write that
started ends, well or badly; time passes; launchd starts a daemon that is down
(KeepAlive); a shim reconnects, reads and acks; a timer fires.  Nothing is assumed of
users, of the pool's calls, of crashes or of sessions being launched.
The type invariants of `BrokerServer` and `BrokerOutbound` are checked as conjuncts of
`ConnectionsInOrder` (with the order of owners and registrations) and of
`AnswersAreTheDaemons`.  `ConnectedBacklogDrains` has "some shim stays open" as its premise, because nothing in the
code guarantees that.

Proved (`BrokerQueue_proofs`, for any number of channels, messages, attempts and
restarts, from the assumptions `EntriesAssumption` and `QueueAssumption`):
`TypeCorrect`; `LandedKept` from the invariant `KeepInv`, which adds to `LandedIsKept`
that what the writer holds (`snapKeys`, `snap`) and what the file holds is consistent with
the queue: a live message that ever landed is in every later snapshot, so the next rename
cannot remove it; `CoalescingExact` from `ExactInv`, which says that whenever memory
differs from the snapshot being written a follow-up is pending; and from these
`GracefulStop`, `SettledStays`, `DeadLettersSpent` and `MailboxImplemented`, the step
simulation of the abstract mailbox.  Typing and `SettledStays` are only proved: the runs
leave them out because the theorems need no instance.

`OldestFirst` is the order of delivery, from `OrderInv`: the order must hold not only of the
Map but of the keys the writer has copied, of its snapshot and of the file, because a
restart takes them up again; a copied key that has left the Map was acked, so it had been
offered, or was cleared with the rest of its channel.  The attempt to prove it corrected
the property.  It used to say that an older live message counts an attempt whenever a
younger one does, which holds for two daemon lives and fails with three: an ack is
forgotten by a crash while a write that kept the younger entry's count was under way, and
the older message comes back without its attempts.  What holds, and is now stated, is that
the older one has been offered to a shim.

Proved (`BrokerServer_proofs`, for any number of channels, shims, slots, messages and
faults, from `EntriesAssumption` and `ServerAssumption`): the four properties of
`server_safety`, from one invariant `SInv`.  Its parts beside the types: an end of a
connection is open for one channel and only that one is registered on it (`Slots`); an open
shim has the client end of a connection to itself (`Sessions`); all the places of a message
(Map, file, pipes, sessions) agree on its channel (`OneChannel`, which is what
`NoCrossChannel` needs to be inductive); an ack that is due, under way or done is for a
message a CLI was handed (`Acks`); a daemon that is down has no server ends (`DownDaemon`).
`OldestSorts` shows that `Oldest`, the order of a backlog, lists each message once and in
order.  `NothingDroppedSilently` is an action property: one lemma per action says what
the action may do to a live entry.

Proved (`Progress_proofs`, from `LinksAssumption`): `AgentHearsTheDaemon` about
`BrokerOutbound`.  The invariant adds that a call is in one place at a time, asked, running
or answered, and that a result on its way back is the call's outcome (`CallsInOnePlace`).

All liveness is model-checked only (TLAPS proves no liveness under fairness).

Where code and documents disagree.  `outbound_backpressure` is a run:
`request_outbound` takes `socket.write() === false` (backpressure) for a failure and
answers "write failed" for a call that will be executed.  Two more statements are written
as properties that no configuration lists; TLC refutes each in a few states when it is
added to the configuration of its module:
- `PersistedBeforeDelivery` (`BrokerQueue`): `feed` offers a message to a connected shim in
  the same synchronous step that merely starts the asynchronous write, while
  `broker/README.md:34` says every inbound is persisted before any delivery attempt.
- `TokenIsRegistered` (`BrokerOutbound`): outbound calls use the channel's owner when the
  call is read, not "the bot bound to the connection at register time"
  (`broker/README.md:118`).

### Pull requests: `ReviewLease`, `PrMerge`, `PrMerge_proofs`

`ReviewLease` is the store of `review-lease.ts` for one PR: operators over a lease record
(`Granted`, `Acquired`, `Released`, `Holds`).  `PrMerge` composes it with everything that
takes a lease: the cron's review and its merge retry (`pr-cron.ts`), the webhook's review
(`webhook-handler.ts`), a manual review over the HTTP API and a staging promotion
(`server.ts`), next to GitHub (pushes, verdicts, webhooks that come late or repeatedly).
A *flow* is one of these, from acquire to release; its `pc` names the await it is at:
`prep` (token, spawn), `running` (the reviewer's session), `routing` (the verdict is being
read), `deciding` (CI), `merging` (`gh pr merge` and its fallbacks), `closing` (the finally
block).  CI is a free choice whenever it is read.  The variables `approved`, `outlived` and
`robbed` are history.

Faults: lease expiry at any time, spawn and session failures, failing merges, pushes and
comments at any time, an orchestrator that never releases, daemon restarts.  Left out: a
missing lease store or an unresolvable slug (the code is then fail-open), an orchestrator
that gives session ids, a `gh pr merge` that completes after its daemon was killed, v2
entities; the awaits between the look and the acquire of the webhook
(`webhook-handler.ts:546`) and of the cron (`pr-cron.ts:436`), whose acquire decides anyway.

Properties: `OneAtWork` is the mutual exclusion the leases are for; it is stated up to
flows whose lease expired under them (`outlived`) or was released by another (`robbed`),
and both exceptions happen (below).
`NoLeakedLease` says that no exit path forgets its release, `InFlightIsReviewed` that no
webhook entry outlives its reviewer.

| Run | Shows |
|---|---|
| `pr_merge` | the four invariants, two flows, two commits: every interleaving of two flows of any kind with a push.  Two flows are enough for each pairwise race; the theorems cover any number. |
| `pr_merge_reviewed_sha` | a commit pushed after the approval is merged unreviewed |

Three more properties hold of the documents and not of the code; TLC refutes each when it
is added to `PrMerge.cfg`:
- `NoMergeDuringReview`: a merge still under way when its lease expires overlaps the next
  review, against the "hard, code-enforced guarantee" of the review skill.
- `NoOneIsRobbed`: `release` compares the holder's name, not the session, and removes a
  later review's lease (`review-lease.ts:195`).
- `RequeueIsSpawned`: a sha queued behind a review whose spawn fails is never reviewed by
  the webhook (`webhook-handler.ts:530`).

Proved for every number of sessions and commits (`PrMerge_proofs`): the four invariants of
`pr_merge`.  The inductive invariant adds to them `FlowType` (which kind is at which `pc`),
`Owned` (a holding flow that is neither outlived nor robbed owns the lease), `Stamped` (a
lease carries its owner's session id and holder) and `Kinded`; each action is a lemma, and
`OneAtWork` follows because two flows cannot both own the one lease.

### The review cron: `PrCron`, `MCPrCron`

`PrCron` is what `pr-cron.ts` remembers of one pull request: `entry` is
`processed[key]`, `disk` its copy in `pr-reviews.json`, `poll` the place of the poll in
its walk over the PR, `review` the place of a finished review in its routing.  The poll's
listing is taken once (`Lists`) and used after awaits; `promised` in it is history.
Timestamps are reduced to the two comparisons the code makes: `current` (reviewed_at is not
older than updatedAt) and `fed` (feedback is newer than the last commit).  The five phases
of a poll are actions of their own, because each is separated by a `gh` call.  A save is
three steps: asked for, serialized (`Serializes`), renamed (`Renames`); a flow awaits its own
save and nothing orders the saves of two flows.

| Run | Shows |
|---|---|
| `pr_cron` | `FixesInOrder`: the state is typed and a queued fix is settled at most once in a daemon life, and failure budgets are kept; two verdicts, a cap of two cycles, a budget of two, one CI fix: each counter reaches its limit.  The view drops the history variables that no guard reads and these invariants do not name. |
| `progress` (part `cron`) | an owed fix is handed over in the end.  Weak fairness of the poll, the routing and the saves (timers fire, `gh` and git answer); strong fairness of a spawn that does not meet a busy worktree (its lease has a TTL and a reaper). One repository and no comments: with them the marker is lost, as the next run and `OwedFixIsQueued` after a comment show.  A restart ends the obligation here (its history starts anew). |
| `pr_cron_sweep` | the marker of an owed fix is deleted by the sweep of another repository of the entity |

Proved (`PrCron_proofs`, from `CronAssumption`): `DeferredFixSettledOnce`, the
invariant of `pr_cron` for any bounds.  What makes it inductive is `Unsettled`: a marker on
the entry, or a poll about to spawn for it, means that the drain has settled nothing since
the marker was set; a restart, which brings markers back from the file, begins a new
daemon life.

Further statements of the source that the model refutes, each checked alone, without the
view, with the constants of `PrCronSweep.cfg`, `MultiRepo` FALSE, `MaxPasses` 3, two failure
sets, and `Others` or `Updates` TRUE where it is named:
- `OwedFixIsQueued` with `Updates`: a comment deletes the entry and its marker, and the PR is
  then skipped because feedback is newer than its commits (`pr-cron.ts:423`).
- `PromiseIsKept`: a PR said to be re-reviewed, after a dismissal or without a verdict, is
  skipped by the next polls (`pr-cron.ts:1207`, `1524`).
- `MarkerIsSaved` with `Others`: overlapping saves rename in the opposite order and the file loses a
  marker (`persistence.ts:144`).
- `EscalatedOnce`, `CiFixCapped`: flags and counters kept in the entry are lost with it.
- `OneCiFixer`, `OneBuilderPerReview`: two fixers for one state of the PR.

Assumed: the author is internal, the review lease does not expire during the routing
(`PrMerge` covers expiry), `count_review_cycles` may fail and then counts 0, sessions die
with the daemon (launchd kills its process group, `claude-cli.ts:83`).
The drain's two saves and the page between them are one step (`Capped`): the second write
only clears the marker of an entry that is already escalated.  The saves of the other
writers of `pr-reviews.json` do not reach this module, because the cron never reads the
file again; what its own saves do to them is in `CheckSuite` and `FixSpawners`.

### Tasks: `TaskQueue`, `Progress_proofs`

`TaskQueue` is `queue.ts` over the events of `session.ts`.  A task's number is its place
in the order of submission, `pending` is the code's sorted array, `proc` the process of
the task's session.  The code's status `active` is split in two: a `spawning` task is one
call of `process_next` at its await, and a `running` one has its session id.  Every handler
that calls `process_next` ends, in the model, in `ProcessNext`, which is the loop up to its
next await.  `Broken` processes are those that node could not start: they report `error`,
then `close`, with the same session id.  `others` counts the sessions that the cron, the
webhooks and triage spawn without the queue; their ends are events of the queue as well.

| Run | Shows |
|---|---|
| `progress` (part `tasks`) | no stranded task, order of starts; every accepted task ends, when spawns resolve and sessions end (`claude -p` runs one prompt and exits).  Two slots, a queue of two, four tasks: loops overlap at their awaits, and two tasks wait with both slots taken.  A submission to the full queue needs a fifth task; that the depth is kept is proved. |

Sessions spawned past the queue make the number of processes exceed the announced maximum
(`index.ts:189`); `SessionsCapped` states the announcement and TLC refutes it.

Proved for every number of slots, depth and tasks: typing, capacity (`SlotsRespected`), that
each task is settled by its own process (`Attribution`), no stranded task, and the order of
starts.  Capacity and attribution are only proved.
The invariant adds to them that `pending` is sorted (`Sorted`), that tasks not yet submitted
are `new` (`Unborn`), and `Matched`, which relates a task to its process.  The argument is that every handler hands
`ProcessNext` statuses and a queue that are in order (`Ready`), and that `ProcessNext`
establishes capacity and conservation whatever came before.

### The bot pool: `BotPool`, `MCBotPool`

`BotPool` is `pool.ts` with the Discord handlers that drive it.  `bots` is the pool's own
list, `tmux` what really lives in a bot's session, `saved` the file `pool-state.json`,
`history` the session history, `owner` the channel's registration with the broker.  Every
procedure is cut at its awaits: `asg` is the `assign` in flight of a channel (parking a
victim, spawning, feeding the first message), `rel` the releases at their awaits, `jobs` the
maintenance procedures, one record for each of start-up, health tick and dead letter.  What
a procedure captured before an await is in its record, and after it the procedure acts on
whatever the bot has become.  `fate` is history: what became of each inbound message.

An `assign` is taken to get no explicit `resume_session_id` (`pool.ts:1806`), except in `Rooms`.
Ages and panes are choices, and so is which of several equal bots is found first (any
eviction candidate), so that the order of `sort` is not relied on.  Faults: a session dies,
a spawn fails, the name of a tmux session is taken, the daemon drains, stops or crashes at
any await and boots again over the sessions that survived.

| Run | Shows |
|---|---|
| `pool` | no channel has two bots, assigned or parked (`OneBotPerChannel`); a session of a broker channel was made for a message that drives it, never by a repair (`BrokerSessionsAreDriven`); no message stays in the cold-start buffer without an `assign` that will empty it (`BufferIsTransient`) |
| `pool_cold_start` | a message whose handler awaited the reaction while the session came up is marked as received and given to nobody (`discord.ts:2876`) |

Two bots and two channels, one of them on the broker: a bot is evicted only when none is
free, so a command for the second channel evicts when the first was reset or restarted
onto the other.  Two upsets (deaths, commands, crashes, drains) reach each pair of them.
`CrashLimit` is 0, so that the first death of a plugin session takes the crash-loop path;
the restart path is taken by the repairs at boot.

Proved (`BotPool_proofs`, for any bots, channels, messages and bounds, from
`PoolAssumption`): the three invariants of the run `pool`.  None is inductive.  The
invariant `IInv` adds who may come to hold a channel: the assign in flight of a channel has
chosen a bot, and no other bot holds that channel (`AssignsKnow`); the same of
`pool-state.json`, which a boot takes up (`SavedHolding`); the channel and the bot each
maintenance procedure has captured, with the fact that restarts and resumes are of plugin
channels only (`JobsKnow`, `CandsKnow`); and that a daemon that is down has nothing in
flight (`DownIsIdle`), so that a boot finds the pool its own.

The per-channel lock does not exclude two calls for different channels from taking one
bot while `park_bot` is awaited: the model has the interleaving, and `OneBotPerChannel`
holds over it because the last of them to commit writes its channel and the other's bot is
then no longer its own.  `release_broker_to_dark` and `restart_crashed_session` act after
their awaits on a bot that may serve another channel meanwhile (`pool.ts:2580`); a session
of that other channel is then killed, which the next health tick repairs.  No property is
stated about it, because nothing in the code promises more.

### Worktrees: `WorktreeLease`

One linked tree, the entry of the lease store for its path, and those who use it.  A
builder is one call of `spawn_external_pr_fixer`: `claimed` between the acquire and the
return of the spawn, `alive` while its process lives, `dead` when the process is gone and
its close event has not come, `orphan` when the daemon restarted under it.  Operation id
and session id of an attempt are one value; `OwnedByOp` and `OwnedBySession` say which of
them a lease answers to.  `Lookups` is `live_lease`: the lease, or nothing after its TTL,
or either when its process is dead (the pid may have been recycled).  The store's
operations are synchronous, hence atomic; what happens between the awaits of an attempt is
interleaved.  Time is counted in ticks (explicit TTL 2, observed 1: an observed hold is the
shorter one, and both leave room for a worker that is heard of in time), `silent` is the time
since a worker was heard of, and `lapsed` is a history variable.

| Run | Shows |
|---|---|
| `progress` (part `lease`) | a builder that never lapsed holds the tree from claim to exit; no phantom holds; observed holds are not stolen; no outage, assuming only that time passes (a builder may hang and an agent may stay).  Three attempts: a lapsed one, its successor, and one that would profit from a wrong release. |

Two statements of the source that TLC refutes, without restarts, when they are added:
- `AgentsRespected`: a turn in a tree that a builder holds is recorded nowhere, so the next
  builder is sent beside that agent (`worktree-lease.ts:30`).
- `EndFreesTree`: a builder that lapsed gets an observed lease with its last turn, which its
  release does not own (`pr-cron.ts:680`).

Proved for any builders, agents and TTLs: the safety properties of that part (`Mutex`,
`NoPhantom`, `ObservedHold` in `Progress_proofs`),
and `NoTwoBuilders`: two builders of one daemon in a tree are a lapsed one and its successor.  The
invariant adds that a builder not lapsed has been heard of within its TTL (`NotYetLapsed`)
and that its lease knows its session (`BoundAtWork`): without the second its own turn could
be taken for another's, and the lease would not keep up with its silence.

### Ten services: `MCServices`

Ten parts of the daemon that act without calling each other.  Each has a module of its own,
and `MCServices` checks all of them in one configuration: `service` is chosen in `Init`,
only the part it names takes steps, and the variables of the others keep one initial value.
The VIEW `Running` leaves those out, tells calls in flight apart by what they do and not by
their number (the actions treat all alike), and takes the behaviours of `Rooms` in which
commands have overlapped for one state: overlap is for ever and excepted by the property.  A run of it is therefore ten runs, each with the
bounds of its constants, and a counterexample is one of a single part.

Three of them do share a file.  `pr-reviews.json` is `CheckSuite.prFile`,
`FixSpawners.reviews` and `PrCron.disk`: the check suites, the fixers and reviews of the
webhook, and the cron each save all of it, without a lock, and the cron saves the map it
loaded at its start.  Each of the modules has one of the writers in full and the writes of
the others as actions of their own (`CronSaves`, `CronFixes`, `OtherLoads`, `OtherSaves`;
the clean-up by which `load_pr_reviews` itself rewrites a file with malformed entries,
`persistence.ts:386`, is such a write of another flow).  A composition of the three would
give each writer the other's fields, which none of the properties reads.

| Module | Source | One step is | Property |
|---|---|---|---|
| `CheckSuite` | `check-suite-handler.ts`, `merge-gate.ts`, v2 completion of `webhook-handler.ts`, the other writers of `pr-reviews.json` | a stretch of `handle_check_suite` between load, GitHub and save; of the review's completion; of the gate; a save of the cron or of another flow; a restart | `DispatchesAreBudgeted`: a second session of a commit, or more than `FixLimit` fixers of the PR, only as often as a save took another writer's change back, each save one dispatch and one budget |
| `Commander` | `commander-process.ts` | a stretch of `start`, of a heal, of `stop`; a timer; a poll | `NoSilentDarkness`: a commander that is down has a start, a timer or a heal under way, or was stopped, or has given up with an alert, or is reported dead to the next poll |
| `Gateway` | `gateway-watchdog.ts`, client life cycle of `discord.ts` | a tick, a stretch of `recycle_client`, a deadline | `OneLiveClient`: two clients are logged in only after a recycle came back from `destroy()` after its deadline |
| `WorktreeCleanup` | `worktree-cleanup.ts` | one git call of a removal, of the sweep, of the clean-up after a merge, which may fail; an agent's edit, commit, push, switch | `OnlySafeTreesRemoved`: a removal takes only what its checks protect, at the time they were made - for a branch without work, the time the sweep loaded trunk - unless a git command of the check failed |
| `SentryTriage` | `sentry-triage.ts` | an event, a fetch, a spawn, the registration of the listeners, the end of a session; a throwing update, an unreadable file | `QueuedTriageIsDriven`: a queued triage has a session or a call that will take it up, but for the ways the code misses the queue, which the model names |
| `AlertRouter` | `alert-router.ts` | a load, a post, a search, a save, each of which may fail; a restart | `IncidentsAndThreadsKept`: without overlap the file has the open incidents but for those dropped by a save over a failed read, and a day one thread and one more per failed search |
| `PrWatches` | `pr-watches.ts`, `notify_pr_watcher`, the injection queue of `pool.ts` | a change of the set, a save landing or failing, a prompt typed | `WatchersAreServed`: the file follows the store unless the last change was written beside another or failed, or the load did; a prompt is typed only into the session of the channel that watches |
| `Rooms` | `/room`, `/close`, `/resume` of `discord.ts`, `write_yaml` | a stretch of a command; the truncation and the write of a save, or its failure; an eviction; a message; a restart | `SessionsKeptOnce`: commands whose names and saves do not overlap lose no session, with the exceptions below, and none is in two rooms |
| `FixSpawners` | CI and deploy fixers of `webhook-handler.ts`, the other writers of `pr-reviews.json` | check and load, save, spawn; a save of the cron or of another flow; a restart | `SpawnsAreBudgeted`: each save that takes a change back gives back at most one budget, and while none takes back a deploy attempt the safety valve holds |
| `Lifecycle` | `index.ts`, `singleton.ts`, `pid.ts`, `start`, `stop`, `restart` of the CLI, `recycle_client` against `disconnect` | a step of `main` or `shutdown`, a signal, launchd, a CLI command, a recycle | `OneDaemonAtWork`: port, pool, broker and gateway are one process's at a time, but for a client that a recycle logs in after its own disconnect; a PID in the file runs or was cut short |

| Run | Shows |
|---|---|
| `services` | the ten properties above |
| `check_suite_cron` | a duplicate delivery that comes after the first has been dispatched and saved is dispatched again, because the cron saved its old map in between: against the note at `check-suite-handler.ts:287`, by `SequentialDuplicatesIgnored`, with one suite, one call at a time and no failing read |

Bounds: two calls of each handler in flight, so that each races one other; two commits with
one suite, one fixer and one re-run, three inputs and one save that takes something back
(`MaxLost`, which bounds `FixSpawners` too), so that every kind of such save occurs; one
restart, four upsets of the commander; three clients and two recycles; two branches and two
pieces of an agent's work, one for each check it may fall behind; two Sentry issues over two
session slots and a queue of one; two incidents, two posts and two days; two watchers of one
PR; two rooms, two names, two closings; two runs and one PR with budgets of two and one, a
valve of two and three failures; two processes and two signals.  The components are small,
and each property is about two actors at most.

What the properties except is what the code does not prevent, and each exception is an event
of the model, set by the action that brings it about and by no other:

- `done.lost`, `fixDone.lostReviews`, `fixDone.lostDeploys`: saves of a whole file by a
  writer whose copy lacks a change that is in it (overlap, the cron's map, a read that
  failed and gave an empty file).  The properties say how much one such save can cost.
- `sentryDone.missed`: the queue missed a session that ended while `spawn_triage_session`
  was still reading the state and had no listener (`sentry-triage.ts:639`, `:830`), or a
  round of `process_queue` that an update's throw ended, or a push to the queue after the
  triages it waited for.  It is set back when the queue is empty.
- `routerDone.dropped`, `missed`: a load that fails counts as an empty file and is saved
  back (`alert-router.ts:109`); a thread search that fails counts as no thread
  (`discord.ts:1634`).
- `watchDone.stale`: a write beside another, a write that failed after the store had changed
  (`pr-watches.ts:121`), or a load that failed; until the next change written alone.
- `roomsDone.overlap`, `roomsDone.lost`: commands of one name or saves of the config at the
  same time; a session closed while no bot held it, one whose resume found no bot, and those
  at home when the daemon restarts on an entity file that a save left torn.
- `late` of a cleaner: what came into being after the check that would have seen it.
- `machine.late`: a recycle that was in `destroy()` when `disconnect()` found `connected`
  false and left its client alone (`discord.ts:875`), and logged in afterwards.

What the models reach on the way, without a run of its own:

- `CheckSuite`: a green suite of a commit that needs several is enough for a review, and
  the gate trusts a review that an older suite caused.  A call that fetched the PR before a
  push may load after the later commit was dispatched, and takes its stamp back.
- `Commander`: `health_check` finds a dead session, marks it dead and starts nothing
  (`commander-process.ts:818`), while `:499` says that a death triggers a restart.
- `SentryTriage`: a fix session that completes before its PR is merged sets the status
  `fixed`, and the merge is then skipped (`sentry-triage.ts:1173`), so the incident stays.
- `WorktreeCleanup`: a tree with a detached HEAD, or one whose HEAD a failing git command
  does not tell, passes the check of its branch (`worktree-cleanup.ts:530`); a branch made
  from a trunk that moved after the sweep loaded it counts as worked on.
- `Rooms`: `/resume` deletes the archive although no bot was assigned
  (`discord.ts:3744`); a room closed while no bot held it is archived without its session
  (`discord.ts:3578`); two commands for one name both pass the check (`discord.ts:3460`).
- `FixSpawners`: two events that overlap lose an attempt, and may pass the valve together.
- `Lifecycle`: a `main` that rejects after the port leaves a process that holds the port
  without handlers or PID (`index.ts:668`); a step of `shutdown` that throws leaves the
  process until a second signal; `remove_pid` deletes the PID of a successor that took the
  port already (`pid.ts:15`); `restart` falls back to SIGKILL also when `launchctl` could
  not be started.

Left out or assumed in them: other writers of the entity file (`actions.ts:233`,
`server.ts:1142`), a registry that reads it while a save has it truncated, and what two
overlapping saves of it leave (`Rooms` marks them as overlap); a day that changes while a
thread search is under way (`AlertRouter.Midnight`); `Commander.Stop` clears the last timer,
as the code does, and the code does not null timers that have fired.

Proved, for every value of the constants: each of the ten properties of `services`, as a
theorem about the specification of its module; in `ServiceFiles_proofs` for the five that
keep a file (`AlertRouter`, `PrWatches`, `CheckSuite`, `Rooms`, `FixSpawners`), in
`Services_proofs` for the other five.  The proofs are about the instances that `MCServices`
makes, so that the assumptions on the bounds stand there, are evaluated by its run, and the
properties are the ones it checks.  What each invariant adds to its property:

| Theorem | Invariant | Why it is needed |
|---|---|---|
| `CommitsDispatchedOnce` | `SuiteInv` | copies and maps are within the budget and a call about to save knows an entry without its commit's stamp (`Prepared`); sessions and fixers, with those whose save has landed, are paid for by the entry and by saves that took something back (`Paid`) |
| `CommanderIsNotLost` | `CommandInv` | typing of calls and timers; the property is inductive with it |
| `OneGatewayClient` | `GateInv` | one recycle is within its deadline and the watchdog waits for it (`OneRace`); all other clients are dead, and so is the bot's between `destroy()` and its successor (`OthersDead`) |
| `RemovalsAreSafe` | `TreesInv` | what a check of a cleaner would refuse came into being after it and is noted (`Noted`), for each stage of a removal; the loaded history still tells branches without work, and none of them has been picked (`Judgement`), or that is noted |
| `QueuedTriagesAreDriven` | `SentryInv` | a call of `process_queue` is marked for as long as it goes round (`RoundsMarked`), an active issue has the session it names, running or ended unheard (`ActiveRuns`), and a call that merely opens another incident does not count (`Driven`) |
| `AlertsAreKept` | `RouterInv` | without overlap the one call that holds a copy has the file's, or an empty one after a failed read (`FileAsLoaded`), and one alert creates the thread of a day that has none but missed ones (`ThreadPerDay`) |
| `WatchersServed` | `WatchInv` | the file holds the store or the one write under way does, unless they are known to be apart (`FileWillFollow`); what waits is for the channel that has the session (`QueuedForTheOwner`) |
| `RoomsKeepTheirSessions` | `RoomsInv` | commands under way have different names and rooms (`CommandsApart`), one of them saves (`OneSave`), and they know at each await what they still need (`CommandsFit`); an untorn file has the rooms of the channel map (`FileFits`); a session goes by one name (`OneName`) |
| `SpawnersKeepTheirBudget` | `FixInv` | every copy of a file is within the budgets, that of a call past its checks with room for one attempt (`Capped`); sessions, with those promised, are paid for by the file and by lost saves (`Granted`); those of 24 hours are among the attempts the file counts (`ValveHolds`) |
| `OneDaemon` | `LifeInv` | whoever holds anything holds the port, which one process has (`PortFirst`); the PID in the file was written by its `main` and not taken back (`PidOfOne`) |

### Progress: `MCProgress`

The liveness of the task queue, the broker's server and outbound calls, and the review
cron, and the worktree lease are checked in one configuration of the same form, with `part`
in the place of `service`.  `MCSpec` states the fairness of the five modules with `part` as
a guard.  A
task and a call are made once, so "each comes to its end" is written as "from some time on
all have", one formula instead of one per task; this is equivalent for behaviours in which
finitely many are made, which the bounds give.

## 4. Limits

Every invariant and every action property of a passing run is stated by a theorem, and so is
the refinement of the mailbox.  Model-checked only: the liveness properties
(`EventuallySettled`, `NoOutage`, `AllTasksSettle`, `AllCallsAnswered`,
`ConnectedBacklogDrains`, `OwedFixIsHandedOver`), because the prover has no liveness under
fairness; and the violations, whose counterexamples are TLC's.  No operator of a module with
theorems is recursive; the sums and orders they need are stated with `Cardinality` and
`CHOOSE`.  Only proved, and in no run: the type invariants, `SettledStays`,
`SlotsRespected`, `Attribution` and `OneBuilder`.  Each property of a run has a mutation of the code in `PROJECT.json` that
violates it; the mutated definitions stand beside the originals, named as slips or mutants.

Not modelled: text (chunking, prompts, embed layout, logging), the contents of Discord,
GitHub and Sentry payloads, OS resource limits; reply enforcement and rate-limit recovery,
which decide on the text of a transcript or of a pane; the interactive commands of the CLI
(`init`, `entity`, `update`), which are set-up steps of one user; hooks, actions, router,
registry, environment and GitHub helpers, which load data or wrap a call and keep no state
that two handlers change; `persist-queue.ts`, which nothing uses.  The components that are
`partly` modelled say in `PROJECT.json` what is left out.
