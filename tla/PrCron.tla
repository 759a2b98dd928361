---------------------------------- MODULE PrCron --------------------------------
(* What the review cron remembers of one pull request, packages/daemon/src/pr-cron.ts: *)
(* the processed entry in memory and on disk, the poll that walks the repositories of  *)
(* the entity one after the other, the routing of a finished review, and the queue of  *)
(* deferred fixes.  The author is internal.  Leases and the merge itself are PrMerge's *)
(* matter: here a routing in progress holds the review lease, and it does not expire.  *)
(*                                                                                     *)
(* Timestamps are compared, never shown: current says that reviewed_at is not older    *)
(* than the PR's updatedAt, fed that reviewer feedback is newer than the last commit.  *)
EXTENDS Naturals, FiniteSets

CONSTANTS
  MaxCycles,     \* MAX_REVIEW_CYCLES
  MaxDeferrals,  \* MAX_DEFERRED_FIX_ATTEMPTS
  MaxCiFixes,    \* MAX_CI_FIX_ATTEMPTS
  MaxPasses,     \* bound on the verdicts posted
  FailureSets,   \* the sets of failing checks CI may report
  Outcomes,      \* what a reviewer may leave: "approved", "changes", "dismissed", "none"
  MultiRepo,     \* the entity has another repository
  Updates,       \* others comment, post verdicts and set the draft flag
  Others         \* other PRs are saved too

ASSUME CronAssumption ==
  /\ {MaxCycles, MaxDeferrals, MaxCiFixes, MaxPasses} \subseteq Nat \ {0} /\ MaxDeferrals > 1
  /\ Outcomes \subseteq {"approved", "changes", "dismissed", "none"}
  /\ "none" \notin FailureSets /\ {MultiRepo, Updates, Others} \subseteq BOOLEAN

VARIABLES
  open, draft, verdict, fed, passes,  \* GitHub: the PR, its last outcome, verdicts so far
  entry, disk,   \* processed[key] in memory and in pr-reviews.json
  saving,        \* the save each flow awaits
  review,        \* the cron's review and its routing
  poll,          \* where the poll is with this PR, and its listing of it
  built,         \* history: fix builders since the last verdict or review
  drained,       \* history: builders and pages the drain made of the last marker
  owed,          \* history: a fix the routing could not start is still to be started
  promised,      \* history: the PR was said to be reviewed again
  escalations,   \* history: pages for the cycle cap
  ciBuilt, ciRunning  \* history: CI fixers since the last push of a human; at work

github == <<open, draft, verdict, fed, passes>>
store  == <<entry, disk, saving>>
fixes  == <<built, drained, owed, escalations>>
ghosts == <<fixes, promised, ciBuilt, ciRunning>>
cvars  == <<github, store, review, poll, ghosts>>

NoEntry == [outcome |-> "absent"]

\* A flow that awaits no save, one whose save has not serialized yet; else what it
\* serialized.  "other" stands for the saves made for other PRs: all go to one file.
Flows == {"poll", "route", "other"}
NoSave == [outcome |-> "idle"]
Asked  == [outcome |-> "asked"]
Free(f) == saving[f] = NoSave
Entries == [outcome: {"approved", "changes", "none"}, current: BOOLEAN, deferred: BOOLEAN,
            failures: 0..MaxDeferrals - 1, escalated: BOOLEAN,
            attempts: 0..MaxCiFixes, alerted: FailureSets \cup {"none"}]

\* A new entry: reviewed_at is now.
Fresh(outcome) ==
  [outcome |-> outcome, current |-> TRUE, deferred |-> FALSE, failures |-> 0,
   escalated |-> FALSE, attempts |-> 0, alerted |-> "none"]

Prior(outcome) == IF entry = NoEntry THEN Fresh(outcome) ELSE entry

NoPoll == [at |-> "idle", current |-> FALSE, draft |-> FALSE, promised |-> FALSE]

TypeOK ==
  /\ {open, draft, fed, owed, promised} \subseteq BOOLEAN
  /\ verdict \in {"approved", "changes", "dismissed", "none"} /\ passes \in 0..MaxPasses
  /\ {entry, disk} \subseteq Entries \cup {NoEntry}
  /\ saving \in [Flows -> Entries \cup {NoEntry, NoSave, Asked}]
  /\ review \in {"none", "running", "routing", "capping", "fixing", "merging"}
  /\ poll \in [at: {"idle", "listed", "deciding", "starting", "draining", "spawning", "retrying", "ci"},
               current: BOOLEAN, draft: BOOLEAN, promised: BOOLEAN]
  /\ {built, drained, escalations, ciRunning} \subseteq 0..2 /\ ciBuilt \in 0..MaxCiFixes + 1

Init ==
  /\ open = TRUE /\ draft = FALSE /\ verdict = "none" /\ fed = FALSE /\ passes = 0
  /\ entry = NoEntry /\ disk = NoEntry /\ saving = [f \in Flows |-> NoSave]
  /\ review = "none" /\ poll = NoPoll
  /\ built = 0 /\ drained = 0 /\ owed = FALSE /\ escalations = 0
  /\ promised = FALSE /\ ciBuilt = 0 /\ ciRunning = 0

UpTo2(n) == IF n < 2 THEN n + 1 ELSE n

--------------------------------------------------------------------------------
(* The store.                                                                     *)

\* this.processed[key] = e, then await save_pr_reviews.
Saves(f, e) == entry' = e /\ saving' = [saving EXCEPT ![f] = Asked] /\ UNCHANGED disk

\* The save of another PR's entry changes nothing here until it serializes.
OtherSaves ==
  /\ Free("other") /\ saving' = [saving EXCEPT !["other"] = entry]
  /\ UNCHANGED <<entry, disk, github, review, poll, ghosts>>

\* write_json_atomic: the memory is serialized after the mkdir, the temp file renamed
\* after it is written; nothing orders the renames of two saves.
Serializes(f) ==
  /\ saving[f] = Asked /\ saving' = [saving EXCEPT ![f] = entry]
  /\ UNCHANGED <<entry, disk, github, review, poll, ghosts>>
Renames(f) ==
  /\ saving[f] \notin {NoSave, Asked}
  /\ disk' = saving[f] /\ saving' = [saving EXCEPT ![f] = NoSave]
  /\ UNCHANGED <<entry, github, review, poll, ghosts>>

\* clear_fix_deferred.
Clears ==
  IF entry = NoEntry THEN UNCHANGED store
  ELSE Saves("poll", [entry EXCEPT !.deferred = FALSE, !.failures = 0])

\* Mutant: a spawn that fails is not queued.
MarksDeferredOnly(failed) ==
  IF failed THEN UNCHANGED store ELSE Saves("route", [Prior("changes") EXCEPT !.deferred = TRUE])

\* mark_fix_deferred; a failed spawn counts as the first failure.
Marks(failed) ==
  Saves("route", [Prior("changes") EXCEPT !.deferred = TRUE, !.failures = IF failed THEN 1 ELSE @])

--------------------------------------------------------------------------------
(* Handing a changes-requested verdict over: to a builder, or to a human.         *)

Builds    == built' = UpTo2(built) /\ owed' = FALSE /\ UNCHANGED escalations
Abandons  == owed' = FALSE /\ UNCHANGED <<built, escalations>>
Escalates == escalations' = UpTo2(escalations) /\ owed' = FALSE /\ UNCHANGED built
Settles   == drained' = UpTo2(drained)

\* count_review_cycles: 0 when gh fails.
Counts == {0, passes}

Cleared(e) == [e EXCEPT !.deferred = FALSE, !.failures = 0]

\* enforce_review_cycle_cap at the cap: page and record it, or stay quiet when the
\* entry was escalated before.  The drain, unlike the routing, clears the marker as well.
Capped(f) ==
  LET e == [Prior("changes") EXCEPT !.outcome = "changes", !.escalated = TRUE]
      told == entry # NoEntry /\ entry.escalated
  IN \/ ~told /\ Saves(f, IF f = "poll" THEN Cleared(e) ELSE e) /\ Escalates
     \/ told /\ f = "poll" /\ Saves(f, Cleared(entry)) /\ Abandons
     \/ told /\ f # "poll" /\ UNCHANGED store /\ Abandons

\* spawn_ci_fixer up to its end: the cap, the dedup against reviews, a failed token,
\* else the attempt is recorded and a builder spawned, unless the spawn throws.  The
\* retry of the poll, unlike the routing, saves that it was handled.
SpawnsCiFixer(f, set, retried) ==
  LET attempts == IF entry = NoEntry THEN 0 ELSE entry.attempts
      exhausted == attempts >= MaxCiFixes \/ review = "running"
  IN \/ exhausted /\ retried /\ Saves(f, [Prior("approved") EXCEPT !.alerted = set]) /\ UNCHANGED <<ciBuilt, ciRunning>>
     \/ exhausted /\ ~retried /\ UNCHANGED <<store, ciBuilt, ciRunning>>
     \/ ~exhausted /\ UNCHANGED <<store, ciBuilt, ciRunning>>
     \/ /\ ~exhausted
        /\ Saves(f, [Prior("approved") EXCEPT !.attempts = attempts + 1, !.alerted = set])
        /\ \/ UNCHANGED <<ciBuilt, ciRunning>>
           \/ /\ ciBuilt' = IF ciBuilt > MaxCiFixes THEN ciBuilt ELSE ciBuilt + 1
              /\ ciRunning' = UpTo2(ciRunning)

--------------------------------------------------------------------------------
(* The poll.                                                                      *)

At(at) == poll' = [poll EXCEPT !.at = at]

\* check_repo lists this repository: a closed PR loses its entry.
Lists ==
  /\ poll.at = "idle"
  /\ IF open
     THEN /\ poll' = [at |-> "listed", draft |-> draft, promised |-> promised,
                      current |-> entry # NoEntry /\ entry.current]
          /\ UNCHANGED store
     ELSE entry # NoEntry /\ Saves("poll", NoEntry) /\ UNCHANGED poll
  /\ UNCHANGED <<github, review, ghosts>>

\* check_repo lists another repository of the entity: the sweep deletes every entry
\* of the entity that is not in that listing.
OtherRepoLists ==
  /\ MultiRepo /\ Free("poll") /\ poll.at = "idle" /\ entry # NoEntry
  /\ Saves("poll", NoEntry) /\ UNCHANGED <<github, review, poll, ghosts>>

\* The main loop: skip a draft and what is processed and not updated since; an
\* updated PR loses its entry, in memory only.
Looks ==
  /\ poll.at = "listed"
  /\ IF poll.draft \/ (entry # NoEntry /\ (entry.current \/ poll.current))
     THEN At("draining") /\ UNCHANGED entry
     ELSE entry' = NoEntry /\ At(IF review = "running" THEN "draining" ELSE "deciding")
  /\ UNCHANGED <<github, disk, saving, review, ghosts>>

\* should_skip_pr; when gh fails the PR is not skipped.
Decides(fetched) ==
  /\ poll.at = "deciding" /\ At(IF fetched /\ fed THEN "draining" ELSE "starting")
  /\ UNCHANGED <<github, store, review, ghosts>>

\* review_pr: a lease conflict or a failed spawn starts nothing.
Starts(spawned) ==
  /\ poll.at = "starting" /\ At("draining")
  /\ review' = IF review = "none" /\ spawned THEN "running" ELSE review
  /\ promised' = FALSE
  /\ UNCHANGED <<github, store, fixes, ciBuilt, ciRunning>>

\* retry_deferred_fixes: skip what is not deferred, under review or a draft; at the
\* cycle cap page and drop the marker.
Drains(cycles) ==
  /\ poll.at = "draining"
  /\ IF entry = NoEntry \/ ~entry.deferred \/ review = "running" \/ poll.draft
     THEN At("retrying") /\ UNCHANGED <<store, fixes>>
     ELSE IF cycles >= MaxCycles THEN At("retrying") /\ Capped("poll") /\ Settles
     ELSE At("spawning") /\ UNCHANGED <<store, fixes>>
  /\ UNCHANGED <<github, review, promised, ciBuilt, ciRunning>>

\* Mutant: the marker survives the spawn it asked for.
DrainSpawnsKeepsMarker(result) ==
  /\ poll.at = "spawning" /\ At("retrying")
  /\ IF result = "spawned" THEN Builds /\ Settles /\ UNCHANGED store ELSE UNCHANGED <<store, fixes>>
  /\ UNCHANGED <<github, review, promised, ciBuilt, ciRunning>>

\* The spawn of a deferred fix: a busy worktree keeps the marker, a failure is counted,
\* the last one is given up loudly.
DrainSpawns(result) ==
  /\ poll.at = "spawning" /\ At("retrying")
  /\ \/ result = "deferred" /\ UNCHANGED <<store, fixes>>
     \/ result = "spawned" /\ Clears /\ Builds /\ Settles
     \/ /\ result = "failed" /\ entry # NoEntry /\ entry.failures + 1 < MaxDeferrals
        /\ Saves("poll", [entry EXCEPT !.failures = @ + 1]) /\ UNCHANGED fixes
     \/ result = "failed" /\ entry # NoEntry /\ entry.failures + 1 >= MaxDeferrals /\ Clears /\ Abandons /\ Settles
     \/ result = "failed" /\ entry = NoEntry /\ UNCHANGED <<store, fixes>>
  /\ UNCHANGED <<github, review, promised, ciBuilt, ciRunning>>

\* retry_approved_unmerged: only what the entry, or without one GitHub, calls approved.
Retries ==
  /\ poll.at = "retrying"
  /\ LET approved == IF entry = NoEntry THEN verdict = "approved" ELSE entry.outcome = "approved"
     IN IF review = "running" \/ ~approved THEN At("idle") /\ UNCHANGED store
        ELSE IF open THEN At("ci") /\ UNCHANGED store
        ELSE At("idle") /\ IF entry = NoEntry THEN UNCHANGED store ELSE Saves("poll", NoEntry)
  /\ UNCHANGED <<github, review, ghosts>>

RetryEnds == poll.at = "ci" /\ At("idle") /\ UNCHANGED <<github, store, review, ghosts>>

\* CI is green and the lease is free.
RetryMerges ==
  /\ poll.at = "ci" /\ review = "none" /\ open
  /\ open' = FALSE /\ Saves("poll", Fresh("approved")) /\ At("idle") /\ owed' = FALSE
  /\ UNCHANGED <<draft, verdict, fed, passes, review, built, drained, escalations, promised, ciBuilt, ciRunning>>

RetryFixesCi(set) ==
  /\ poll.at = "ci" /\ (entry # NoEntry => entry.alerted # set)
  /\ SpawnsCiFixer("poll", set, TRUE) /\ At("idle")
  /\ UNCHANGED <<github, review, fixes, promised>>

--------------------------------------------------------------------------------
(* The review and its routing.                                                    *)

Stale(e) == IF e \in {NoEntry, NoSave, Asked} THEN e ELSE [e EXCEPT !.current = FALSE]
Touched ==
  entry' = Stale(entry) /\ disk' = Stale(disk) /\ saving' = [f \in Flows |-> Stale(saving[f])]

\* A reviewer leaves outcome o on GitHub.
Posts(o) ==
  IF o = "none" THEN UNCHANGED <<github, store>>
  ELSE /\ passes < MaxPasses /\ passes' = passes + 1 /\ verdict' = o /\ fed' = TRUE
       /\ Touched /\ UNCHANGED <<open, draft>>

NewRound ==
  /\ built' = 0 /\ owed' = FALSE /\ promised' = FALSE
  /\ UNCHANGED <<drained, escalations, ciBuilt, ciRunning>>

\* session:completed, and session:failed.
SessionDone(o) ==
  /\ review = "running" /\ review' = "routing" /\ Posts(o) /\ NewRound /\ UNCHANGED poll
SessionFails == review = "running" /\ review' = "none" /\ UNCHANGED <<github, store, poll, ghosts>>

\* persist_review_completion: a dismissed outcome is announced and not persisted, any
\* other one replaces the outcome of the entry.
Persists ==
  /\ review = "routing"
  /\ IF verdict = "dismissed" THEN UNCHANGED store
     ELSE Saves("route", [Prior(verdict) EXCEPT !.outcome = verdict, !.current = TRUE])
  /\ review' = IF verdict = "changes" THEN "capping" ELSE IF verdict = "approved" THEN "merging" ELSE "none"
  /\ promised' = (verdict \in {"dismissed", "none"})
  /\ poll' = [poll EXCEPT !.current = @ \/ verdict # "dismissed"]
  /\ UNCHANGED <<github, fixes, ciBuilt, ciRunning>>

\* An entry that is made anew has a reviewed_at newer than the poll's listing.
Renewed == poll' = [poll EXCEPT !.current = @ \/ entry = NoEntry]

\* The routing of changes requested: the cap, then the builder.
RouteCaps(cycles) ==
  /\ review = "capping"
  /\ IF cycles >= MaxCycles THEN review' = "none" /\ Capped("route") /\ UNCHANGED drained
     ELSE review' = "fixing" /\ UNCHANGED <<store, fixes>>
  /\ Renewed /\ UNCHANGED <<github, promised, ciBuilt, ciRunning>>

RouteSpawns(result) ==
  /\ review = "fixing" /\ review' = "none"
  /\ IF result = "spawned" THEN Builds /\ UNCHANGED <<store, drained>>
     ELSE Marks(result = "failed") /\ drained' = 0 /\ owed' = (open /\ fed /\ verdict = "changes")
          /\ UNCHANGED <<built, escalations>>
  /\ Renewed /\ UNCHANGED <<github, promised, ciBuilt, ciRunning>>

\* The routing of an approval: CI is pending, or the gate or the merge fails; the
\* merge succeeds; CI failed.
RouteEnds == review = "merging" /\ review' = "none" /\ UNCHANGED <<github, store, poll, ghosts>>

RouteMerges ==
  /\ review = "merging" /\ open /\ review' = "none" /\ open' = FALSE
  /\ owed' = FALSE
  /\ UNCHANGED <<draft, verdict, fed, passes, store, poll, built, drained, escalations, promised, ciBuilt, ciRunning>>

RouteFixesCi(set) ==
  /\ review = "merging" /\ SpawnsCiFixer("route", set, FALSE) /\ review' = "none"
  /\ Renewed /\ UNCHANGED <<github, fixes, promised>>

--------------------------------------------------------------------------------
(* GitHub, the builders and the daemon process.                                   *)

\* A webhook reviewer or a human posts a verdict.
OtherVerdict(o) ==
  Updates /\ o # "none" /\ open /\ Posts(o) /\ NewRound /\ UNCHANGED <<review, poll>>

Pushed ==
  /\ open /\ fed' = FALSE /\ Touched /\ owed' = FALSE
  /\ UNCHANGED <<open, draft, verdict, passes, review, poll, built, drained, escalations, promised>>

HumanPushes == Pushed /\ ciBuilt' = 0 /\ UNCHANGED ciRunning

\* A CI fixer ends, with or without a push.
FixerPushes == ciRunning > 0 /\ Pushed /\ ciRunning' = ciRunning - 1 /\ UNCHANGED ciBuilt
FixerEnds ==
  /\ ciRunning > 0 /\ ciRunning' = ciRunning - 1
  /\ UNCHANGED <<github, store, review, poll, fixes, promised, ciBuilt>>

\* A comment that is no verdict.
Comment ==
  /\ Updates /\ open /\ Touched /\ UNCHANGED <<github, review, poll, ghosts>>

TogglesDraft ==
  /\ Updates /\ open /\ draft' = ~draft /\ Touched
  /\ UNCHANGED <<open, verdict, fed, passes, review, poll, ghosts>>

Closes ==
  /\ open /\ open' = FALSE /\ owed' = FALSE /\ Touched
  /\ UNCHANGED <<draft, verdict, fed, passes, review, poll, built, drained, escalations, promised, ciBuilt, ciRunning>>

\* The daemon is restarted: its sessions die with its process group.
Restart ==
  /\ entry' = disk /\ saving' = [f \in Flows |-> NoSave] /\ review' = "none"
  /\ poll' = NoPoll
  /\ built' = 0 /\ drained' = 0 /\ owed' = FALSE /\ promised' = FALSE /\ ciRunning' = 0
  /\ escalations' = 0 /\ UNCHANGED <<github, disk, ciBuilt>>

Results == {"spawned", "deferred", "failed"}

\* Every flow awaits its saves.
Poll ==
  /\ Free("poll")
  /\ \/ Lists \/ Looks \/ (\E b \in BOOLEAN : Decides(b) \/ Starts(b))
     \/ (\E n \in Counts : Drains(n)) \/ (\E r \in Results : DrainSpawns(r))
     \/ Retries \/ RetryEnds \/ RetryMerges \/ (\E set \in FailureSets : RetryFixesCi(set))

Routing ==
  /\ Free("route")
  /\ \/ (\E o \in Outcomes : SessionDone(o)) \/ SessionFails \/ Persists
     \/ (\E n \in Counts : RouteCaps(n)) \/ (\E r \in Results : RouteSpawns(r))
     \/ RouteEnds \/ RouteMerges \/ (\E set \in FailureSets : RouteFixesCi(set))

SaveSteps ==
  \E f \in Flows :
    /\ f = "other" => Others
    /\ (f = "other" /\ OtherSaves) \/ Serializes(f) \/ Renames(f)

Next ==
  \/ Poll \/ OtherRepoLists \/ Routing \/ SaveSteps
  \/ (\E o \in Outcomes : OtherVerdict(o))
  \/ HumanPushes \/ FixerPushes \/ FixerEnds \/ Comment \/ TogglesDraft \/ Closes \/ Restart

Spec == Init /\ [][Next]_cvars

\* The timer fires and gh, git and the reviewers answer; a worktree is not busy for
\* ever (its lease has a TTL and a reaper).
Fairness ==
  /\ WF_cvars(Poll) /\ WF_cvars(Routing) /\ \A f \in Flows : WF_cvars(Serializes(f) \/ Renames(f))
  /\ SF_cvars(\E r \in Results \ {"deferred"} : DrainSpawns(r))

FairSpec == Spec /\ Fairness

--------------------------------------------------------------------------------
(* Properties.                                                                    *)

\* A queued fix is settled at most once in a daemon life: one builder, or one page.
QueuedFixSettledOnce == drained <= 1

\* The entries, saves and polls keep their types while queued fixes are settled once.
FixesInOrder == TypeOK /\ QueuedFixSettledOnce

\* ProcessedPR: the deferral is "Persisted rather than in-memory because the whole point
\* of the queue is to survive a daemon restart": saved, once nobody is saving.
MarkerIsSaved ==
  entry # NoEntry /\ entry.deferred /\ (\A f \in Flows : Free(f)) => disk # NoEntry /\ disk.deferred

\* A deferred fix is handed over, or the PR moves on, whatever the spawns do.
OwedFixIsHandedOver == owed ~> ~owed

\* retry_deferred_fixes: "A live review session on this PR will route its own fix", so
\* a review is followed by one builder, of its routing or of the drain.
OneBuilderPerReview == built <= 1

\* handle_review_completion: the marker "is the ONLY thing that keeps this work alive",
\* so while a fix is owed there is one.
OwedFixIsQueued == owed => entry # NoEntry /\ entry.deferred

\* A PR whose reviews were dismissed, or whose review left no verdict, is reviewed by
\* the next poll that looks at it ("will be re-reviewed next cycle", "a new review will
\* handle it").
PromiseIsKept ==
  [][poll.at \in {"listed", "deciding"} /\ poll.promised /\ promised /\ ~poll.draft
       /\ review = "none" => poll'.at # "draining"]_cvars

\* enforce_review_cycle_cap: "Escalation itself is announced once".
EscalatedOnce == escalations <= 1

\* spawn_ci_fixer: the retry cap, "max 3 attempts".
CiFixCapped == open => ciBuilt <= MaxCiFixes

\* spawn_ci_fixer: "if a review/fix is already in-flight for this PR, skip".
OneCiFixer == open => ciRunning <= 1
================================================================================
