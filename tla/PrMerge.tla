--------------------------------- MODULE PrMerge --------------------------------
(* The life of one pull request of a v1 entity: the pushes and webhooks of GitHub,   *)
(* the review cron (pr-cron.ts), the webhook reviewer (webhook-handler.ts), a manual *)
(* review by Tidus and a staging promotion over the HTTP API (server.ts), all going  *)
(* through the review lease and its merge gate.                                       *)
(*                                                                                   *)
(* A flow is one review, merge retry, manual review or promotion, from its acquire    *)
(* to its release, named by a session id.  Its steps are the synchronous stretches    *)
(* between awaits.  Shas are numbered in push order.  CI is a choice of each look.    *)
EXTENDS ReviewLease, Naturals

CONSTANT MaxSha  \* bound on the commits pushed

ASSUME ShaAssumption == MaxSha \in Nat \ {0}

VARIABLES
  head, merged,    \* GitHub: last pushed sha; the sha that was merged, 0 while open
  verdict, fed,    \* GitHub: outcome of the last review; it is newer than the last commit
  processed,       \* cron: persisted outcome of the PR
  current,         \* cron: the PR was not updated since reviewed_at
  lease,           \* the review lease of the PR
  flow,            \* flows by session id
  hook, requeue,   \* webhook: entry of each sha; the sha to review after it
  approved,        \* history: shas some reviewer approved
  outlived,        \* history: flows whose lease expired while they were at work
  robbed           \* history: flows whose lease another flow's release removed

github == <<head, merged, verdict, fed, approved>>
cron   == <<processed, current>>
hooks  == <<hook, requeue>>
ghosts == <<outlived, robbed>>
pvars  == <<github, cron, lease, flow, hooks, ghosts>>

Shas == 1..MaxSha
Idle == [kind |-> "none", pc |-> "idle", sha |-> 0]
Busy(s) == flow[s].pc # "idle"
Working == {s \in Sessions : Busy(s)}
Of(kinds) == {s \in Working : flow[s].kind \in kinds}

HolderOf == [k \in {"cron", "retry", "webhook", "tidus", "staging"} |->
  CASE k \in {"cron", "retry"} -> "daemon-cron"
    [] k = "webhook" -> "daemon-webhook"
    [] k = "tidus" -> "tidus-manual"
    [] OTHER -> "daemon-staging"]

\* The session id a flow stamps on its lease.
Stamp(k, s) == IF k \in {"retry", "tidus"} THEN NoSession ELSE s

TypeOK ==
  /\ head \in Shas /\ merged \in Shas \cup {0} /\ fed \in BOOLEAN
  /\ verdict \in {"none", "approved", "changes"} /\ processed \in {"none", "pending", "approved", "changes"}
  /\ approved \subseteq Shas /\ current \in BOOLEAN
  /\ lease \in Leases \cup {NoLease}
  /\ flow \in [Sessions -> [kind: {"none", "cron", "retry", "webhook", "tidus", "staging"},
                            pc: {"idle", "prep", "running", "routing", "deciding", "merging", "closing"},
                            sha: Shas \cup {0}]]
  /\ hook \in [Shas -> {"none", "in_flight", "completed"}]
  /\ requeue \in [Shas -> Shas \cup {0}]
  /\ outlived \subseteq Working /\ robbed \subseteq Working

Init ==
  /\ head = 1 /\ merged = 0 /\ verdict = "none" /\ fed = FALSE /\ approved = {}
  /\ processed = "none" /\ current = FALSE
  /\ lease = NoLease /\ flow = [s \in Sessions |-> Idle]
  /\ hook = [h \in Shas |-> "none"] /\ requeue = [h \in Shas |-> 0]
  /\ outlived = {} /\ robbed = {}

--------------------------------------------------------------------------------
(* Flows and the lease.                                                           *)

\* A session id no flow and no lease carries.
Fresh(s) == ~Busy(s) /\ lease.owner # s

\* A flow starts with its acquire; a conflict skips it.
Starts(s, k, pc, sha) ==
  IF Granted(lease, HolderOf[k], Stamp(k, s))
  THEN /\ lease' = Acquired(lease, HolderOf[k], Stamp(k, s), s)
       /\ flow' = [flow EXCEPT ![s] = [kind |-> k, pc |-> pc, sha |-> sha]]
       /\ UNCHANGED ghosts
  ELSE UNCHANGED <<lease, flow, ghosts>>

Goes(s, pc) == flow' = [flow EXCEPT ![s].pc = pc] /\ UNCHANGED <<lease, ghosts>>

Robs(s, after) ==
  (IF lease # after /\ Busy(lease.owner) THEN robbed \cup {lease.owner} ELSE robbed) \ {s}

\* A flow ends with its release.
Ends(s) ==
  LET after == Released(lease, HolderOf[flow[s].kind])
  IN /\ lease' = after /\ flow' = [flow EXCEPT ![s] = Idle]
     /\ robbed' = Robs(s, after) /\ outlived' = outlived \ {s}

\* A flow that has no lease to release ends.
Leaves(s) ==
  /\ flow' = [flow EXCEPT ![s] = Idle]
  /\ outlived' = outlived \ {s} /\ robbed' = robbed \ {s} /\ UNCHANGED lease

\* The lease passes its expires_at.
Expire ==
  /\ lease # NoLease /\ lease' = NoLease
  /\ outlived' = IF Busy(lease.owner) THEN outlived \cup {lease.owner} ELSE outlived
  /\ UNCHANGED <<github, cron, flow, hooks, robbed>>

--------------------------------------------------------------------------------
(* The cron.                                                                      *)

\* poll is not re-entrant: it waits for the spawn of a review and for a retry.
PollIdle == \A s \in Of({"cron", "retry"}) : flow[s].kind = "cron" /\ flow[s].pc # "prep"

\* active_reviews.has(key): from the acquire until the session ends.
CronActive == \E s \in Of({"cron"}) : flow[s].pc \in {"prep", "running"}

\* check_repo: an updated PR loses its processed entry; it is reviewed unless a
\* review is active or the last feedback is newer than the last commit.
CronReviews(s) ==
  /\ PollIdle /\ Fresh(s) /\ merged = 0
  /\ processed = "none" \/ ~current
  /\ processed' = "none" /\ current' = FALSE
  /\ IF CronActive \/ fed THEN UNCHANGED <<lease, flow, ghosts>>
     ELSE Starts(s, "cron", "prep", head)
  /\ UNCHANGED <<github, hooks>>

\* retry_approved_unmerged up to the CI check.
RetryLooks(s) ==
  /\ PollIdle /\ Fresh(s) /\ merged = 0 /\ ~CronActive
  /\ processed = "approved" \/ (processed = "none" /\ verdict = "approved")
  /\ flow' = [flow EXCEPT ![s] = [kind |-> "retry", pc |-> "deciding", sha |-> head]]
  /\ UNCHANGED <<github, cron, lease, hooks, ghosts>>

\* CI is pending, or failed: a fixer that was handled is remembered in processed.
RetryGivesUp(s, handled) ==
  /\ flow[s].kind = "retry" /\ flow[s].pc = "deciding" /\ Leaves(s)
  /\ IF handled /\ processed = "none"
     THEN processed' = "approved" /\ current' = TRUE
     ELSE UNCHANGED cron
  /\ UNCHANGED <<github, hooks>>

\* Mutant: the retry acquires without asking whether a lease is live.
RetryMergesBlind(s) ==
  /\ flow[s].kind = "retry" /\ flow[s].pc = "deciding" /\ Granted(lease, "daemon-cron", NoSession)
  /\ lease' = Acquired(lease, "daemon-cron", NoSession, s)
  /\ flow' = [flow EXCEPT ![s].pc = "merging"]
  /\ UNCHANGED <<github, cron, hooks, ghosts>>

\* CI passed and no lease is live: acquire, pass the gate, merge.
RetryMerges(s) ==
  /\ flow[s].kind = "retry" /\ flow[s].pc = "deciding" /\ lease = NoLease
  /\ lease' = Acquired(lease, "daemon-cron", NoSession, s)
  /\ flow' = [flow EXCEPT ![s].pc = "merging"]
  /\ UNCHANGED <<github, cron, hooks, ghosts>>

--------------------------------------------------------------------------------
(* The webhook.                                                                   *)

\* spawn_review: acquire, then the entry of the sha is in flight.
SpawnReview(s, sha) ==
  IF Granted(lease, "daemon-webhook", s)
  THEN /\ lease' = Acquired(lease, "daemon-webhook", s, s)
       /\ flow' = [flow EXCEPT ![s] = [kind |-> "webhook", pc |-> "prep", sha |-> sha]]
       /\ hook' = [hook EXCEPT ![sha] = "in_flight"] /\ requeue' = [requeue EXCEPT ![sha] = 0]
       /\ UNCHANGED ghosts
  ELSE UNCHANGED <<lease, flow, hooks, ghosts>>

InFlight == {h \in Shas : hook[h] = "in_flight"}

\* A pull_request event of a pushed sha, late or repeated: dropped when the sha has
\* an entry, queued behind an in-flight review of another sha, else reviewed.
HookEvent(sha, s) ==
  /\ sha <= head
  /\ Fresh(s)
  /\ \/ /\ hook[sha] # "none" /\ UNCHANGED <<lease, flow, hooks, ghosts>>
     \/ /\ hook[sha] = "none"
        /\ \E h \in InFlight : requeue' = [requeue EXCEPT ![h] = sha]
        /\ UNCHANGED <<lease, flow, hook, ghosts>>
     \/ hook[sha] = "none" /\ InFlight = {} /\ SpawnReview(s, sha)
  /\ UNCHANGED <<github, cron>>

\* cleanup_and_maybe_requeue: the entry is completed, the lease released, then the
\* requeued sha is reviewed.  The new session takes the name of the ended one, which
\* nothing refers to any more.
Cleanup(s) ==
  LET sha   == flow[s].sha
      after == Released(lease, "daemon-webhook")
      again == hook[sha] # "none" /\ requeue[sha] # 0 /\ Granted(after, "daemon-webhook", s)
      done  == [hook EXCEPT ![sha] = IF @ = "none" THEN @ ELSE "completed"]
  IN IF again
     THEN /\ lease' = Acquired(after, "daemon-webhook", s, s)
          /\ flow' = [flow EXCEPT ![s] = [kind |-> "webhook", pc |-> "prep", sha |-> requeue[sha]]]
          /\ hook' = [done EXCEPT ![requeue[sha]] = "in_flight"]
          /\ requeue' = [requeue EXCEPT ![requeue[sha]] = 0]
          /\ outlived' = outlived \ {s} /\ robbed' = Robs(s, after)
     ELSE Ends(s) /\ hook' = done /\ UNCHANGED requeue

\* cleanup_stale_reviews: completed entries after 60 s, in-flight ones after 30 min,
\* ten minutes after their lease would have expired.
HookForgotten(sha) ==
  /\ \/ hook[sha] = "completed"
     \/ hook[sha] = "in_flight" /\ \A s \in Of({"webhook"}) : flow[s].sha = sha => s \in outlived \cup robbed
  /\ hook' = [hook EXCEPT ![sha] = "none"] /\ requeue' = [requeue EXCEPT ![sha] = 0]
  /\ UNCHANGED <<github, cron, lease, flow, ghosts>>

--------------------------------------------------------------------------------
(* Steps both reviewers have.                                                     *)

Reviewers == {"cron", "webhook"}

Spawned(s) ==
  /\ flow[s].pc = "prep" /\ Goes(s, "running")
  /\ UNCHANGED <<github, cron, hooks>>

\* Mutant: a spawn that throws keeps its lease.
SpawnFailsKeepsLease(s) ==
  /\ flow[s].pc = "prep" /\ flow' = [flow EXCEPT ![s] = Idle]
  /\ IF flow[s].kind = "webhook"
     THEN hook' = [hook EXCEPT ![flow[s].sha] = "none"] /\ requeue' = [requeue EXCEPT ![flow[s].sha] = 0]
     ELSE UNCHANGED hooks
  /\ UNCHANGED <<github, cron, lease, ghosts>>

\* Mutant: a spawn that throws forgets its in-flight entry.
SpawnFailsKeepsEntry(s) ==
  /\ flow[s].pc = "prep" /\ Ends(s)
  /\ UNCHANGED <<github, cron, hooks>>

\* The token or the spawn fails: the entry is deleted and the lease released.
SpawnFails(s) ==
  /\ flow[s].pc = "prep" /\ Ends(s)
  /\ IF flow[s].kind = "webhook"
     THEN hook' = [hook EXCEPT ![flow[s].sha] = "none"] /\ requeue' = [requeue EXCEPT ![flow[s].sha] = 0]
     ELSE UNCHANGED hooks
  /\ UNCHANGED <<github, cron>>

Posts(sha, v) ==
  /\ verdict' = IF v = "none" THEN verdict ELSE v
  /\ fed' = (fed \/ v # "none")
  /\ approved' = IF v = "approved" THEN approved \cup {sha} ELSE approved
  /\ current' = (current /\ v = "none")

\* session:completed: the reviewer has posted v, or nothing.
SessionDone(s, v) ==
  /\ flow[s].pc = "running" /\ flow[s].kind \in Reviewers /\ Goes(s, "routing")
  /\ Posts(flow[s].sha, v)
  /\ UNCHANGED <<head, merged, processed, hooks>>

\* session:failed.
SessionFails(s) ==
  /\ flow[s].pc = "running" /\ flow[s].kind \in Reviewers
  /\ IF flow[s].kind = "webhook" THEN Cleanup(s) ELSE Ends(s) /\ UNCHANGED hooks
  /\ UNCHANGED <<github, cron>>

\* The outcome is read from GitHub; the cron persists it.
Route(s) ==
  /\ flow[s].pc = "routing"
  /\ Goes(s, IF verdict = "approved" /\ merged = 0 THEN "deciding" ELSE "closing")
  /\ IF flow[s].kind = "cron"
     THEN processed' = (IF verdict = "none" THEN "pending" ELSE verdict) /\ current' = TRUE
     ELSE UNCHANGED cron
  /\ UNCHANGED <<github, hooks>>

\* After the CI check: the merge gate, in one step with the start of the merge.
Gate(s, green) ==
  /\ flow[s].pc = "deciding" /\ flow[s].kind \in Reviewers
  /\ Goes(s, IF green /\ Holds(lease, HolderOf[flow[s].kind], s) THEN "merging" ELSE "closing")
  /\ UNCHANGED <<github, cron, hooks>>

\* attempt_auto_merge: gh pr merge takes the head as it is by then.
MergeLands(s) ==
  /\ flow[s].pc = "merging" /\ flow[s].kind # "staging" /\ merged = 0
  /\ merged' = head /\ Goes(s, "closing")
  /\ UNCHANGED <<head, verdict, fed, approved, cron, hooks>>

MergeFails(s) ==
  /\ flow[s].pc = "merging" /\ Goes(s, "closing")
  /\ UNCHANGED <<github, cron, hooks>>

\* The finally block: the release, and for the webhook the requeue.
Finish(s) ==
  /\ flow[s].pc = "closing"
  /\ IF flow[s].kind = "webhook" THEN Cleanup(s) ELSE Ends(s) /\ UNCHANGED hooks
  /\ UNCHANGED <<github, cron>>

--------------------------------------------------------------------------------
(* Clients of the HTTP API.                                                       *)

\* Tidus, one orchestrator, acquires by hand and without a session id.
TidusReviews(s) ==
  /\ Fresh(s) /\ Of({"tidus"}) = {} /\ merged = 0
  /\ Starts(s, "tidus", "running", head)
  /\ UNCHANGED <<github, cron, hooks>>

TidusPosts(s, v) ==
  /\ flow[s].kind = "tidus" /\ flow[s].pc = "running" /\ Goes(s, "closing")
  /\ Posts(flow[s].sha, v)
  /\ UNCHANGED <<head, merged, processed, hooks>>

\* The orchestrator dies without a release.
TidusDies(s) ==
  /\ flow[s].kind = "tidus" /\ Leaves(s)
  /\ UNCHANGED <<github, cron, hooks>>

\* The staging-promotion route: acquire and, in the same step, the gate; then the
\* promotion, which pushes main and does not merge the PR, and the release.
StagingStarts(s) ==
  /\ Fresh(s) /\ Starts(s, "staging", "merging", head)
  /\ UNCHANGED <<github, cron, hooks>>

--------------------------------------------------------------------------------
(* GitHub and the daemon process.                                                 *)

Push ==
  /\ merged = 0 /\ head < MaxSha
  /\ head' = head + 1 /\ current' = FALSE /\ fed' = FALSE
  /\ UNCHANGED <<merged, verdict, approved, processed, lease, flow, hooks, ghosts>>

\* A comment that is no review: only the PR's updatedAt moves.
Comment ==
  /\ current /\ current' = FALSE
  /\ UNCHANGED <<github, processed, lease, flow, hooks, ghosts>>

\* Leases and active reviews are in memory; reviewers die with the daemon.
Restart ==
  /\ lease' = NoLease
  /\ flow' = [s \in Sessions |-> IF flow[s].kind = "tidus" THEN flow[s] ELSE Idle]
  /\ hook' = [h \in Shas |-> "none"] /\ requeue' = [h \in Shas |-> 0]
  /\ outlived' = Of({"tidus"}) /\ robbed' = {}
  /\ UNCHANGED <<github, cron>>

Review(s) ==
  \/ Spawned(s) \/ SpawnFails(s) \/ Route(s) \/ MergeLands(s) \/ MergeFails(s)
  \/ RetryMerges(s)
  \/ \E v \in {"none", "approved", "changes"} : SessionDone(s, v) \/ TidusPosts(s, v)
  \/ \E green \in BOOLEAN : Gate(s, green) \/ RetryGivesUp(s, green)
  \/ SessionFails(s) \/ Finish(s)

Next ==
  \/ \E s \in Sessions : \/ Review(s) \/ CronReviews(s) \/ RetryLooks(s)
                         \/ TidusReviews(s) \/ TidusDies(s) \/ StagingStarts(s)
                         \/ \E sha \in Shas : HookEvent(sha, s)
  \/ \E sha \in Shas : HookForgotten(sha)
  \/ Expire \/ Push \/ Comment \/ Restart

Spec == Init /\ [][Next]_pvars

--------------------------------------------------------------------------------
(* Properties.                                                                    *)

\* Flows that hold, or held, the lease: a retry acquires it only after its CI check.
Holding == {s \in Working : ~(flow[s].kind = "retry" /\ flow[s].pc = "deciding")}

\* One reviewer or merger per PR: two flows are at work at once only if the lease
\* of one of them expired under it, or was released by another.
OneAtWork ==
  \A s, t \in Holding : s # t => {s, t} \cap (outlived \cup robbed) # {}

\* No lease outlives its flow: whatever way a review ends, the PR is free for the
\* next one without waiting for the TTL (a dead manual reviewer excepted).
NoLeakedLease ==
  lease # NoLease /\ lease.holder # "tidus-manual" => lease.owner \in Holding

\* An in-flight webhook entry has a reviewer, so what is queued behind it is not
\* queued behind nothing.
InFlightIsReviewed ==
  \A h \in InFlight : \E s \in Of({"webhook"}) : flow[s].sha = h

\* pr-review-merge SKILL: no auto-merge while another review is in flight is "a hard,
\* code-enforced guarantee".
NoMergeDuringReview ==
  \A s, t \in Working :
    flow[s].pc = "merging" /\ flow[s].kind \in {"cron", "webhook", "retry"}
      /\ flow[t].kind \in Reviewers /\ flow[t].pc = "running" => s = t

\* reviewer.md and SKILL: what is merged is "the exact reviewed SHA".
MergedWasReviewed == merged # 0 => merged \in approved

\* release: "we do NOT release someone else's lease".
NoOneIsRobbed == robbed = {}

\* handle_github_webhook: "the old review's completion handler will spawn" the
\* requeued sha.
RequeueIsSpawned ==
  [][\A h \in Shas : LET q == requeue[h] IN
       q # 0 /\ hook[h] = "in_flight" /\ hook'[h] # "in_flight" =>
         hook'[q] = "in_flight"]_pvars
================================================================================
