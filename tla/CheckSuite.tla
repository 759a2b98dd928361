------------------------------- MODULE CheckSuite ------------------------------
(* The v2 life cycle of one pull request: check_suite.completed events         *)
(* dispatch a reviewer or a CI fixer (check-suite-handler.ts), a completed     *)
(* review goes to the merge gate (merge-gate.ts, handle_v2_review_completion). *)
(*                                                                             *)
(* A handler is cut at its awaits: PR detail, load, save, act. pr-reviews.json *)
(* is loaded and saved whole, without a lock, by these calls, by flows for     *)
(* other PRs and for failed workflows, and by the PR cron, which loads it once *)
(* at its start and saves its own map ever after. Reviewers the check suites   *)
(* spawn have no listener; a review whose completion reaches the v2 branch is  *)
(* one the webhook started before the registry was reloaded with the entity on *)
(* v2. Abstracted: prompts, the feedback in them, tokens (their failure is a   *)
(* choice), alerts, other PRs' entries, the cron's own fields of it (PrCron).  *)
EXTENDS Naturals, FiniteSets

CONSTANTS
  Suites,     \* the apps that run a check suite on a commit
  Calls,      \* handler calls in flight
  MaxSha,     \* pushes
  FixLimit,   \* MAX_CI_FIX_ATTEMPTS
  MaxReruns,  \* suite runs asked for again
  MaxInputs,  \* events received, reviews ended, restarts, writes of other flows begun
  MaxLost,    \* saves that take another writer's change back
  ReadsFail   \* whether pr-reviews.json may be unreadable

VARIABLES
  prHead,     \* head commit on GitHub, and the PR's state there
  suite,      \* suite run per commit: none, running, passed, failed, odd
  mail,       \* check_suite.completed events sent so far
  calls,      \* handler calls
  prFile,     \* the PR's entry in pr-reviews.json
  cronMap,    \* the PR's entry in the map the cron holds
  flow,       \* a flow between its load and its save of the file for something else
  review,     \* the webhook's reviewer and its completion
  gate,       \* the merge gate
  done        \* sessions per commit, fixers, reruns, inputs, saves that took something back

csVars == <<prHead, suite, mail, calls, prFile, cronMap, flow, review, gate, done>>
fileVars == <<prFile, cronMap, flow>>

Shas == 1 .. MaxSha
NoEntry == [stamp |-> 0, flake |-> 0, fixes |-> 0]
NoFlow == [pc |-> "idle", base |-> NoEntry]
NoReview == [pc |-> "idle", sha |-> 0]
NoGate == [pc |-> "idle", sha |-> 0]
NoCall == [pc |-> "idle", concl |-> "none", app |-> "none", sha |-> 0, base |-> NoEntry, copy |-> NoEntry, act |-> "none"]

Init ==
  /\ prHead = [sha |-> 1, state |-> "open"]
  /\ suite = [s \in Shas |-> [a \in Suites |-> IF s = 1 THEN "running" ELSE "none"]]
  /\ mail = {} /\ calls = [k \in Calls |-> NoCall]
  /\ prFile = NoEntry /\ cronMap = NoEntry /\ flow = NoFlow
  /\ review \in {NoReview, [pc |-> "running", sha |-> 1]}
  /\ gate = NoGate
  /\ done = [sessions |-> [s \in Shas |-> 0], fixers |-> 0, reruns |-> 0, lost |-> 0, inputs |-> 0]

Counted == [done EXCEPT !.inputs = @ + 1]
Input == done.inputs < MaxInputs /\ done' = Counted

Green(s) == \A a \in Suites : suite[s][a] = "passed"

(* load_pr_reviews: a file that cannot be read is an empty one.                *)
Readings == {prFile} \cup IF ReadsFail THEN {NoEntry} ELSE {}

(* A save of new by a writer that knew base takes something back: another      *)
(* writer's dispatch or attempt since, or one the file had.                    *)
TakesBack(base, new) ==
  \/ base.stamp # prFile.stamp \/ base.fixes # prFile.fixes
  \/ new.stamp < prFile.stamp \/ new.fixes < prFile.fixes

(* save_pr_reviews writes the whole file. *)
Saved(base, new, counts) ==
  /\ prFile' = new
  /\ done' = [counts EXCEPT !.lost = IF TakesBack(base, new) THEN @ + 1 ELSE @]
  /\ done'.lost <= MaxLost

-----------------------------------------------------------------------------
(* GitHub: suites complete, authors push. *)

SuiteEnds(a, s) ==
  /\ suite[s][a] = "running"
  /\ \E r \in {"passed", "failed", "odd"} :
       /\ suite' = [suite EXCEPT ![s][a] = r]
       /\ mail' = mail \cup {[app |-> a, concl |-> r]}
  /\ UNCHANGED <<prHead, calls, fileVars, review, gate, done>>

Pushed(s) ==
  /\ prHead' = [prHead EXCEPT !.sha = s]
  /\ suite' = [suite EXCEPT ![s] = [a \in Suites |-> "running"]]

(* A human or a fixer pushes. *)
Push ==
  /\ prHead.state = "open" /\ prHead.sha < MaxSha
  /\ Pushed(prHead.sha + 1)
  /\ UNCHANGED <<mail, calls, fileVars, review, gate, done>>

-----------------------------------------------------------------------------
(* handle_check_suite *)

(* An event arrives, late or again as may be; a failing token is alerted, an   *)
(* odd payload dropped.                                                        *)
Receive(k, e) ==
  /\ calls[k].pc = "idle" /\ e \in mail /\ Input
  /\ calls' = [calls EXCEPT ![k] = [NoCall EXCEPT !.pc = "fetch", !.concl = e.concl, !.app = e.app]]
  /\ UNCHANGED <<prHead, suite, mail, fileVars, review, gate>>

(* fetch_pr_detail: the head as it is now; a draft, a fork, another base or a *)
(* failure ends the call.                                                     *)
FetchDetail(k) ==
  /\ calls[k].pc = "fetch"
  /\ calls' \in {[calls EXCEPT ![k] = NoCall],
                 [calls EXCEPT ![k].pc = "load", ![k].sha = prHead.sha]}
  /\ UNCHANGED <<prHead, suite, mail, fileVars, review, gate, done>>

StampedNever(e, s) == e   \* slip: the dispatch is not recorded
Stamped(e, s) == [e EXCEPT !.stamp = s]

(* Call k is to save e for the entry it knows, and then to act. *)
ToSave(k, e, act) == [calls EXCEPT ![k].pc = "save", ![k].concl = "none", ![k].copy = e, ![k].act = act]

(* A failure is given up or fixed. *)
Fixing(k, e, s) ==
  IF e.fixes >= FixLimit THEN ToSave(k, Stamped(e, s), "giveup")
  ELSE ToSave(k, [Stamped(e, s) EXCEPT !.fixes = @ + 1], "fix")

(* load_pr_reviews ... *)
Load(k) ==
  /\ calls[k].pc = "load"
  /\ \E e \in Readings : calls' = [calls EXCEPT ![k].pc = "read", ![k].base = e]
  /\ UNCHANGED <<prHead, suite, mail, fileVars, review, gate, done>>

(* ... then the duplicate check, and the conclusion decides; the first failure *)
(* on a commit is retried.                                                     *)
Decide(k) ==
  LET s == calls[k].sha  e == calls[k].base  failed == calls[k].concl = "failed" IN
  /\ calls[k].pc = "read"
  /\ \/ e.stamp = s /\ calls' = [calls EXCEPT ![k] = NoCall]
     \/ /\ e.stamp # s
        /\ \/ calls[k].concl = "passed" /\ calls' = ToSave(k, Stamped(e, s), "review")
           \/ failed /\ e.flake # s /\ calls' = ToSave(k, [e EXCEPT !.flake = s], "rerun")
           \/ failed /\ e.flake = s /\ calls' = Fixing(k, e, s)
           \/ calls[k].concl = "odd" /\ calls' = ToSave(k, e, "alert")
  /\ UNCHANGED <<prHead, suite, mail, fileVars, review, gate, done>>

(* save_pr_reviews; a save that throws ends the call. *)
Save(k) ==
  /\ calls[k].pc = "save"
  /\ \/ /\ Saved(calls[k].base, calls[k].copy, done)
        /\ calls' = IF calls[k].act \in {"giveup", "alert"} THEN [calls EXCEPT ![k] = NoCall]
                    ELSE [calls EXCEPT ![k].pc = calls[k].act, ![k].act = "none",
                                       ![k].base = calls[k].copy, ![k].copy = NoEntry]
     \/ calls' = [calls EXCEPT ![k] = NoCall] /\ UNCHANGED <<prFile, done>>
  /\ UNCHANGED <<prHead, suite, mail, cronMap, flow, review, gate>>

(* The reviewer is spawned, or its failure is alerted: the commit stays stamped. *)
SpawnReviewer(k) ==
  /\ calls[k].pc = "review"
  /\ done' \in {done, [done EXCEPT !.sessions[calls[k].sha] = @ + 1]}
  /\ calls' = [calls EXCEPT ![k] = NoCall]
  /\ UNCHANGED <<prHead, suite, mail, fileVars, review, gate>>

(* The same suite runs again; if GitHub refuses, the fixer path goes on with  *)
(* the entry as it was loaded, without the retry just recorded.               *)
Rerun(k) ==
  LET s == calls[k].sha IN
  /\ calls[k].pc = "rerun"
  /\ \/ /\ done.reruns < MaxReruns
        /\ suite' = [suite EXCEPT ![s][calls[k].app] = IF @ = "none" THEN @ ELSE "running"]
        /\ done' = [done EXCEPT !.reruns = @ + 1]
        /\ calls' = [calls EXCEPT ![k] = NoCall]
     \/ /\ calls' = Fixing(k, [calls[k].base EXCEPT !.flake = 0], s)
        /\ UNCHANGED <<suite, done>>
  /\ UNCHANGED <<prHead, mail, fileVars, review, gate>>

SpawnFixer(k) ==
  /\ calls[k].pc = "fix"
  /\ done' \in {done, [done EXCEPT !.sessions[calls[k].sha] = @ + 1, !.fixers = @ + 1]}
  /\ calls' = [calls EXCEPT ![k] = NoCall]
  /\ UNCHANGED <<prHead, suite, mail, fileVars, review, gate>>

(* The daemon starts again: what was in flight is gone, the cron loads the file. *)
Restart ==
  /\ calls' = [k \in Calls |-> NoCall] /\ flow' = NoFlow
  /\ review' = NoReview /\ gate' = NoGate
  /\ cronMap' \in Readings /\ Input
  /\ UNCHANGED <<prHead, suite, mail, prFile>>

-----------------------------------------------------------------------------
(* The other writers of pr-reviews.json *)

(* The cron saves its map: with this entry as it was, with one more attempt at *)
(* a CI fix, or without it, when the PR is not in its list.                    *)
CronSaves ==
  /\ done.inputs < MaxInputs
  /\ cronMap' \in {cronMap, NoEntry} \cup
       IF cronMap.fixes < FixLimit THEN {[cronMap EXCEPT !.fixes = @ + 1]} ELSE {}
  /\ \/ Saved(cronMap, cronMap', Counted)
     \/ done' = Counted /\ UNCHANGED prFile
  /\ UNCHANGED <<prHead, suite, mail, calls, flow, review, gate>>

(* A flow for another PR, or for a failed workflow of this one, loads the file, *)
(* as record_v2_review_feedback does ...                                        *)
FlowLoads(next) ==
  /\ flow.pc = "idle"
  /\ flow' \in {[pc |-> next, base |-> e] : e \in Readings}
  /\ UNCHANGED <<prHead, suite, mail, calls, prFile, cronMap, gate>>

OtherLoads == Input /\ FlowLoads("other") /\ UNCHANGED review

(* ... and saves it, for the workflow with one more attempt. *)
OtherSaves ==
  /\ flow.pc = "other" /\ flow' = NoFlow
  /\ \/ Saved(flow.base, flow.base, done)
     \/ flow.base.fixes < FixLimit /\ Saved(flow.base, [flow.base EXCEPT !.fixes = @ + 1], done)
     \/ UNCHANGED <<prFile, done>>
  /\ UNCHANGED <<prHead, suite, mail, calls, cronMap, review, gate>>

-----------------------------------------------------------------------------
(* handle_v2_review_completion: feedback is recorded, an approval goes to the *)
(* gate with the commit the review was started for.                           *)

ReviewEnds ==
  /\ review.pc = "running" /\ Input
  /\ \/ review' = [NoReview EXCEPT !.pc = "feedback"] /\ UNCHANGED gate
     \/ review' = NoReview /\ gate' = [pc |-> "look", sha |-> review.sha]
     \/ review' = NoReview /\ UNCHANGED gate
  /\ UNCHANGED <<prHead, suite, mail, calls, fileVars>>

FeedbackLoads ==
  review.pc = "feedback" /\ review' = NoReview /\ FlowLoads("feedback") /\ UNCHANGED done

(* The save of the feedback, whose failure is caught; a fix session follows. *)
FeedbackSaves ==
  /\ flow.pc = "feedback" /\ flow' = NoFlow
  /\ Saved(flow.base, flow.base, done) \/ UNCHANGED <<prFile, done>>
  /\ UNCHANGED <<prHead, suite, mail, calls, cronMap, review, gate>>

(* run_merge_gate: the head, then CI, then mergeability ... *)
GateLooks ==
  /\ gate.pc = "look"
  /\ gate' = IF prHead.sha = gate.sha THEN [gate EXCEPT !.pc = "ci"] ELSE NoGate
  /\ UNCHANGED <<prHead, suite, mail, calls, fileVars, review, done>>

GateChecksCi ==
  /\ gate.pc = "ci"
  /\ gate' \in {NoGate} \cup
       IF Green(gate.sha) THEN {[gate EXCEPT !.pc = p] : p \in {"merge", "rebase"}} ELSE {}
  /\ UNCHANGED <<prHead, suite, mail, calls, fileVars, review, done>>

(* ... then a merge of whatever the head is, or a rebase that is pushed and   *)
(* waits for the checks of the new commit.                                    *)
GateMerges ==
  /\ gate.pc = "merge"
  /\ gate' = NoGate
  /\ prHead' = IF prHead.state = "open" THEN [prHead EXCEPT !.state = "merged"] ELSE prHead
  /\ UNCHANGED <<suite, mail, calls, fileVars, review, done>>

GateRebases ==
  /\ gate.pc = "rebase"
  /\ gate' = NoGate
  /\ IF prHead.state = "open" /\ prHead.sha < MaxSha THEN Pushed(prHead.sha + 1) ELSE UNCHANGED <<prHead, suite>>
  /\ UNCHANGED <<mail, calls, fileVars, review, done>>

Next ==
  \/ \E a \in Suites, s \in Shas : SuiteEnds(a, s)
  \/ Push
  \/ \E k \in Calls : \/ \E e \in mail : Receive(k, e)
                      \/ FetchDetail(k) \/ Load(k) \/ Decide(k) \/ Save(k)
                      \/ SpawnReviewer(k) \/ Rerun(k) \/ SpawnFixer(k)
  \/ Restart \/ CronSaves \/ OtherLoads \/ OtherSaves
  \/ ReviewEnds \/ FeedbackLoads \/ FeedbackSaves
  \/ GateLooks \/ GateChecksCi \/ GateMerges \/ GateRebases

Spec == Init /\ [][Next]_csVars

-----------------------------------------------------------------------------
(* Properties *)

(* A commit gets a second session from its check suites, and the PR more than  *)
(* FixLimit CI fixers, only as often as a save of pr-reviews.json takes another *)
(* writer's change back: each gives back at most one dispatch of every commit   *)
(* and one budget (check-suite-handler.ts, handle_check_suite).                 *)
DispatchesAreBudgeted ==
  /\ \A s \in Shas : done.sessions[s] <= 1 + done.lost
  /\ done.fixers <= FixLimit * (1 + done.lost)

(* "This handles sequential duplicates (second webhook arrives after the first  *)
(* saves)": one call at a time never dispatches a commit twice.                  *)
SequentialDuplicatesIgnored == \A s \in Shas : done.sessions[s] <= 1
=============================================================================
