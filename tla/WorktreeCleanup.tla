----------------------------- MODULE WorktreeCleanup ----------------------------
(* Removal of git worktrees (worktree-cleanup.ts): after a merge, for the        *)
(* branch of the PR, and by a periodic sweep of merged or deleted branches.      *)
(* Agents go on working in the tree; a cleaner is cut at each git command, and   *)
(* each command may fail. One worktree under .claude/worktrees.                  *)
(* Abstracted: commits (where the tip of a branch is), the panes moved out of    *)
(* the tree, alerts' text, the loop over entities and repositories. Of the       *)
(* trunk's commits, whether one is in the history that the sweep loaded          *)
(* ("trunk") or not ("newer").                                                   *)
EXTENDS Naturals, FiniteSets

CONSTANTS
  Branches,  \* branches other than main
  MaxWork    \* things agents and GitHub do

VARIABLES
  tree,      \* the worktree: there, branch or detached, dirt, marker, loose commits
  refs,      \* per branch: exists, tip, origin/<branch> known here, gone on GitHub
  cleaners,  \* cleanup_after_merge and sweep_repo
  wcDone     \* steps of work, and what a removal took that it had looked at

treeVars == <<tree, refs, cleaners, wcDone>>

Kinds == {"merge", "sweep"}
Detached == "detached"
NoTree == [there |-> FALSE, at |-> Detached, dirt |-> "none", marked |-> FALSE, loose |-> FALSE]
Fresh == [exists |-> TRUE, tip |-> "trunk", remote |-> FALSE, gone |-> FALSE]
NoCleaner == [pc |-> "idle", branch |-> Detached, merged |-> {}, targets |-> {}, late |-> {}, last |-> FALSE]

Init ==
  /\ \E b \in Branches, r \in {Fresh, [Fresh EXCEPT !.tip = "pushed", !.remote = TRUE]} :
       /\ refs = [x \in Branches |-> IF x = b THEN r ELSE Fresh]
       /\ tree = [NoTree EXCEPT !.there = TRUE, !.at = b]
  /\ cleaners = [c \in Kinds |-> NoCleaner]
  /\ wcDone = [work |-> 0, wrong |-> {}]

-----------------------------------------------------------------------------
(* Agents and GitHub. What is done after the check that would have seen it is    *)
(* noted with the cleaner.                                                       *)

Works(kind, checked) ==
  /\ wcDone.work < MaxWork /\ wcDone' = [wcDone EXCEPT !.work = @ + 1]
  /\ cleaners' = [c \in Kinds |-> IF cleaners[c].pc \in checked
                                  THEN [cleaners[c] EXCEPT !.late = @ \cup {kind}] ELSE cleaners[c]]

(* Stages of a cleaner: a removal under way; a branch judged for one; the branch  *)
(* of the directory seen to be it; a sweep that has loaded the trunk.             *)
Removing == {"mark", "shield", "identity", "status", "revlist", "remove"}
Judged == Removing \cup {"gone", "claude", "match"}
Verified == {"status", "revlist", "remove"}
Loaded == Judged \cup {"merged", "list", "delete"}

Edit ==
  /\ tree.there /\ tree.dirt = "none"
  /\ Works("edits", {"revlist", "remove"})
  /\ \E d \in {"modified", "untracked"} : tree' = [tree EXCEPT !.dirt = d]
  /\ UNCHANGED refs

Commit ==
  /\ tree.there /\ tree.dirt # "none"
  /\ Works("commits", Removing \cup {"gone"})
  /\ tree' = [tree EXCEPT !.dirt = "none", !.loose = @ \/ tree.at = Detached]
  /\ refs' = IF tree.at = Detached THEN refs ELSE [refs EXCEPT ![tree.at].tip = "local"]

PushBranch(b) ==
  /\ refs[b].exists /\ refs[b].tip = "local"
  /\ Works("none", {})
  /\ refs' = [refs EXCEPT ![b] = [exists |-> TRUE, tip |-> "pushed", remote |-> TRUE, gone |-> FALSE]]
  /\ UNCHANGED tree

(* A checkout: another branch, or a detached HEAD as in a rebase.                *)
Checkout ==
  /\ tree.there /\ tree.dirt = "none" /\ ~tree.loose
  /\ \E b \in {x \in Branches : refs[x].exists} \cup {Detached} :
       b # tree.at /\ tree' = [tree EXCEPT !.at = b]
  /\ Works("unworked", Verified)
  /\ UNCHANGED refs

MarkAgent ==
  /\ tree.there /\ tree' = [tree EXCEPT !.marked = ~@]
  /\ Works("marker", {"identity", "status", "revlist", "remove"})
  /\ UNCHANGED refs

(* A tree on a branch that exists, or on a new one from the trunk as it is known  *)
(* here, which may have moved since the sweep loaded it.                          *)
CreateTree(b) ==
  /\ ~tree.there
  /\ tree' = [NoTree EXCEPT !.there = TRUE, !.at = b]
  /\ \/ refs[b].exists /\ Works("unworked", Verified) /\ UNCHANGED refs
     \/ ~refs[b].exists /\ Works("unworked", Judged) /\ refs' = [refs EXCEPT ![b] = Fresh]
     \/ /\ ~refs[b].exists /\ cleaners["sweep"].pc \in Loaded
        /\ Works("unworked", Loaded) /\ refs' = [refs EXCEPT ![b] = [Fresh EXCEPT !.tip = "newer"]]

(* A branch without work is brought up to a trunk that moved since.               *)
CatchUp ==
  /\ tree.there /\ tree.at # Detached /\ refs[tree.at].tip = "trunk"
  /\ cleaners["sweep"].pc \in Loaded /\ Works("unworked", Loaded)
  /\ refs' = [refs EXCEPT ![tree.at].tip = "newer"]
  /\ UNCHANGED tree

(* The PR is merged, by a merge commit or squashed; its branch is deleted.       *)
MergePr(b) ==
  /\ refs[b].exists /\ refs[b].tip = "pushed" /\ ~refs[b].gone
  /\ \E t \in {"merged", "squashed"} : refs' = [refs EXCEPT ![b].tip = t, ![b].gone = TRUE]
  /\ Works("none", {})
  /\ UNCHANGED tree

-----------------------------------------------------------------------------
(* What git answers. *)

(* rev-list <branch> --not --remotes is empty. *)
IsBranchSafe(b) ==
  /\ refs[b].exists
  /\ refs[b].tip \in {"trunk", "newer", "merged"} \/ (refs[b].tip # "local" /\ refs[b].remote)

(* The tip is in the trunk's first-parent history that the sweep loaded. *)
IsUnstartedNever(b) == FALSE   \* slip: before issue 110
IsUnstarted(b) == refs[b].tip = "trunk"
MergedBranches == {b \in Branches : refs[b].exists /\ refs[b].tip \in {"trunk", "newer", "merged"}}
OwnBranch == IF tree.there THEN tree.at ELSE Detached

(* branch -d refuses a branch that is checked out or not merged.                 *)
BranchDeleted(b) ==
  IF IsBranchSafe(b) /\ ~(tree.there /\ tree.at = b) THEN [refs EXCEPT ![b].exists = FALSE] ELSE refs

Step(c, from) == cleaners[c].pc = from
To(c, pc) == cleaners' = [cleaners EXCEPT ![c].pc = pc]
(* After the tree of the branch the directories of .claude/worktrees follow, for  *)
(* the branch merged or for those the sweep is going to pick.                     *)
Leave(c) ==
  cleaners' = [cleaners EXCEPT ![c] =
    IF @.last THEN NoCleaner
    ELSE [@ EXCEPT !.pc = "claude", !.targets = IF c = "merge" THEN {cleaners[c].branch} ELSE {}]]

-----------------------------------------------------------------------------
(* cleanup_after_merge *)

CleanupAfterMerge(b) ==
  /\ Step("merge", "idle") /\ refs[b].gone
  /\ cleaners' = [cleaners EXCEPT !["merge"] = [NoCleaner EXCEPT !.pc = "find", !.branch = b]]
  /\ UNCHANGED <<tree, refs, wcDone>>

(* find_worktree_for_branch; without a tree only the branch is deleted.          *)
FindWorktree ==
  LET b == cleaners["merge"].branch IN
  /\ Step("merge", "find")
  /\ \/ OwnBranch = b /\ To("merge", "mark")
     \/ IF refs[b].exists /\ IsBranchSafe(b) THEN To("merge", "delete") ELSE Leave("merge")
  /\ UNCHANGED <<tree, refs, wcDone>>

-----------------------------------------------------------------------------
(* sweep_repo *)

(* fetch --prune, which may fail. *)
SweepFetches ==
  /\ Step("sweep", "idle")
  /\ refs' \in {refs, [b \in Branches |-> [refs[b] EXCEPT !.remote = @ /\ ~refs[b].gone]]}
  /\ To("sweep", "load")
  /\ UNCHANGED <<tree, wcDone>>

(* load_trunk_history, once for the sweep. One of its commands may fail: commits  *)
(* only that ref reaches are not in the history. None, and the sweep ends.        *)
SweepLoadsTrunk ==
  /\ Step("sweep", "load")
  /\ \/ cleaners' = [cleaners EXCEPT !["sweep"] = NoCleaner] /\ UNCHANGED refs
     \/ /\ To("sweep", "merged")
        /\ refs' = [b \in Branches |-> IF refs[b].tip = "newer" THEN [refs[b] EXCEPT !.tip = "trunk"] ELSE refs[b]]
     \/ /\ cleaners' = [cleaners EXCEPT !["sweep"].pc = "merged", !["sweep"].late = {"unworked"}]
        /\ \E S \in SUBSET Branches :
             refs' = [b \in Branches |-> IF refs[b].tip \in {"trunk", "newer"}
                                         THEN [refs[b] EXCEPT !.tip = IF b \in S THEN "newer" ELSE "trunk"]
                                         ELSE refs[b]]
  /\ UNCHANGED <<tree, wcDone>>

(* branch --merged main; a failure ends the sweep.                               *)
SweepLoadsMerged ==
  /\ Step("sweep", "merged")
  /\ cleaners' \in {[cleaners EXCEPT !["sweep"] = NoCleaner],
                    [cleaners EXCEPT !["sweep"].pc = "list", !["sweep"].merged = MergedBranches]}
  /\ UNCHANGED <<tree, refs, wcDone>>

(* worktree list, whose failure ends the sweep: an entry on a branch with work of *)
(* its own, merged or perhaps gone from the remote ...                            *)
SweepLists ==
  LET b == OwnBranch IN
  /\ Step("sweep", "list")
  /\ \/ cleaners' = [cleaners EXCEPT !["sweep"] = NoCleaner]
     \/ IF b = Detached \/ IsUnstarted(b) THEN Leave("sweep")
        ELSE cleaners' = [cleaners EXCEPT !["sweep"].branch = b,
                            !["sweep"].pc = IF b \in cleaners["sweep"].merged THEN "mark" ELSE "gone"]
  /\ UNCHANGED <<tree, refs, wcDone>>

(* ... is_remote_branch_gone, which takes a failure for a branch that is gone.    *)
IsRemoteBranchGone ==
  /\ Step("sweep", "gone")
  /\ \/ To("sweep", "mark")
     \/ refs[cleaners["sweep"].branch].remote /\ Leave("sweep")
  /\ UNCHANGED <<tree, refs, wcDone>>

(* resolve_branch_tip, for each merged branch: one with work of its own is swept. *)
ResolveTip(b) ==
  /\ Step("sweep", "claude") /\ b \in cleaners["sweep"].merged
  /\ \E found \in BOOLEAN :
       cleaners' = [cleaners EXCEPT !["sweep"].merged = @ \ {b},
                      !["sweep"].targets = IF found /\ refs[b].exists /\ ~IsUnstarted(b) THEN @ \cup {b} ELSE @]
  /\ UNCHANGED <<tree, refs, wcDone>>

TargetsKnown(c) ==
  /\ Step(c, "claude") /\ cleaners[c].merged = {} /\ To(c, "match")
  /\ UNCHANGED <<tree, refs, wcDone>>

(* cleanup_claude_worktrees: a directory on one of the target branches; one whose *)
(* branch cannot be told is left alone.                                           *)
CleanupClaudeWorktrees(c) ==
  /\ Step(c, "match")
  /\ \/ cleaners' = [cleaners EXCEPT ![c] = NoCleaner]
     \/ /\ OwnBranch \in cleaners[c].targets
        /\ cleaners' = [cleaners EXCEPT ![c].pc = "mark", ![c].branch = OwnBranch, ![c].last = TRUE,
                                        ![c].late = @ \cap {"unworked"}]
  /\ UNCHANGED <<tree, refs, wcDone>>

-----------------------------------------------------------------------------
(* relocate_then_remove and remove_worktree *)

(* The marker is looked for before the panes are moved and again before the rest. *)
Shield(c) ==
  /\ cleaners[c].pc \in {"mark", "shield"}
  /\ IF tree.there /\ tree.marked THEN Leave(c)
     ELSE To(c, IF cleaners[c].pc = "mark" THEN "shield" ELSE "identity")
  /\ UNCHANGED <<tree, refs, wcDone>>

(* A directory on another branch is refused; one without a branch is let through, *)
(* and so is one whose branch a failing git command does not tell.                *)
BranchIdentity(c) ==
  /\ Step(c, "identity")
  /\ IF OwnBranch \in {cleaners[c].branch, Detached} THEN To(c, "status")
     ELSE \/ Leave(c)
          \/ cleaners' = [cleaners EXCEPT ![c].pc = "status", ![c].late = @ \cup {"unworked"}]
  /\ UNCHANGED <<tree, refs, wcDone>>

(* git status; a failure is unsafe, a missing directory safe. *)
StatusIsClean(c) ==
  /\ Step(c, "status")
  /\ \/ ~tree.there /\ To(c, "remove")
     \/ tree.there /\ tree.dirt = "none" /\ To(c, "revlist")
     \/ tree.there /\ Leave(c)
  /\ UNCHANGED <<tree, refs, wcDone>>

NothingUnpushed(c) ==
  /\ Step(c, "revlist")
  /\ IF IsBranchSafe(cleaners[c].branch) THEN To(c, "remove") ELSE Leave(c)
  /\ UNCHANGED <<tree, refs, wcDone>>

(* What a removal takes, less what came after its check. *)
Taken(c) ==
  (IF tree.dirt # "none" THEN {"edits"} ELSE {}) \cup
  (IF tree.marked THEN {"marker"} ELSE {}) \cup
  (IF tree.loose THEN {"commits"} ELSE {}) \cup
  (IF tree.at \in Branches /\ refs[tree.at].tip \in {"trunk", "newer"} /\ c = "sweep" THEN {"unworked"} ELSE {})

(* git worktree remove --force, which may fail. *)
RemoveWorktree(c) ==
  /\ Step(c, "remove")
  /\ \/ /\ tree' = NoTree
        /\ wcDone' = IF tree.there THEN [wcDone EXCEPT !.wrong = @ \cup (Taken(c) \ cleaners[c].late)] ELSE wcDone
     \/ UNCHANGED <<tree, wcDone>>
  /\ To(c, "delete")
  /\ UNCHANGED refs

DeleteBranch(c) ==
  /\ Step(c, "delete")
  /\ refs' = BranchDeleted(cleaners[c].branch)
  /\ Leave(c)
  /\ UNCHANGED <<tree, wcDone>>

Next ==
  \/ Edit \/ Commit \/ Checkout \/ MarkAgent \/ CatchUp
  \/ \E b \in Branches : PushBranch(b) \/ CreateTree(b) \/ MergePr(b) \/ CleanupAfterMerge(b) \/ ResolveTip(b)
  \/ FindWorktree \/ SweepFetches \/ SweepLoadsTrunk \/ SweepLoadsMerged \/ SweepLists \/ IsRemoteBranchGone
  \/ \E c \in Kinds : \/ TargetsKnown(c) \/ CleanupClaudeWorktrees(c) \/ Shield(c) \/ BranchIdentity(c)
                      \/ StatusIsClean(c) \/ NothingUnpushed(c) \/ RemoveWorktree(c) \/ DeleteBranch(c)

Spec == Init /\ [][Next]_treeVars

-----------------------------------------------------------------------------
(* Properties *)

(* A removal takes no edit, no marked tree, no detached commit and, in a sweep,  *)
(* no tree without work yet, unless it came into being after the check for it -   *)
(* a tree without work after the sweep loaded the trunk it is judged by - or the  *)
(* git command of that check failed.                                              *)
OnlySafeTreesRemoved == wcDone.wrong = {}
=============================================================================
