------------------------------ MODULE PrCron_proofs ------------------------------
(* Proofs about PrCron: however saves, webhooks, the routing and the poll            *)
(* interleave, a deferred fix is settled once.                                       *)
EXTENDS PrCron, TLAPS

\* The two halves of PrCron's type invariant: the entry with its saves, and the rest.
StoreType ==
  /\ {entry, disk} \subseteq Entries \cup {NoEntry}
  /\ saving \in [Flows -> Entries \cup {NoEntry, NoSave, Asked}]
Stages == {"idle", "listed", "deciding", "starting", "draining", "spawning", "retrying", "ci"}
PollType == poll \in [at: Stages, current: BOOLEAN, draft: BOOLEAN, promised: BOOLEAN]
GitHubType ==
  /\ open \in BOOLEAN /\ draft \in BOOLEAN /\ fed \in BOOLEAN
  /\ verdict \in {"approved", "changes", "dismissed", "none"} /\ passes \in 0..MaxPasses
ReviewType == review \in {"none", "running", "routing", "capping", "fixing", "merging"}
CountsType ==
  /\ owed \in BOOLEAN /\ promised \in BOOLEAN
  /\ built \in 0..2 /\ drained \in 0..2 /\ escalations \in 0..2
CiType == ciRunning \in 0..2 /\ ciBuilt \in 0..MaxCiFixes + 1
FlowType == PollType /\ GitHubType /\ ReviewType /\ CountsType /\ CiType

LEMMA FixesTypes ==
  /\ TypeOK <=> StoreType /\ FlowType
  /\ TypeOK' <=> StoreType' /\ FlowType'
<1>1. TypeOK <=> StoreType /\ FlowType
  BY DEF TypeOK, StoreType, FlowType, PollType, GitHubType, ReviewType, CountsType, CiType, Stages
<1>2. TypeOK' <=> StoreType' /\ FlowType'
  BY DEF TypeOK, StoreType, FlowType, PollType, GitHubType, ReviewType, CountsType, CiType, Stages
<1> QED  BY <1>1, <1>2

\* What a marker and a poll about to spawn mean: the drain has settled nothing since.
Marked == entry # NoEntry /\ entry.deferred
Unsettled ==
  /\ drained <= 1
  /\ Marked => drained = 0
  /\ poll.at = "spawning" => drained = 0

FixesInv == StoreType /\ FlowType /\ Unsettled

LEMMA FixesInit == Init => FixesInv
<1> SUFFICES ASSUME Init PROVE FixesInv
  OBVIOUS
<1>1. StoreType  BY DEF Init, StoreType
<1>2. FlowType
  <2>1. MaxPasses \in Nat /\ MaxCiFixes \in Nat  BY CronAssumption
  <2>2. PollType  BY DEF Init, NoPoll, PollType, Stages
  <2>3. open \in BOOLEAN /\ draft \in BOOLEAN /\ fed \in BOOLEAN /\ owed \in BOOLEAN /\ promised \in BOOLEAN
    BY Zenon DEF Init
  <2>4. GitHubType /\ CountsType  BY <2>1, <2>3 DEF Init, GitHubType, CountsType
  <2>5. ReviewType /\ CiType  BY <2>1 DEF Init, ReviewType, CiType
  <2> QED  BY <2>2, <2>4, <2>5 DEF FlowType
<1>3. Unsettled  BY DEF Init, Unsettled, Marked, NoPoll
<1> QED  BY <1>1, <1>2, <1>3 DEF FixesInv

\* The entry a change starts from, made anew when there is none.
LEMMA PriorEntry ==
  ASSUME StoreType, NEW o \in {"approved", "changes", "none"}
  PROVE  Prior(o) \in Entries /\ (Prior(o).deferred => Marked)
<1>1. Fresh(o) \in Entries /\ ~Fresh(o).deferred
  BY CronAssumption DEF Fresh, Entries
<1>2. entry \in Entries \cup {NoEntry}  BY DEF StoreType
<1> QED  BY <1>1, <1>2 DEF Prior, Marked

\* A flow that saves an entry.
LEMMA SavedEntry ==
  ASSUME StoreType, NEW f \in Flows, NEW e \in Entries \cup {NoEntry}, Saves(f, e)
  PROVE  StoreType' /\ entry' = e
  BY DEF StoreType, Saves

\* What happens to the PR on GitHub makes entries older, and marks none.
LEMMA TouchedEntry ==
  ASSUME StoreType, Touched
  PROVE  StoreType' /\ (Marked' => Marked)
<1>1. ASSUME NEW e \in Entries \cup {NoEntry, NoSave, Asked}
      PROVE  /\ Stale(e) \in Entries \cup {NoEntry, NoSave, Asked}
             /\ e \in Entries \cup {NoEntry} =>
                  Stale(e) \in Entries \cup {NoEntry}
  <2>1. CASE e \in {NoEntry, NoSave, Asked}  BY <2>1 DEF Stale
  <2>2. CASE e \notin {NoEntry, NoSave, Asked}
    <3>1. e \in Entries /\ Stale(e) = [e EXCEPT !.current = FALSE]  BY <2>2 DEF Stale
    <3>2. [e EXCEPT !.current = FALSE] \in Entries  BY <3>1 DEF Entries
    <3> QED  BY <3>1, <3>2
  <2> QED  BY <2>1, <2>2
<1>2. StoreType'  BY <1>1 DEF StoreType, Touched
<1>3. Marked' => Marked
  <2> SUFFICES ASSUME Marked' PROVE Marked
    OBVIOUS
  <2>1. CASE entry \in {NoEntry, NoSave, Asked}
    BY <2>1 DEF Touched, Stale, Marked
  <2>2. CASE entry \notin {NoEntry, NoSave, Asked}
    <3>1. entry \in Entries /\ entry' = [entry EXCEPT !.current = FALSE]
      BY <2>2 DEF Stale, Touched, StoreType
    <3>2. entry'.deferred = entry.deferred  BY <3>1 DEF Entries
    <3> QED  BY <2>2, <3>2 DEF Marked
  <2> QED  BY <2>1, <2>2
<1> QED  BY <1>2, <1>3

\* A CI fixer, or what keeps one from being started.
LEMMA CiFixer ==
  ASSUME StoreType, CiType, NEW f \in Flows, NEW set \in FailureSets, NEW retried \in BOOLEAN,
         SpawnsCiFixer(f, set, retried)
  PROVE  StoreType' /\ (Marked' => Marked) /\ CiType'
<1>1. Prior("approved") \in Entries /\ (Prior("approved").deferred => Marked)
  BY PriorEntry
<1> DEFINE p == Prior("approved")
           n == IF entry = NoEntry THEN 0 ELSE entry.attempts
<1>2. n \in 0..MaxCiFixes  BY CronAssumption DEF StoreType, Entries
<1>3. CiType'  BY CronAssumption DEF SpawnsCiFixer, CiType, UpTo2
<1>4. CASE Saves(f, [p EXCEPT !.alerted = set])
  <2> DEFINE e == [p EXCEPT !.alerted = set]
  <2>1. e \in Entries /\ e.deferred = p.deferred  BY <1>1 DEF Entries
  <2>2. Saves(f, e)  BY <1>4
  <2> HIDE DEF e
  <2> QED  BY <1>1, <1>3, <2>1, <2>2, SavedEntry DEF Marked
<1>5. CASE n < MaxCiFixes /\ Saves(f, [p EXCEPT !.attempts = n + 1, !.alerted = set])
  <2> DEFINE e == [p EXCEPT !.attempts = n + 1, !.alerted = set]
  <2>1. n + 1 \in 0..MaxCiFixes  BY <1>2, <1>5, CronAssumption
  <2> HIDE DEF n
  <2>2. e \in Entries /\ e.deferred = p.deferred  BY <1>1, <2>1 DEF Entries
  <2>3. Saves(f, e)  BY <1>5
  <2> HIDE DEF e
  <2> QED  BY <1>1, <1>3, <2>2, <2>3, SavedEntry DEF Marked
<1>6. CASE UNCHANGED store  BY <1>3, <1>6 DEF store, StoreType, Marked
<1>7. \/ Saves(f, [p EXCEPT !.alerted = set])
      \/ UNCHANGED store
      \/ n < MaxCiFixes /\ Saves(f, [p EXCEPT !.attempts = n + 1, !.alerted = set])
  BY <1>2, CronAssumption DEF SpawnsCiFixer
<1> QED  BY <1>4, <1>5, <1>6, <1>7

\* A step of the poll, the routing or GitHub that settles no marker and sets none.
LEMMA FixesKept ==
  ASSUME FixesInv, StoreType', Marked' => Marked, FlowType', drained' = drained,
         poll'.at = "spawning" => Marked \/ poll.at = "spawning"
  PROVE  FixesInv'
  BY DEF FixesInv, Unsettled

\* Where the poll is, and nothing else of it.
LEMMA PollMoves ==
  ASSUME PollType, NEW at \in Stages, At(at)
  PROVE  PollType' /\ poll'.at = at
  BY DEF PollType, At

LEMMA FixesPoll ==
  ASSUME FixesInv,
         \/ Lists \/ OtherRepoLists \/ Looks
         \/ \E b \in BOOLEAN : Decides(b) \/ Starts(b)
         \/ Retries \/ RetryEnds
  PROVE  FixesInv'
<1>1. StoreType /\ PollType /\ GitHubType /\ ReviewType /\ CountsType /\ CiType
  BY DEF FixesInv, FlowType
<1>2. "poll" \in Flows /\ Stages # {}  BY DEF Flows, Stages
<1>3. ASSUME UNCHANGED store PROVE StoreType' /\ (Marked' => Marked)
  BY <1>1, <1>3 DEF store, StoreType, Marked
<1>4. ASSUME Saves("poll", NoEntry) PROVE StoreType' /\ ~Marked'
  BY <1>1, <1>2, <1>4, SavedEntry DEF Marked
<1>5. CASE Lists
  <2>1. StoreType' /\ (Marked' => Marked)  BY <1>3, <1>4, <1>5 DEF Lists
  <2>2. PollType' /\ poll'.at # "spawning"
    <3>1. CASE UNCHANGED poll /\ poll.at = "idle"  BY <1>1, <3>1 DEF PollType
    <3>2. CASE poll' = [at |-> "listed", draft |-> draft, promised |-> promised,
                        current |-> entry # NoEntry /\ entry.current]
      <4> DEFINE c == entry # NoEntry /\ entry.current
      <4>1. c \in BOOLEAN  OBVIOUS
      <4>2. poll' = [at |-> "listed", draft |-> draft, promised |-> promised, current |-> c]  BY <3>2
      <4> HIDE DEF c
      <4> QED  BY <1>1, <4>1, <4>2 DEF PollType, GitHubType, CountsType, Stages
    <3> QED  BY <1>5, <3>1, <3>2 DEF Lists
  <2> QED
    BY <1>1, <1>5, <2>1, <2>2, FixesKept
    DEF Lists, FlowType, GitHubType, ReviewType, CountsType, CiType, github, ghosts, fixes
<1>6. CASE OtherRepoLists
  <2>1. StoreType' /\ (Marked' => Marked)  BY <1>4, <1>6 DEF OtherRepoLists
  <2> QED
    BY <1>1, <1>6, <2>1, FixesKept
    DEF OtherRepoLists, FlowType, PollType, GitHubType, ReviewType, CountsType, CiType, github, ghosts, fixes
<1>7. CASE Looks
  <2>1. StoreType' /\ (Marked' => Marked)  BY <1>1, <1>7 DEF Looks, StoreType, Marked
  <2>2. PICK at \in {"draining", "deciding"} : At(at)  BY <1>7 DEF Looks
  <2>3. PollType' /\ poll'.at # "spawning"  BY <1>1, <2>2, PollMoves DEF Stages
  <2> QED
    BY <1>1, <1>7, <2>1, <2>3, FixesKept
    DEF Looks, FlowType, GitHubType, ReviewType, CountsType, CiType, github, ghosts, fixes
<1>8. ASSUME NEW b \in BOOLEAN, Decides(b) PROVE FixesInv'
  <2>1. PICK at \in {"draining", "starting"} : At(at)  BY <1>8 DEF Decides
  <2>2. PollType' /\ poll'.at # "spawning"  BY <1>1, <2>1, PollMoves DEF Stages
  <2> QED
    BY <1>1, <1>3, <1>8, <2>2, FixesKept
    DEF Decides, FlowType, GitHubType, ReviewType, CountsType, CiType, github, ghosts, fixes
<1>9. ASSUME NEW b \in BOOLEAN, Starts(b) PROVE FixesInv'
  <2>1. PollType' /\ poll'.at # "spawning"  BY <1>1, <1>9, PollMoves DEF Starts, Stages
  <2> QED
    BY <1>1, <1>3, <1>9, <2>1, FixesKept
    DEF Starts, FlowType, GitHubType, ReviewType, CountsType, CiType, github, fixes
<1>10. CASE Retries
  <2>1. StoreType' /\ (Marked' => Marked)  BY <1>3, <1>4, <1>10 DEF Retries
  <2>2. PICK at \in {"idle", "ci"} : At(at)  BY <1>10 DEF Retries
  <2>3. PollType' /\ poll'.at # "spawning"  BY <1>1, <2>2, PollMoves DEF Stages
  <2> QED
    BY <1>1, <1>10, <2>1, <2>3, FixesKept
    DEF Retries, FlowType, GitHubType, ReviewType, CountsType, CiType, github, ghosts, fixes
<1>11. CASE RetryEnds
  <2>1. PollType' /\ poll'.at # "spawning"  BY <1>1, <1>11, PollMoves DEF RetryEnds, Stages
  <2> QED
    BY <1>1, <1>3, <1>11, <2>1, FixesKept
    DEF RetryEnds, FlowType, GitHubType, ReviewType, CountsType, CiType, github, ghosts, fixes
<1> QED  BY <1>5, <1>6, <1>7, <1>8, <1>9, <1>10, <1>11

\* A cleared marker, and what clears it.
LEMMA ClearedEntry ==
  ASSUME StoreType, NEW e \in Entries
  PROVE  Cleared(e) \in Entries /\ ~Cleared(e).deferred
<1> DEFINE d == FALSE
           c == [e EXCEPT !.deferred = d, !.failures = 0]
<1>1. d \in BOOLEAN /\ ~d  OBVIOUS
<1>2. 0 \in 0..MaxDeferrals - 1  BY CronAssumption
<1>3. Cleared(e) = c  BY DEF Cleared
<1> HIDE DEF d
<1>4. c \in Entries /\ c.deferred = d  BY <1>1, <1>2 DEF Entries
<1> QED  BY <1>1, <1>3, <1>4

LEMMA ClearsMarker == ASSUME StoreType, Clears PROVE StoreType' /\ ~Marked'
<1>1. CASE entry = NoEntry  BY <1>1 DEF Clears, store, StoreType, Marked
<1>2. CASE entry # NoEntry
  <2>1. entry \in Entries /\ "poll" \in Flows  BY <1>2 DEF StoreType, Flows
  <2>2. Saves("poll", Cleared(entry))  BY <1>2 DEF Clears, Cleared
  <2> QED  BY <2>1, <2>2, ClearedEntry, SavedEntry DEF Marked
<1> QED  BY <1>1, <1>2

\* At the cycle cap: the drain clears the marker, the routing sets none.
LEMMA CappedEntry ==
  ASSUME StoreType, CountsType, NEW f \in Flows, Capped(f)
  PROVE  /\ StoreType' /\ (Marked' => Marked) /\ (f = "poll" => ~Marked')
         /\ owed' \in BOOLEAN /\ built' \in 0..2 /\ escalations' \in 0..2
<1>1. Prior("changes") \in Entries /\ (Prior("changes").deferred => Marked)
  BY PriorEntry
<1> DEFINE p == Prior("changes")
           e == [p EXCEPT !.outcome = "changes", !.escalated = TRUE]
<1>2. e \in Entries /\ e.deferred = p.deferred  BY <1>1 DEF Entries
<1>4. owed' \in BOOLEAN /\ built' \in 0..2 /\ escalations' \in 0..2
  <2>1. owed' \in BOOLEAN  BY Zenon DEF Capped, Abandons, Escalates
  <2>2. built' \in 0..2 /\ escalations' \in 0..2
    BY DEF Capped, Abandons, Escalates, UpTo2, CountsType
  <2> QED  BY <2>1, <2>2
<1>3. \/ Saves(f, IF f = "poll" THEN Cleared(e) ELSE e)
      \/ entry # NoEntry /\ f = "poll" /\ Saves(f, Cleared(entry))
      \/ f # "poll" /\ UNCHANGED store
  BY DEF Capped
<1> HIDE DEF e
<1>5. CASE Saves(f, IF f = "poll" THEN Cleared(e) ELSE e)
  <2>1. CASE f = "poll"  BY <1>2, <1>4, <1>5, <2>1, ClearedEntry, SavedEntry DEF Marked
  <2>2. CASE f # "poll"  BY <1>1, <1>2, <1>4, <1>5, <2>2, SavedEntry DEF Marked
  <2> QED  BY <2>1, <2>2
<1>6. CASE entry # NoEntry /\ f = "poll" /\ Saves(f, Cleared(entry))
  <2>1. entry \in Entries  BY <1>6 DEF StoreType
  <2> QED  BY <1>4, <1>6, <2>1, ClearedEntry, SavedEntry DEF Marked
<1>7. CASE f # "poll" /\ UNCHANGED store
  BY <1>4, <1>7 DEF store, StoreType, Marked
<1> QED  BY <1>3, <1>5, <1>6, <1>7

LEMMA FixesDrain ==
  ASSUME FixesInv,
         (\E n \in Counts : Drains(n)) \/ (\E r \in Results : DrainSpawns(r))
  PROVE  FixesInv'
<1>1. StoreType /\ PollType /\ GitHubType /\ ReviewType /\ CountsType /\ CiType /\ Unsettled
  BY DEF FixesInv, FlowType
<1>2. "poll" \in Flows  BY DEF Flows
<1>3. ASSUME UNCHANGED store PROVE StoreType' /\ (Marked' => Marked)
  BY <1>1, <1>3 DEF store, StoreType, Marked
<1>4. GitHubType' /\ ReviewType' /\ CiType'
  BY <1>1 DEF Drains, DrainSpawns, GitHubType, ReviewType, CiType, github
<1>5. promised' = promised  BY DEF Drains, DrainSpawns
\* A step that settles the marker: it stood, so nothing was settled before.
<1>6. ASSUME StoreType', ~Marked', PollType', poll'.at # "spawning", drained = 0, Settles,
             owed' \in BOOLEAN, built' \in 0..2, escalations' \in 0..2
      PROVE  FixesInv'
  BY <1>1, <1>4, <1>5, <1>6 DEF FixesInv, FlowType, CountsType, Unsettled, Settles, UpTo2
\* A step that leaves it alone.
<1>7. ASSUME StoreType', Marked' => Marked, PollType', UNCHANGED fixes,
             poll'.at = "spawning" => Marked
      PROVE  FixesInv'
  BY <1>1, <1>4, <1>5, <1>7, FixesKept DEF FlowType, CountsType, fixes
<1>8. ASSUME NEW n \in Counts, Drains(n) PROVE FixesInv'
  <2>1. CASE entry = NoEntry \/ ~entry.deferred \/ review = "running" \/ poll.draft
    <3>1. At("retrying") /\ UNCHANGED store /\ UNCHANGED fixes
      BY <1>8, <2>1 DEF Drains
    <3> QED  BY <1>1, <1>3, <1>7, <3>1, PollMoves DEF Stages
  <2>2. CASE Marked /\ At("retrying") /\ Capped("poll") /\ Settles
    BY <1>1, <1>2, <1>6, <2>2, CappedEntry, PollMoves DEF Stages, Unsettled
  <2>3. CASE Marked /\ At("spawning") /\ UNCHANGED store /\ UNCHANGED fixes
    BY <1>1, <1>3, <1>7, <2>3, PollMoves DEF Stages
  <2> QED  BY <1>8, <2>1, <2>2, <2>3 DEF Drains, Marked
<1>9. ASSUME NEW r \in Results, DrainSpawns(r) PROVE FixesInv'
  <2>1. /\ At("retrying") /\ drained = 0
        /\ PollType' /\ poll'.at # "spawning"
    BY <1>1, <1>9, PollMoves DEF DrainSpawns, Unsettled, Stages
  <2>2. CASE UNCHANGED store /\ UNCHANGED fixes  BY <1>3, <1>7, <2>1, <2>2
  <2>3. CASE Clears /\ Settles /\ (Builds \/ Abandons)
    <3>1. owed' \in BOOLEAN /\ built' \in 0..2 /\ escalations' \in 0..2
      <4>1. owed' \in BOOLEAN  BY <2>3, Zenon DEF Builds, Abandons
      <4>2. built' \in 0..2 /\ escalations' \in 0..2
        BY <1>1, <2>3 DEF Builds, Abandons, UpTo2, CountsType
      <4> QED  BY <4>1, <4>2
    <3> QED  BY <1>1, <1>6, <2>1, <2>3, <3>1, ClearsMarker
  <2>4. CASE /\ entry # NoEntry /\ entry.failures + 1 < MaxDeferrals
             /\ Saves("poll", [entry EXCEPT !.failures = @ + 1]) /\ UNCHANGED fixes
    <3> DEFINE e == [entry EXCEPT !.failures = entry.failures + 1]
    <3>1. entry \in Entries  BY <1>1, <2>4 DEF StoreType
    <3>2. entry.failures + 1 \in 0..MaxDeferrals - 1
      BY <2>4, <3>1, CronAssumption DEF Entries
    <3>3. e \in Entries /\ e.deferred = entry.deferred  BY <3>1, <3>2 DEF Entries
    <3>4. Saves("poll", e)  BY <2>4
    <3> HIDE DEF e
    <3>5. StoreType' /\ (Marked' => Marked)
      BY <1>1, <1>2, <2>4, <3>3, <3>4, SavedEntry DEF Marked
    <3> QED  BY <1>7, <2>1, <2>4, <3>5
  <2> QED  BY <1>9, <2>2, <2>3, <2>4 DEF DrainSpawns
<1> QED  BY <1>8, <1>9

LEMMA FixesRetry ==
  ASSUME FixesInv, RetryMerges \/ \E set \in FailureSets : RetryFixesCi(set)
  PROVE  FixesInv'
<1>1. StoreType /\ PollType /\ GitHubType /\ ReviewType /\ CountsType /\ CiType
  BY DEF FixesInv, FlowType
<1>2. "poll" \in Flows  BY DEF Flows
<1>3. PollType' /\ poll'.at # "spawning"
  BY <1>1, PollMoves DEF RetryMerges, RetryFixesCi, Stages
<1>4. CASE RetryMerges
  <2>1. Fresh("approved") \in Entries /\ ~Fresh("approved").deferred
    BY CronAssumption DEF Fresh, Entries
  <2>2. StoreType' /\ ~Marked'
    BY <1>1, <1>2, <1>4, <2>1, SavedEntry DEF RetryMerges, Marked
  <2>3. open' \in BOOLEAN /\ owed' \in BOOLEAN  BY <1>4, Zenon DEF RetryMerges
  <2>4. FlowType'
    BY <1>1, <1>3, <1>4, <2>3 DEF RetryMerges, FlowType, GitHubType, ReviewType, CountsType, CiType
  <2>5. drained' = drained  BY <1>4 DEF RetryMerges
  <2> QED  BY <1>3, <2>2, <2>4, <2>5, FixesKept
<1>5. ASSUME NEW set \in FailureSets, RetryFixesCi(set) PROVE FixesInv'
  <2>1. SpawnsCiFixer("poll", set, TRUE)  BY <1>5 DEF RetryFixesCi
  <2>2. StoreType' /\ (Marked' => Marked) /\ CiType'  BY <1>1, <1>2, <2>1, CiFixer
  <2>3. FlowType' /\ drained' = drained
    BY <1>1, <1>3, <1>5, <2>2
    DEF RetryFixesCi, FlowType, GitHubType, ReviewType, CountsType, github, fixes
  <2> QED  BY <1>3, <2>2, <2>3, FixesKept
<1> QED  BY <1>4, <1>5

\* A verdict is posted.
LEMMA PostedVerdict ==
  ASSUME StoreType, GitHubType, NEW o \in Outcomes, Posts(o)
  PROVE  StoreType' /\ (Marked' => Marked) /\ GitHubType'
<1>1. CASE UNCHANGED <<github, store>>
  BY <1>1 DEF github, store, StoreType, GitHubType, Marked
<1>2. CASE ~UNCHANGED <<github, store>>
  <2>1. passes < MaxPasses /\ passes' = passes + 1 /\ verdict' = o /\ UNCHANGED <<open, draft>>
    BY <1>2 DEF Posts
  <2>2. fed' \in BOOLEAN  BY <1>2, Zenon DEF Posts
  <2>3. Touched  BY <1>2 DEF Posts
  <2>4. MaxPasses \in Nat /\ o \in {"approved", "changes", "dismissed", "none"}
    BY CronAssumption
  <2>5. GitHubType'  BY <2>1, <2>2, <2>4 DEF GitHubType
  <2> QED  BY <2>3, <2>5, TouchedEntry
<1> QED  BY <1>1, <1>2

LEMMA NewRoundCounts ==
  ASSUME CountsType, CiType, NewRound
  PROVE  CountsType' /\ CiType' /\ drained' = drained
<1>1. owed' \in BOOLEAN /\ promised' \in BOOLEAN  BY Zenon DEF NewRound
<1> QED  BY <1>1 DEF NewRound, CountsType, CiType

LEMMA FixesReview ==
  ASSUME FixesInv,
         \/ \E o \in Outcomes : SessionDone(o) \/ OtherVerdict(o)
         \/ SessionFails \/ RouteEnds \/ RouteMerges
         \/ \E set \in FailureSets : RouteFixesCi(set)
  PROVE  FixesInv'
<1>1. StoreType /\ PollType /\ GitHubType /\ ReviewType /\ CountsType /\ CiType
  BY DEF FixesInv, FlowType
<1>2. "route" \in Flows  BY DEF Flows
<1>3. ASSUME UNCHANGED store PROVE StoreType' /\ (Marked' => Marked)
  BY <1>1, <1>3 DEF store, StoreType, Marked
<1>4. ASSUME NEW o \in Outcomes, SessionDone(o) \/ OtherVerdict(o) PROVE FixesInv'
  <2>1. /\ Posts(o) /\ NewRound /\ UNCHANGED poll
        /\ review' = review \/ review' = "routing"
    BY <1>4 DEF SessionDone, OtherVerdict
  <2>2. StoreType' /\ (Marked' => Marked) /\ GitHubType'  BY <1>1, <2>1, PostedVerdict
  <2>3. CountsType' /\ CiType' /\ drained' = drained  BY <1>1, <2>1, NewRoundCounts
  <2>4. FlowType'  BY <1>1, <2>1, <2>2, <2>3 DEF FlowType, PollType, ReviewType
  <2> QED  BY <2>1, <2>2, <2>3, <2>4, FixesKept
<1>5. CASE SessionFails \/ RouteEnds
  <2>1. /\ review' = "none"
        /\ UNCHANGED <<github, store, poll, ghosts>>
    BY <1>5 DEF SessionFails, RouteEnds
  <2> QED
    BY <1>1, <1>3, <2>1, FixesKept
    DEF FlowType, PollType, GitHubType, ReviewType, CountsType, CiType, github, ghosts, fixes
<1>6. CASE RouteMerges
  <2>1. open' \in BOOLEAN /\ owed' \in BOOLEAN  BY <1>6, Zenon DEF RouteMerges
  <2>2. FlowType' /\ drained' = drained /\ UNCHANGED <<poll, store>>
    BY <1>1, <1>6, <2>1
    DEF RouteMerges, FlowType, PollType, GitHubType, ReviewType, CountsType, CiType
  <2> QED  BY <1>3, <2>2, FixesKept
<1>7. ASSUME NEW set \in FailureSets, RouteFixesCi(set) PROVE FixesInv'
  <2>1. SpawnsCiFixer("route", set, FALSE)  BY <1>7 DEF RouteFixesCi
  <2>2. StoreType' /\ (Marked' => Marked) /\ CiType'  BY <1>1, <1>2, <2>1, CiFixer
  <2>3. PollType' /\ poll'.at = poll.at
    <3> DEFINE c == poll.current \/ entry = NoEntry
    <3>1. c \in BOOLEAN  OBVIOUS
    <3>2. poll' = [poll EXCEPT !.current = c]  BY <1>7 DEF RouteFixesCi, Renewed
    <3> HIDE DEF c
    <3> QED  BY <1>1, <3>1, <3>2 DEF PollType
  <2>4. FlowType' /\ drained' = drained
    BY <1>1, <1>7, <2>2, <2>3
    DEF RouteFixesCi, FlowType, GitHubType, ReviewType, CountsType, github, fixes
  <2> QED  BY <2>2, <2>3, <2>4, FixesKept
<1> QED  BY <1>4, <1>5, <1>6, <1>7

\* An entry made anew: the poll's listing of it is older.
LEMMA RenewedPoll == ASSUME PollType, Renewed PROVE PollType' /\ poll'.at = poll.at
<1> DEFINE c == poll.current \/ entry = NoEntry
<1>1. c \in BOOLEAN  OBVIOUS
<1>2. poll' = [poll EXCEPT !.current = c]  BY DEF Renewed
<1> HIDE DEF c
<1> QED  BY <1>1, <1>2 DEF PollType

LEMMA FixesRouting ==
  ASSUME FixesInv,
         \/ Persists \/ \E n \in Counts : RouteCaps(n)
         \/ \E r \in Results : RouteSpawns(r)
  PROVE  FixesInv'
<1>1. StoreType /\ PollType /\ GitHubType /\ ReviewType /\ CountsType /\ CiType /\ Unsettled
  BY DEF FixesInv, FlowType
<1>2. "route" \in Flows /\ "route" # "poll"  BY DEF Flows
<1>3. ASSUME UNCHANGED store PROVE StoreType' /\ (Marked' => Marked)
  BY <1>1, <1>3 DEF store, StoreType, Marked
<1>4. GitHubType' /\ ReviewType' /\ CiType'
  BY <1>1 DEF Persists, RouteCaps, RouteSpawns, GitHubType, ReviewType, CiType, github
<1>5. CASE Persists
  <2>1. StoreType' /\ (Marked' => Marked)
    <3>1. CASE verdict = "dismissed"  BY <1>3, <1>5, <3>1 DEF Persists
    <3>2. CASE verdict # "dismissed"
      <4> DEFINE p == Prior(verdict)
                 b == TRUE
                 e == [p EXCEPT !.outcome = verdict, !.current = b]
      <4>1. verdict \in {"approved", "changes", "none"}  BY <1>1, <3>2 DEF GitHubType
      <4>2. p \in Entries /\ (p.deferred => Marked)  BY <1>1, <4>1, PriorEntry
      <4>3. Saves("route", e)  BY <1>5, <3>2 DEF Persists
      <4>4. b \in BOOLEAN  OBVIOUS
      <4> HIDE DEF b, p
      <4>5. e \in Entries /\ e.deferred = p.deferred  BY <4>1, <4>2, <4>4 DEF Entries
      <4> HIDE DEF e
      <4> QED  BY <1>1, <1>2, <4>2, <4>3, <4>5, SavedEntry DEF Marked
    <3> QED  BY <3>1, <3>2
  <2>2. PollType' /\ poll'.at = poll.at
    <3> DEFINE c == poll.current \/ verdict # "dismissed"
    <3>1. c \in BOOLEAN  OBVIOUS
    <3>2. poll' = [poll EXCEPT !.current = c]  BY <1>5 DEF Persists
    <3> HIDE DEF c
    <3> QED  BY <1>1, <3>1, <3>2 DEF PollType
  <2>3. promised' \in BOOLEAN  BY <1>5 DEF Persists
  <2>4. CountsType' /\ drained' = drained
    BY <1>1, <1>5, <2>3 DEF Persists, CountsType, fixes
  <2> QED  BY <1>4, <2>1, <2>2, <2>4, FixesKept DEF FlowType
<1>6. ASSUME NEW n \in Counts, RouteCaps(n) PROVE FixesInv'
  <2>1. PollType' /\ poll'.at = poll.at  BY <1>1, <1>6, RenewedPoll DEF RouteCaps
  <2>2. CASE Capped("route") /\ UNCHANGED drained
    <3>1. /\ StoreType' /\ (Marked' => Marked)
          /\ owed' \in BOOLEAN /\ built' \in 0..2 /\ escalations' \in 0..2
      BY <1>1, <1>2, <2>2, CappedEntry
    <3>2. CountsType'  BY <1>1, <1>6, <2>2, <3>1 DEF RouteCaps, CountsType
    <3> QED  BY <1>4, <2>1, <2>2, <3>1, <3>2, FixesKept DEF FlowType
  <2>3. CASE UNCHANGED <<store, fixes>>
    <3>1. CountsType' /\ drained' = drained
      BY <1>1, <1>6, <2>3 DEF RouteCaps, CountsType, fixes
    <3> QED  BY <1>3, <1>4, <2>1, <2>3, <3>1, FixesKept DEF FlowType
  <2> QED  BY <1>6, <2>2, <2>3 DEF RouteCaps
<1>7. ASSUME NEW r \in Results, RouteSpawns(r) PROVE FixesInv'
  <2>1. PollType' /\ poll'.at = poll.at  BY <1>1, <1>7, RenewedPoll DEF RouteSpawns
  <2>2. owed' \in BOOLEAN
    <3>1. owed' = FALSE \/ owed' = (open /\ fed /\ verdict = "changes")
      BY <1>7 DEF RouteSpawns, Builds
    <3> QED  BY <3>1, Zenon
  <2>3. CASE r = "spawned"
    <3>1. CountsType' /\ drained' = drained /\ UNCHANGED store
      BY <1>1, <1>7, <2>2, <2>3 DEF RouteSpawns, Builds, UpTo2, CountsType
    <3> QED  BY <1>3, <1>4, <2>1, <3>1, FixesKept DEF FlowType
  <2>4. CASE r # "spawned"
    <3> DEFINE p == Prior("changes")
               d == TRUE
               n == IF r = "failed" THEN 1 ELSE p.failures
               e == [p EXCEPT !.deferred = d, !.failures = n]
    <3>1. p \in Entries  BY <1>1, PriorEntry
    <3>2. n \in 0..MaxDeferrals - 1  BY <3>1, CronAssumption DEF Entries
    <3>3. d \in BOOLEAN  OBVIOUS
    <3>4. Saves("route", e)  BY <1>7, <2>4 DEF RouteSpawns, Marks
    <3> HIDE DEF p, d, n
    <3>5. e \in Entries  BY <3>1, <3>2, <3>3 DEF Entries
    <3> HIDE DEF e
    <3>6. StoreType'  BY <1>1, <1>2, <3>4, <3>5, SavedEntry
    <3>7. CountsType' /\ drained' = 0
      BY <1>1, <1>7, <2>2, <2>4 DEF RouteSpawns, CountsType
    <3> QED  BY <1>4, <2>1, <3>6, <3>7 DEF FixesInv, FlowType, Unsettled
  <2> QED  BY <2>3, <2>4
<1> QED  BY <1>5, <1>6, <1>7

LEMMA FixesSaves == ASSUME FixesInv, SaveSteps PROVE FixesInv'
<1>1. StoreType /\ PollType /\ GitHubType /\ ReviewType /\ CountsType /\ CiType
  BY DEF FixesInv, FlowType
<1>2. PICK f \in Flows : (f = "other" /\ OtherSaves) \/ Serializes(f) \/ Renames(f)
  BY DEF SaveSteps
<1>3. UNCHANGED <<entry, github, review, poll, ghosts>>
  BY <1>2 DEF OtherSaves, Serializes, Renames
<1>4. StoreType'
  <2>1. CASE f = "other" /\ OtherSaves  BY <1>1, <2>1 DEF OtherSaves, StoreType
  <2>2. CASE Serializes(f)  BY <1>1, <2>2 DEF Serializes, StoreType
  <2>3. CASE Renames(f)  BY <1>1, <2>3 DEF Renames, StoreType
  <2> QED  BY <1>2, <2>1, <2>2, <2>3
<1>5. FlowType' /\ drained' = drained /\ poll' = poll /\ (Marked' => Marked)
  BY <1>1, <1>3
  DEF FlowType, PollType, GitHubType, ReviewType, CountsType, CiType, Marked, github, ghosts, fixes
<1> QED  BY <1>4, <1>5, FixesKept

LEMMA FixesGitHub ==
  ASSUME FixesInv,
         \/ HumanPushes \/ FixerPushes \/ FixerEnds
         \/ Comment \/ TogglesDraft \/ Closes
  PROVE  FixesInv'
<1>1. StoreType /\ PollType /\ GitHubType /\ ReviewType /\ CountsType /\ CiType
  BY DEF FixesInv, FlowType
<1>2. StoreType' /\ (Marked' => Marked)
  <2>1. CASE Touched  BY <1>1, <2>1, TouchedEntry
  <2>2. CASE FixerEnds  BY <1>1, <2>2 DEF FixerEnds, store, StoreType, Marked
  <2> QED
    BY <2>1, <2>2 DEF HumanPushes, FixerPushes, Pushed, Comment, TogglesDraft, Closes
<1>3. UNCHANGED <<verdict, passes, review, poll, built, drained, escalations, promised>>
  BY DEF HumanPushes, FixerPushes, Pushed, FixerEnds, Comment, TogglesDraft,
         Closes, github, ghosts, fixes
<1>4. open' \in BOOLEAN /\ draft' \in BOOLEAN /\ fed' \in BOOLEAN /\ owed' \in BOOLEAN
  <2>1. open \in BOOLEAN /\ draft \in BOOLEAN /\ fed \in BOOLEAN /\ owed \in BOOLEAN
    BY <1>1 DEF GitHubType, CountsType
  <2>2. /\ open' = open \/ open' = FALSE
        /\ draft' = draft \/ draft' = ~draft
        /\ fed' = fed \/ fed' = FALSE
        /\ owed' = owed \/ owed' = FALSE
    BY DEF HumanPushes, FixerPushes, Pushed, FixerEnds, Comment, TogglesDraft,
           Closes, github, ghosts, fixes
  <2> QED  BY <2>1, <2>2, Zenon
<1>5. CiType'
  BY <1>1, CronAssumption
  DEF HumanPushes, FixerPushes, Pushed, FixerEnds, Comment, TogglesDraft,
      Closes, ghosts, CiType
<1>6. FlowType'  BY <1>1, <1>3, <1>4, <1>5 DEF FlowType, PollType, GitHubType, ReviewType, CountsType
<1> QED  BY <1>2, <1>3, <1>6, FixesKept

\* A restart forgets what was settled, and every marker it reads back is settled anew.
LEMMA FixesRestart == ASSUME FixesInv, Restart PROVE FixesInv'
<1>1. StoreType /\ GitHubType /\ CiType /\ CountsType  BY DEF FixesInv, FlowType
<1>2. StoreType'  BY <1>1 DEF Restart, StoreType
<1>3. PollType' /\ poll'.at = "idle"  BY DEF Restart, NoPoll, PollType, Stages
<1>4. owed' \in BOOLEAN /\ promised' \in BOOLEAN  BY Zenon DEF Restart
<1>5. FlowType'
  BY <1>1, <1>3, <1>4 DEF Restart, FlowType, GitHubType, ReviewType, CountsType, CiType, github
<1>6. Unsettled'  BY <1>3 DEF Restart, Unsettled
<1> QED  BY <1>2, <1>5, <1>6 DEF FixesInv

LEMMA FixesStep == FixesInv /\ [Next]_cvars => FixesInv'
<1> SUFFICES ASSUME FixesInv, [Next]_cvars PROVE FixesInv'
  OBVIOUS
<1>1. CASE Poll  BY <1>1, FixesPoll, FixesDrain, FixesRetry DEF Poll
<1>2. CASE OtherRepoLists  BY <1>2, FixesPoll
<1>3. CASE Routing  BY <1>3, FixesReview, FixesRouting DEF Routing
<1>4. CASE SaveSteps  BY <1>4, FixesSaves
<1>5. CASE \E o \in Outcomes : OtherVerdict(o)  BY <1>5, FixesReview
<1>6. CASE UNCHANGED cvars
  <2>1. StoreType' /\ (Marked' => Marked) /\ FlowType' /\ drained' = drained /\ poll' = poll
    BY <1>6
    DEF FixesInv, StoreType, FlowType, PollType, GitHubType, ReviewType, CountsType, CiType, Marked,
        cvars, github, store, ghosts, fixes
  <2> QED  BY <2>1, FixesKept
<1> QED  BY <1>1, <1>2, <1>3, <1>4, <1>5, <1>6, FixesGitHub, FixesRestart DEF Next

(* A fix the cron has put off is settled at most once in a daemon's life, by one      *)
(* builder or one page, and the entries, saves and polls keep their types: however    *)
(* saves, webhooks, the routing and the poll interleave.                               *)
THEOREM DeferredFixSettledOnce == Spec => []FixesInOrder
<1>1. FixesInv => FixesInOrder
  BY FixesTypes DEF FixesInv, Unsettled, FixesInOrder, QueuedFixSettledOnce
<1> QED  BY <1>1, FixesInit, FixesStep, PTL DEF Spec
==================================================================================
