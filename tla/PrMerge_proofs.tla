----------------------------- MODULE PrMerge_proofs -----------------------------
(* Proofs about PrMerge, for any number of sessions and pushes.  The inductive       *)
(* invariant ties every flow that is at work to the lease, through the owner the      *)
(* store itself does not record.                                                      *)
EXTENDS PrMerge, TLAPS

Kinds == {"cron", "retry", "webhook", "tidus", "staging"}
Pcs   == {"idle", "prep", "running", "routing", "deciding", "merging", "closing"}
Flows == [kind: {"none"} \cup Kinds, pc: Pcs, sha: Shas \cup {0}]

\* The part of the type invariant about flows and the lease.
FlowType ==
  /\ lease \in Leases \cup {NoLease}
  /\ flow \in [Sessions -> Flows]
  /\ outlived \subseteq Working /\ robbed \subseteq Working

\* A flow whose lease neither expired nor was released by another holds it.
Owned ==
  \A s \in Holding : s \notin outlived \cup robbed => lease # NoLease /\ lease.owner = s

\* A live lease carries what its owner stamped on it; a manual one no session.
Stamped ==
  lease # NoLease =>
    /\ lease.holder = "tidus-manual" => lease.session = NoSession
    /\ lease.owner \in Holding =>
         /\ lease.holder = HolderOf[flow[lease.owner].kind]
         /\ lease.session = Stamp(flow[lease.owner].kind, lease.owner)

\* Idle flows have no kind, a merge retry only decides, merges and closes, and every
\* flow at work is about a sha.
Kinded ==
  \A s \in Sessions :
    /\ flow[s].kind = "none" <=> flow[s].pc = "idle"
    /\ flow[s].kind = "retry" => flow[s].pc \in {"deciding", "merging", "closing"}
    /\ flow[s].kind # "none" => flow[s].sha \in Shas

Core == FlowType /\ Owned /\ NoLeakedLease /\ Stamped /\ Kinded

--------------------------------------------------------------------------------
(* The lease store.                                                               *)

LEMMA HolderFacts ==
  /\ HolderOf["cron"] = "daemon-cron" /\ HolderOf["retry"] = "daemon-cron"
  /\ HolderOf["webhook"] = "daemon-webhook" /\ HolderOf["tidus"] = "tidus-manual"
  /\ HolderOf["staging"] = "daemon-staging"
  /\ \A k \in Kinds : HolderOf[k] \in Holders
  BY DEF HolderOf, Kinds, Holders

LEMMA NoLeaseFacts ==
  /\ NoLease \notin Leases
  /\ NoLease.owner = NoSession /\ NoLease.holder = "nobody"
  /\ \A l \in Leases : l.owner \in Sessions /\ l.holder \in Holders /\ l # NoLease
  BY LeaseAssumption DEF NoLease, Leases, Holders

LEMMA AcquiredFacts ==
  ASSUME NEW l \in Leases \cup {NoLease}, NEW h \in Holders, NEW s \in Sessions,
         NEW n \in Sessions \cup {NoSession}
  PROVE  /\ Acquired(l, h, n, s) \in Leases
         /\ Acquired(l, h, n, s).owner = s
         /\ l = NoLease => /\ Acquired(l, h, n, s).holder = h
                           /\ Acquired(l, h, n, s).session = n
         /\ l # NoLease => /\ Acquired(l, h, n, s).holder = l.holder
                           /\ Acquired(l, h, n, s).session = l.session
<1>1. CASE l = NoLease
  BY <1>1 DEF Acquired, Leases
<1>2. CASE l # NoLease
  BY <1>2 DEF Acquired, Leases
<1> QED BY <1>1, <1>2

LEMMA ReleasedFacts ==
  ASSUME NEW l \in Leases \cup {NoLease}, NEW h \in Holders
  PROVE  /\ Released(l, h) \in {l, NoLease}
         /\ Released(l, h) # NoLease => l # NoLease /\ l.holder # h
  BY NoLeaseFacts DEF Released

--------------------------------------------------------------------------------
(* The ways a flow moves.                                                         *)

\* A flow that stays at work keeps everything.
LEMMA GoesKeeps ==
  ASSUME Core, NEW s \in Sessions, NEW pc \in Pcs \ {"idle"}, flow[s].pc # "idle",
         flow[s].kind = "retry" => flow[s].pc # "deciding" /\ pc \in {"merging", "closing"},
         Goes(s, pc)
  PROVE  Core'
<1> USE DEF Core
<1>1. flow' \in [Sessions -> Flows]
  BY DEF Goes, FlowType, Flows
<1>2. \A t \in Sessions : /\ flow'[t].kind = flow[t].kind
                          /\ flow'[t].sha = flow[t].sha
                          /\ t # s => flow'[t] = flow[t]
                          /\ flow'[s].pc = pc
  BY DEF Goes, FlowType, Flows
<1>3. Working' = Working /\ Holding' = Holding
  <2>1. \A t \in Sessions : flow'[t].pc # "idle" <=> flow[t].pc # "idle"
    BY <1>2
  <2>2. \A t \in Sessions : (flow'[t].kind = "retry" /\ flow'[t].pc = "deciding")
                              <=> (flow[t].kind = "retry" /\ flow[t].pc = "deciding")
    BY <1>2
  <2>3. Working' = Working
    BY <2>1 DEF Working, Busy
  <2> QED BY <2>2, <2>3 DEF Holding, Working
<1>4. FlowType'
  BY <1>1, <1>3 DEF FlowType, Goes, ghosts
<1>5. Owned' /\ NoLeakedLease'
  BY <1>3 DEF Owned, NoLeakedLease, Goes, ghosts
<1>6. Stamped'
  BY <1>2, <1>3 DEF Stamped, Goes, Stamp, Holding, Working
<1>7. Kinded'
  BY <1>2 DEF Kinded
<1> QED BY <1>4, <1>5, <1>6, <1>7

\* Who may be granted a live lease: only a manual review, over a dead one.
LEMMA GrantedOverDead ==
  ASSUME Core, NEW s \in Sessions, Fresh(s), NEW k \in Kinds, k # "retry",
         k = "cron" => PollIdle, k = "tidus" => Of({"tidus"}) = {},
         Granted(lease, HolderOf[k], Stamp(k, s)), lease # NoLease
  PROVE  k = "tidus" /\ lease.holder = "tidus-manual" /\ lease.owner \notin Holding
<1> USE DEF Core
<1>1. lease \in Leases /\ lease.holder = HolderOf[k]
  BY DEF FlowType, Granted
<1>2. CASE k = "tidus"
  <2>1. lease.holder = "tidus-manual"
    BY <1>1, <1>2, HolderFacts
  <2>2. ASSUME lease.owner \in Holding PROVE FALSE
    <3>1. lease.holder = HolderOf[flow[lease.owner].kind]
      BY <2>2 DEF Stamped
    <3>2. lease.owner \in Working /\ flow[lease.owner].kind \in Kinds
      BY <2>2 DEF Holding, Working, Busy, Kinded, FlowType, Flows
    <3>3. flow[lease.owner].kind = "tidus"
      BY <2>1, <3>1, <3>2, HolderFacts DEF Kinds
    <3> QED BY <1>2, <3>2, <3>3 DEF Of
  <2> QED BY <1>2, <2>1, <2>2
<1>3. CASE k # "tidus"
  <2>1. lease.holder # "tidus-manual"
    BY <1>1, <1>3, HolderFacts DEF Kinds
  <2>2. lease.owner \in Holding
    BY <2>1 DEF NoLeakedLease
  <2> DEFINE o == lease.owner
  <2>3. lease.holder = HolderOf[flow[o].kind] /\ lease.session = Stamp(flow[o].kind, o)
    BY <2>2 DEF Stamped
  <2>4. o \in Working /\ flow[o].kind \in Kinds
    BY <2>2 DEF Holding, Working, Busy, Kinded, FlowType, Flows
  <2>5. flow[o].kind # "retry" /\ flow[o].kind = k
    BY <1>1, <1>3, <2>3, <2>4, HolderFacts DEF Kinds, PollIdle, Of
  <2>6. lease.session = o /\ Stamp(k, s) = s /\ o # s
    BY <1>3, <2>3, <2>5 DEF Stamp, Fresh
  <2>7. NoSession # s /\ NoSession # o
    BY <2>4, LeaseAssumption DEF Working
  <2> QED BY <1>1, <2>6, <2>7 DEF Granted
<1> QED BY <1>2, <1>3

\* A flow that is granted a free lease, or a dead manual one, starts well.
LEMMA GrantKeeps ==
  ASSUME Core, NEW s \in Sessions, NEW k \in Kinds, NEW pc \in Pcs \ {"idle"},
         NEW sha \in Shas,
         lease # NoLease => /\ k = "tidus" /\ lease.holder = "tidus-manual"
                            /\ lease.owner \notin Holding,
         k = "retry" => pc = "merging",
         lease' = Acquired(lease, HolderOf[k], Stamp(k, s), s),
         flow' = [flow EXCEPT ![s] = [kind |-> k, pc |-> pc, sha |-> sha]],
         UNCHANGED ghosts
  PROVE  Core'
<1> USE DEF Core
<1>1. HolderOf[k] \in Holders /\ Stamp(k, s) \in Sessions \cup {NoSession}
  BY HolderFacts DEF Stamp
<1>2. /\ lease' \in Leases /\ lease' # NoLease /\ lease'.owner = s
      /\ lease = NoLease => lease'.holder = HolderOf[k] /\ lease'.session = Stamp(k, s)
      /\ lease # NoLease => lease'.holder = lease.holder /\ lease'.session = lease.session
  BY <1>1, AcquiredFacts, NoLeaseFacts DEF FlowType
<1>3. /\ flow' \in [Sessions -> Flows]
      /\ flow'[s].kind = k /\ flow'[s].pc = pc /\ flow'[s].sha = sha
      /\ \A t \in Sessions : t # s => flow'[t] = flow[t]
  BY DEF FlowType, Flows
<1>4. Working' = Working \cup {s}
  BY <1>3 DEF Working, Busy
<1>5. s \in Holding' /\ \A t \in Holding' : t = s \/ t \in Holding
  BY <1>3, <1>4 DEF Holding, Working
<1>6. FlowType'
  BY <1>2, <1>3, <1>4 DEF FlowType, ghosts
<1>7. Owned'
  BY <1>2, <1>5 DEF Owned, ghosts
<1>8. NoLeakedLease'
  BY <1>2, <1>5 DEF NoLeakedLease
<1>9. Stamped'
  <2>1. CASE lease = NoLease
    <3>1. lease'.holder = HolderOf[k] /\ lease'.session = Stamp(k, s)
      BY <2>1, <1>2
    <3>2. HolderOf[k] = "tidus-manual" => k = "tidus"
      BY HolderFacts DEF Kinds
    <3>3. k = "tidus" => Stamp(k, s) = NoSession
      BY DEF Stamp
    <3>4. Stamp(flow'[lease'.owner].kind, lease'.owner) = Stamp(k, s)
      BY <1>2, <1>3
    <3>5. HolderOf' = HolderOf /\ Stamp(flow[lease.owner].kind, lease.owner)' = Stamp(k, s)
      BY <3>4 DEF HolderOf, Stamp
    <3> QED BY <1>2, <1>3, <3>1, <3>2, <3>3, <3>5 DEF Stamped
  <2>2. CASE lease # NoLease
    <3>1. lease'.holder = "tidus-manual" /\ lease'.session = NoSession
      BY <2>2, <1>2 DEF Stamped
    <3>2. HolderOf[k] = "tidus-manual" /\ Stamp(k, s) = NoSession
      BY <2>2, HolderFacts DEF Stamp
    <3>3. Stamp(flow[lease.owner].kind, lease.owner)' = Stamp(k, s)
      BY <1>2, <1>3 DEF Stamp
    <3> QED BY <1>2, <1>3, <3>1, <3>2, <3>3 DEF Stamped
  <2> QED BY <2>1, <2>2
<1>10. Kinded'
  BY <1>3 DEF Kinded, Kinds
<1> QED BY <1>6, <1>7, <1>8, <1>9, <1>10

\* What a release leaves of the lease and of the other flows' claims to it.
LEMMA ReleaseRobs ==
  ASSUME Core, NEW s \in Holding, NEW after,
         after = Released(lease, HolderOf[flow[s].kind]),
         outlived' = outlived \ {s}, robbed' = Robs(s, after)
  PROVE  /\ after \in {lease, NoLease}
         /\ after # NoLease => lease.holder # HolderOf[flow[s].kind] /\ lease.owner # s
         /\ \A t \in Holding \ {s} : t \notin outlived' \cup robbed' =>
              after # NoLease /\ after.owner = t
         /\ outlived' \subseteq Working \ {s} /\ robbed' \subseteq Working \ {s}
<1> USE DEF Core
<1>1. s \in Working /\ flow[s].kind \in Kinds /\ HolderOf[flow[s].kind] \in Holders
  BY HolderFacts DEF Holding, Working, Busy, Kinded, FlowType, Flows, Kinds
<1>2. /\ after \in {lease, NoLease}
      /\ after # NoLease => lease # NoLease /\ lease.holder # HolderOf[flow[s].kind]
  BY <1>1, ReleasedFacts DEF FlowType
<1>3. after # NoLease => lease.owner # s
  BY <1>2 DEF Stamped
<1>4. ASSUME NEW t \in Holding \ {s}, t \notin outlived' \cup robbed'
      PROVE  after # NoLease /\ after.owner = t
  <2>1. t \notin outlived /\ t \notin robbed
    BY <1>4 DEF Robs
  <2>2. lease # NoLease /\ lease.owner = t
    BY <2>1 DEF Owned
  <2>3. Busy(t)
    BY DEF Holding, Working
  <2>4. after = lease
    BY <1>4, <2>2, <2>3 DEF Robs
  <2> QED BY <2>2, <2>4
<1>5. outlived' \subseteq Working \ {s}
  BY DEF FlowType
<1>6. robbed' \subseteq Working \ {s}
  <2>1. lease # after => lease \in Leases
    BY <1>2 DEF FlowType
  <2>2. lease # after /\ Busy(lease.owner) => lease.owner \in Working
    BY <2>1, NoLeaseFacts DEF Working
  <2> QED BY <2>2 DEF Robs, FlowType
<1> QED BY <1>2, <1>3, <1>4, <1>5, <1>6

\* A flow that ends gives back what is its own.
LEMMA EndsKeeps ==
  ASSUME Core, NEW s \in Holding, Ends(s)
  PROVE  Core'
<1> USE DEF Core
<1> DEFINE after == Released(lease, HolderOf[flow[s].kind])
<1>1. /\ lease' = after /\ flow' = [flow EXCEPT ![s] = Idle]
      /\ outlived' = outlived \ {s} /\ robbed' = Robs(s, after)
  BY DEF Ends
<1>2. /\ after \in {lease, NoLease}
      /\ after # NoLease => lease.holder # HolderOf[flow[s].kind] /\ lease.owner # s
      /\ \A t \in Holding \ {s} : t \notin outlived' \cup robbed' =>
           after # NoLease /\ after.owner = t
      /\ outlived' \subseteq Working \ {s} /\ robbed' \subseteq Working \ {s}
  BY <1>1, ReleaseRobs
<1> HIDE DEF after
<1>3. s \in Sessions
  BY DEF Holding, Working
<1>4. /\ flow' \in [Sessions -> Flows]
      /\ flow'[s].kind = "none" /\ flow'[s].pc = "idle"
      /\ \A t \in Sessions : t # s => flow'[t] = flow[t]
  BY <1>1, <1>3 DEF FlowType, Flows, Idle, Pcs
<1>5. Working' = Working \ {s}
  BY <1>4 DEF Working, Busy
<1>6. Holding' = Holding \ {s}
  BY <1>4, <1>5 DEF Holding, Working
<1>7. FlowType'
  BY <1>1, <1>2, <1>4, <1>5 DEF FlowType
<1>8. Owned'
  BY <1>1, <1>2, <1>6 DEF Owned
<1>9. NoLeakedLease'
  BY <1>1, <1>2, <1>6 DEF NoLeakedLease
<1>10. Stamped'
  <2>1. CASE lease' = NoLease
    BY <2>1 DEF Stamped
  <2>2. CASE lease' # NoLease
    <3>1. lease' = lease /\ lease.owner # s
      BY <2>2, <1>1, <1>2
    <3>2. lease.owner \in Sessions
      BY <2>2, <3>1, NoLeaseFacts DEF FlowType
    <3>3. flow'[lease'.owner] = flow[lease.owner]
      BY <3>1, <3>2, <1>4
    <3> QED BY <2>2, <3>1, <3>3, <1>6 DEF Stamped, Stamp
  <2> QED BY <2>1, <2>2
<1>11. Kinded'
  BY <1>3, <1>4 DEF Kinded
<1> QED BY <1>7, <1>8, <1>9, <1>10, <1>11

\* A finished webhook review that is followed by the queued one.
LEMMA RequeueKeeps ==
  ASSUME Core, NEW s \in Holding, flow[s].kind = "webhook", NEW sha \in Shas, NEW after,
         after = Released(lease, "daemon-webhook"), Granted(after, "daemon-webhook", s),
         lease' = Acquired(after, "daemon-webhook", s, s),
         flow' = [flow EXCEPT ![s] = [kind |-> "webhook", pc |-> "prep", sha |-> sha]],
         outlived' = outlived \ {s}, robbed' = Robs(s, after)
  PROVE  Core'
<1> USE DEF Core
<1>1. after = Released(lease, HolderOf[flow[s].kind])
  BY HolderFacts
<1>2. /\ after \in {lease, NoLease}
      /\ after # NoLease => lease.holder # HolderOf[flow[s].kind] /\ lease.owner # s
      /\ \A t \in Holding \ {s} : t \notin outlived' \cup robbed' =>
           after # NoLease /\ after.owner = t
      /\ outlived' \subseteq Working \ {s} /\ robbed' \subseteq Working \ {s}
  BY <1>1, ReleaseRobs
<1>3. after = NoLease
  BY <1>2, HolderFacts DEF Granted
<1>4. s \in Sessions /\ s \in Working
  BY DEF Holding, Working
<1>5. /\ lease' \in Leases /\ lease' # NoLease /\ lease'.owner = s
      /\ lease'.holder = "daemon-webhook" /\ lease'.session = s
  BY <1>3, <1>4, AcquiredFacts, NoLeaseFacts DEF Holders
<1>6. /\ flow' \in [Sessions -> Flows]
      /\ flow'[s].kind = "webhook" /\ flow'[s].pc = "prep" /\ flow'[s].sha = sha
      /\ \A t \in Sessions : t # s => flow'[t] = flow[t]
  BY <1>4 DEF FlowType, Flows, Pcs, Kinds
<1>7. Working' = Working
  BY <1>4, <1>6 DEF Working, Busy
<1>8. s \in Holding' /\ \A t \in Holding' : t = s \/ t \in Holding
  BY <1>4, <1>6, <1>7 DEF Holding, Working
<1>9. FlowType'
  BY <1>2, <1>5, <1>6, <1>7 DEF FlowType
<1>10. Owned'
  BY <1>2, <1>3, <1>5, <1>8 DEF Owned
<1>11. NoLeakedLease'
  BY <1>5, <1>8 DEF NoLeakedLease
<1>12. Stamped'
  <2>1. Stamp(flow[lease.owner].kind, lease.owner)' = s
    BY <1>5, <1>6 DEF Stamp
  <2>2. HolderOf[flow[lease.owner].kind]' = "daemon-webhook"
    BY <1>5, <1>6, HolderFacts
  <2> QED BY <1>5, <2>1, <2>2 DEF Stamped
<1>13. Kinded'
  BY <1>4, <1>6 DEF Kinded
<1> QED BY <1>9, <1>10, <1>11, <1>12, <1>13

\* A flow without a lease comes or goes: a merge retry before its CI check, or a
\* manual reviewer that dies.
LEMMA LooksKeeps ==
  ASSUME Core, NEW s \in Sessions, flow[s].pc = "idle", lease.owner # s, NEW sha \in Shas,
         flow' = [flow EXCEPT ![s] = [kind |-> "retry", pc |-> "deciding", sha |-> sha]],
         UNCHANGED <<lease, ghosts>>
  PROVE  Core'
<1> USE DEF Core
<1>1. /\ flow' \in [Sessions -> Flows]
      /\ flow'[s].kind = "retry" /\ flow'[s].pc = "deciding"
      /\ \A t \in Sessions : t # s => flow'[t] = flow[t]
  BY DEF FlowType, Flows, Pcs, Kinds
<1>2. Working' = Working \cup {s}
  BY <1>1 DEF Working, Busy
<1>3. Holding' = Holding
  BY <1>1, <1>2 DEF Holding, Working, Busy
<1>4. FlowType'
  BY <1>1, <1>2 DEF FlowType, ghosts
<1>5. Owned' /\ NoLeakedLease'
  BY <1>3 DEF Owned, NoLeakedLease, ghosts
<1>6. Stamped'
  <2>1. lease.owner \in Holding => flow'[lease.owner] = flow[lease.owner]
    BY <1>1 DEF Holding, Working
  <2> QED BY <1>3, <2>1 DEF Stamped, Stamp
<1>7. Kinded'
  BY <1>1 DEF Kinded
<1> QED BY <1>4, <1>5, <1>6, <1>7

LEMMA DropKeeps ==
  ASSUME Core, NEW s \in Sessions, flow' = [flow EXCEPT ![s] = Idle],
         s \notin Holding \/ flow[s].kind = "tidus",
         lease' = lease, outlived' = outlived \ {s}, robbed' = robbed \ {s}
  PROVE  Core'
<1> USE DEF Core
<1>1. /\ flow' \in [Sessions -> Flows]
      /\ flow'[s].kind = "none" /\ flow'[s].pc = "idle"
      /\ \A t \in Sessions : t # s => flow'[t] = flow[t]
  BY DEF FlowType, Flows, Pcs, Idle
<1>2. Working' = Working \ {s}
  BY <1>1 DEF Working, Busy
<1>3. Holding' = Holding \ {s}
  BY <1>1, <1>2 DEF Holding, Working
<1>4. FlowType'
  BY <1>1, <1>2 DEF FlowType
<1>5. Owned'
  BY <1>3 DEF Owned
<1>6. NoLeakedLease'
  <2>1. ASSUME lease # NoLease, lease.holder # "tidus-manual" PROVE lease.owner # s
    <3>1. lease.owner \in Holding /\ lease.holder = HolderOf[flow[lease.owner].kind]
      BY <2>1 DEF NoLeakedLease, Stamped
    <3>2. flow[lease.owner].kind # "tidus"
      BY <2>1, <3>1, HolderFacts
    <3> QED BY <3>1, <3>2
  <2> QED BY <1>3, <2>1 DEF NoLeakedLease
<1>7. Stamped'
  <2>1. lease.owner \in Holding' => lease.owner \in Holding /\ flow'[lease.owner] = flow[lease.owner]
    BY <1>1, <1>3 DEF Holding, Working
  <2> QED BY <2>1 DEF Stamped, Stamp
<1>8. Kinded'
  BY <1>1 DEF Kinded
<1> QED BY <1>4, <1>5, <1>6, <1>7, <1>8

LEMMA ExpireKeeps ==
  ASSUME Core, Expire
  PROVE  Core'
<1> USE DEF Core
<1>1. lease # NoLease /\ lease' = NoLease /\ lease.owner \in Sessions
  BY NoLeaseFacts DEF Expire, FlowType
<1>2. flow' = flow /\ robbed' = robbed
  BY DEF Expire
<1>3. Working' = Working /\ Holding' = Holding
  BY <1>2 DEF Working, Busy, Holding
<1>4. FlowType'
  BY <1>1, <1>2, <1>3 DEF FlowType, Expire, Working
<1>5. Owned'
  <2>1. ASSUME NEW t \in Holding, t \notin outlived' \cup robbed PROVE FALSE
    <3>1. t \notin outlived /\ Busy(t)
      BY <2>1 DEF Expire, Holding, Working
    <3>2. lease.owner = t
      BY <2>1, <3>1 DEF Owned
    <3> QED BY <2>1, <3>1, <3>2 DEF Expire
  <2> QED BY <1>2, <1>3, <2>1 DEF Owned
<1>6. NoLeakedLease' /\ Stamped'
  BY <1>1 DEF NoLeakedLease, Stamped
<1>7. Kinded'
  BY <1>2 DEF Kinded
<1> QED BY <1>4, <1>5, <1>6, <1>7

LEMMA RestartKeeps ==
  ASSUME Core, Restart
  PROVE  Core'
<1> USE DEF Core
<1>1. /\ lease' = NoLease /\ robbed' = {} /\ outlived' = Of({"tidus"})
      /\ flow' = [s \in Sessions |-> IF flow[s].kind = "tidus" THEN flow[s] ELSE Idle]
  BY DEF Restart
<1>2. flow' \in [Sessions -> Flows]
  BY <1>1 DEF FlowType, Flows, Pcs, Idle
<1>3. \A s \in Sessions : s \in Working' <=> s \in Of({"tidus"})
  BY <1>1 DEF Working, Busy, Of, Idle, Kinded
<1>4. Working' = Of({"tidus"})
  BY <1>3 DEF Working, Of
<1>5. FlowType'
  BY <1>1, <1>2, <1>4 DEF FlowType
<1>6. Owned'
  BY <1>1, <1>4 DEF Owned, Holding
<1>7. NoLeakedLease' /\ Stamped'
  BY <1>1 DEF NoLeakedLease, Stamped
<1>8. Kinded'
  BY <1>1 DEF Kinded, Idle
<1> QED BY <1>5, <1>6, <1>7, <1>8

LEMMA IdleKeeps ==
  ASSUME Core, UNCHANGED <<lease, flow, ghosts>>
  PROVE  Core'
  BY DEF Core, FlowType, Owned, NoLeakedLease, Stamped, Kinded, Holding, Working, Busy, Stamp,
         ghosts

LEMMA StartsKeeps ==
  ASSUME Core, NEW s \in Sessions, Fresh(s), NEW k \in Kinds, k # "retry",
         k = "cron" => PollIdle, k = "tidus" => Of({"tidus"}) = {},
         NEW pc \in Pcs \ {"idle"}, NEW sha \in Shas, Starts(s, k, pc, sha)
  PROVE  Core'
<1>1. CASE Granted(lease, HolderOf[k], Stamp(k, s))
  BY <1>1, GrantedOverDead, GrantKeeps DEF Starts
<1>2. CASE ~Granted(lease, HolderOf[k], Stamp(k, s))
  BY <1>2, IdleKeeps DEF Starts
<1> QED BY <1>1, <1>2

LEMMA CleanupKeeps ==
  ASSUME Core, requeue \in [Shas -> Shas \cup {0}], NEW s \in Holding, flow[s].kind = "webhook",
         Cleanup(s)
  PROVE  Core'
<1> DEFINE sha   == flow[s].sha
           after == Released(lease, "daemon-webhook")
           again == hook[sha] # "none" /\ requeue[sha] # 0 /\ Granted(after, "daemon-webhook", s)
<1>1. CASE again
  <2>1. sha \in Shas
    BY DEF Core, Kinded, Holding, Working
  <2>2. requeue[sha] \in Shas
    BY <1>1, <2>1
  <2> QED BY <1>1, <2>2, RequeueKeeps DEF Cleanup
<1>2. CASE ~again
  BY <1>2, EndsKeeps DEF Cleanup
<1> QED BY <1>1, <1>2

\* What the steps of a flow say of it: none of them is idle, and but for the retry
\* none is without its lease.
LEMMA StepHolds ==
  ASSUME Core, NEW s \in Sessions, flow[s].pc # "idle",
         flow[s].pc # "deciding" \/ flow[s].kind # "retry"
  PROVE  s \in Holding
  BY DEF Holding, Working, Busy

LEMMA ReviewKeeps ==
  ASSUME Core, head \in Shas, requeue \in [Shas -> Shas \cup {0}], NEW s \in Sessions, Review(s)
  PROVE  Core'
<1>1. CASE Spawned(s)
  BY <1>1, GoesKeeps DEF Spawned, Pcs, Core, Kinded
<1>2. CASE SpawnFails(s)
  BY <1>2, StepHolds, EndsKeeps DEF SpawnFails
<1>3. CASE Route(s)
  BY <1>3, GoesKeeps DEF Route, Pcs, Core, Kinded
<1>4. CASE MergeLands(s)
  BY <1>4, GoesKeeps DEF MergeLands, Pcs
<1>5. CASE MergeFails(s)
  BY <1>5, GoesKeeps DEF MergeFails, Pcs
<1>6. CASE RetryMerges(s)
  <2>1. flow' = [flow EXCEPT ![s] = [kind |-> "retry", pc |-> "merging", sha |-> flow[s].sha]]
    <3> DEFINE r == flow[s]
    <3>1. r \in Flows /\ r.kind = "retry"
      BY <1>6 DEF RetryMerges, Core, FlowType
    <3>2. [r EXCEPT !.pc = "merging"] = [kind |-> "retry", pc |-> "merging", sha |-> r.sha]
      BY <3>1 DEF Flows
    <3> QED BY <1>6, <3>2 DEF RetryMerges
  <2>2. flow[s].sha \in Shas
    BY <1>6 DEF RetryMerges, Core, Kinded
  <2>3. lease' = Acquired(lease, HolderOf["retry"], Stamp("retry", s), s)
    BY <1>6, HolderFacts DEF RetryMerges, Stamp
  <2>4. lease = NoLease /\ UNCHANGED ghosts
    BY <1>6 DEF RetryMerges
  <2> QED BY <2>1, <2>2, <2>3, <2>4, GrantKeeps DEF Kinds, Pcs
<1>7. ASSUME NEW v \in {"none", "approved", "changes"}, SessionDone(s, v)
      PROVE  Core'
  BY <1>7, GoesKeeps DEF SessionDone, Pcs, Reviewers
<1>8. ASSUME NEW v \in {"none", "approved", "changes"}, TidusPosts(s, v)
      PROVE  Core'
  BY <1>8, GoesKeeps DEF TidusPosts, Pcs
<1>9. ASSUME NEW green \in BOOLEAN, Gate(s, green)
      PROVE  Core'
  BY <1>9, GoesKeeps DEF Gate, Pcs, Reviewers
<1>10. ASSUME NEW green \in BOOLEAN, RetryGivesUp(s, green)
       PROVE  Core'
  <2>1. s \notin Holding
    BY <1>10 DEF RetryGivesUp, Holding
  <2> QED BY <1>10, <2>1, DropKeeps DEF RetryGivesUp, Leaves
<1>11. CASE SessionFails(s)
  <2>1. s \in Holding
    BY <1>11, StepHolds DEF SessionFails
  <2> QED BY <1>11, <2>1, CleanupKeeps, EndsKeeps DEF SessionFails
<1>12. CASE Finish(s)
  <2>1. s \in Holding
    BY <1>12, StepHolds DEF Finish
  <2> QED BY <1>12, <2>1, CleanupKeeps, EndsKeeps DEF Finish
<1> QED
  BY <1>1, <1>2, <1>3, <1>4, <1>5, <1>6, <1>7, <1>8, <1>9, <1>10, <1>11, <1>12 DEF Review

\* The part of the type invariant about GitHub, the cron and the webhook entries.
DataType ==
  /\ head \in Shas /\ merged \in Shas \cup {0} /\ fed \in BOOLEAN
  /\ verdict \in {"none", "approved", "changes"}
  /\ processed \in {"none", "pending", "approved", "changes"}
  /\ approved \subseteq Shas /\ current \in BOOLEAN
  /\ hook \in [Shas -> {"none", "in_flight", "completed"}]
  /\ requeue \in [Shas -> Shas \cup {0}]

\* Every reviewer has a sha to approve.
LEMMA TypesAgree == Core /\ DataType => TypeOK
<1>1. Flows = [kind: {"none", "cron", "retry", "webhook", "tidus", "staging"},
               pc: {"idle", "prep", "running", "routing", "deciding", "merging", "closing"},
               sha: Shas \cup {0}]
  BY DEF Flows, Kinds, Pcs
<1> QED BY <1>1 DEF Core, FlowType, DataType, TypeOK

LEMMA CoreStep == Core /\ DataType /\ [Next]_pvars => Core'
<1> SUFFICES ASSUME Core, DataType, [Next]_pvars PROVE Core'
  OBVIOUS
<1>1. head \in Shas /\ requeue \in [Shas -> Shas \cup {0}]
  BY DEF DataType
<1>2. ASSUME NEW s \in Sessions, Review(s) PROVE Core'
  BY <1>1, <1>2, ReviewKeeps
<1>3. ASSUME NEW s \in Sessions, CronReviews(s) PROVE Core'
  <2>1. CASE CronActive \/ fed
    BY <1>3, <2>1, IdleKeeps DEF CronReviews
  <2>2. CASE ~(CronActive \/ fed)
    BY <1>1, <1>3, <2>2, StartsKeeps DEF CronReviews, Kinds, Pcs
  <2> QED BY <2>1, <2>2
<1>4. ASSUME NEW s \in Sessions, RetryLooks(s) PROVE Core'
  BY <1>1, <1>4, LooksKeeps DEF RetryLooks, Fresh, Busy
<1>5. ASSUME NEW s \in Sessions, TidusReviews(s) PROVE Core'
  BY <1>1, <1>5, StartsKeeps DEF TidusReviews, Kinds, Pcs
<1>6. ASSUME NEW s \in Sessions, TidusDies(s) PROVE Core'
  BY <1>6, DropKeeps DEF TidusDies, Leaves
<1>7. ASSUME NEW s \in Sessions, StagingStarts(s) PROVE Core'
  BY <1>1, <1>7, StartsKeeps DEF StagingStarts, Kinds, Pcs
<1>8. ASSUME NEW s \in Sessions, NEW sha \in Shas, HookEvent(sha, s) PROVE Core'
  <2>1. CASE UNCHANGED <<lease, flow, ghosts>>
    BY <2>1, IdleKeeps
  <2>2. CASE SpawnReview(s, sha)
    <3>1. SpawnReview(s, sha) => Starts(s, "webhook", "prep", sha)
      BY HolderFacts DEF SpawnReview, Starts, Stamp
    <3> QED BY <1>8, <2>2, <3>1, StartsKeeps DEF HookEvent, Kinds, Pcs
  <2> QED BY <1>8, <2>1, <2>2 DEF HookEvent
<1>9. ASSUME NEW sha \in Shas, HookForgotten(sha) PROVE Core'
  BY <1>9, IdleKeeps DEF HookForgotten
<1>10. CASE Expire
  BY <1>10, ExpireKeeps
<1>11. CASE Push
  BY <1>11, IdleKeeps DEF Push
<1>12. CASE Comment
  BY <1>12, IdleKeeps DEF Comment
<1>13. CASE Restart
  BY <1>13, RestartKeeps
<1>14. CASE UNCHANGED pvars
  BY <1>14, IdleKeeps DEF pvars
<1> QED
  BY <1>2, <1>3, <1>4, <1>5, <1>6, <1>7, <1>8, <1>9, <1>10, <1>11, <1>12, <1>13, <1>14 DEF Next

--------------------------------------------------------------------------------
(* The data of the pull request.                                                  *)

\* A webhook flow at work on a sha.
WorksOn(s, h) == flow[s].pc # "idle" /\ flow[s].kind = "webhook" /\ flow[s].sha = h

LEMMA ReviewedForm ==
  InFlightIsReviewed <=> \A h \in Shas : hook[h] = "in_flight" => \E s \in Sessions : WorksOn(s, h)
  BY DEF InFlightIsReviewed, InFlight, Of, Working, Busy, WorksOn

LEMMA CleanupData ==
  ASSUME FlowType, DataType, NEW s \in Sessions, flow[s].sha \in Shas, Cleanup(s)
  PROVE  /\ hook' \in [Shas -> {"none", "in_flight", "completed"}]
         /\ requeue' \in [Shas -> Shas \cup {0}]
         /\ \A h \in Shas : hook'[h] = "in_flight" =>
              (hook[h] = "in_flight" /\ h # flow[s].sha) \/ WorksOn(s, h)'
         /\ \A t \in Sessions : t # s => flow'[t] = flow[t]
<1> DEFINE sha   == flow[s].sha
           after == Released(lease, "daemon-webhook")
           again == hook[sha] # "none" /\ requeue[sha] # 0 /\ Granted(after, "daemon-webhook", s)
           done  == [hook EXCEPT ![sha] = IF @ = "none" THEN @ ELSE "completed"]
<1>1. /\ done \in [Shas -> {"none", "in_flight", "completed"}]
      /\ \A h \in Shas : done[h] = "in_flight" => hook[h] = "in_flight" /\ h # sha
  BY DEF DataType
<1> HIDE DEF done
<1>2. CASE again
  <2> DEFINE next == requeue[sha]
             rec  == [kind |-> "webhook", pc |-> "prep", sha |-> next]
  <2>1. /\ hook' = [done EXCEPT ![next] = "in_flight"]
        /\ requeue' = [requeue EXCEPT ![next] = 0]
        /\ flow' = [flow EXCEPT ![s] = rec]
    BY <1>2 DEF Cleanup, done
  <2>2. next \in Shas
    BY <1>2 DEF DataType
  <2>3. flow'[s] = rec /\ \A t \in Sessions : t # s => flow'[t] = flow[t]
    BY <2>1 DEF FlowType
  <2>4. \A h \in Shas : h = next => WorksOn(s, h)'
    BY <2>3 DEF WorksOn
  <2>5. \A h \in Shas : hook'[h] = "in_flight" => done[h] = "in_flight" \/ h = next
    BY <1>1, <2>1, <2>2
  <2> HIDE DEF next, rec
  <2>6. \A h \in Shas : hook'[h] = "in_flight" =>
          (hook[h] = "in_flight" /\ h # flow[s].sha) \/ WorksOn(s, h)'
    BY <1>1, <2>4, <2>5
  <2> QED BY <1>1, <2>1, <2>2, <2>3, <2>6 DEF DataType
<1>3. CASE ~again
  <2>1. hook' = done /\ requeue' = requeue /\ flow' = [flow EXCEPT ![s] = Idle]
    BY <1>3 DEF Cleanup, done, Ends
  <2> QED BY <1>1, <2>1 DEF DataType, FlowType
<1> QED BY <1>2, <1>3

\* The entries after any step of a flow, and who works on them.
LEMMA ReviewData ==
  ASSUME Core, DataType, InFlightIsReviewed, NEW s \in Sessions, Review(s)
  PROVE  /\ hook' \in [Shas -> {"none", "in_flight", "completed"}]
         /\ requeue' \in [Shas -> Shas \cup {0}]
         /\ InFlightIsReviewed'
<1> DEFINE Goal == /\ hook' \in [Shas -> {"none", "in_flight", "completed"}]
                   /\ requeue' \in [Shas -> Shas \cup {0}]
                   /\ InFlightIsReviewed'
<1>1. \A h \in Shas : hook[h] = "in_flight" => \E t \in Sessions : WorksOn(t, h)
  BY ReviewedForm
<1>2. ASSUME NEW pc \in Pcs \ {"idle"}, Goes(s, pc), UNCHANGED hooks, flow[s].pc # "idle"
      PROVE  Goal
  <2>1. \A t \in Sessions : flow'[t].kind = flow[t].kind /\ flow'[t].sha = flow[t].sha
                              /\ (flow[t].pc # "idle" => flow'[t].pc # "idle")
    BY <1>2 DEF Goes, Core, FlowType, Flows
  <2>2. \A t \in Sessions, h \in Shas : WorksOn(t, h) => WorksOn(t, h)'
    BY <2>1 DEF WorksOn
  <2>3. hook' = hook /\ requeue' = requeue
    BY <1>2 DEF hooks
  <2>4. \A h \in Shas : hook'[h] = "in_flight" => \E t \in Sessions : WorksOn(t, h)'
    BY <1>1, <2>2, <2>3
  <2> QED BY <2>3, <2>4 DEF DataType, InFlightIsReviewed, InFlight, Of, Working, Busy, WorksOn
<1>3. ASSUME flow' = [flow EXCEPT ![s] = Idle], flow[s].kind # "webhook", UNCHANGED hooks
      PROVE  Goal
  <2>1. \A t \in Sessions : t # s => flow'[t] = flow[t]
    BY <1>3 DEF Core, FlowType
  <2>2. \A t \in Sessions, h \in Shas : WorksOn(t, h) => WorksOn(t, h)'
    BY <1>3, <2>1 DEF WorksOn
  <2>3. hook' = hook /\ requeue' = requeue
    BY <1>3 DEF hooks
  <2>4. \A h \in Shas : hook'[h] = "in_flight" => \E t \in Sessions : WorksOn(t, h)'
    BY <1>1, <2>2, <2>3
  <2> QED BY <2>3, <2>4 DEF DataType, InFlightIsReviewed, InFlight, Of, Working, Busy, WorksOn
<1>4. ASSUME flow[s].kind = "webhook", flow[s].pc # "idle", Cleanup(s)
      PROVE  Goal
  <2>1. flow[s].sha \in Shas
    BY <1>4 DEF Core, Kinded
  <2>2. \A h \in Shas : hook'[h] = "in_flight" =>
          (hook[h] = "in_flight" /\ h # flow[s].sha) \/ WorksOn(s, h)'
    BY <1>4, <2>1, CleanupData DEF Core
  <2>3. \A t \in Sessions : t # s => flow'[t] = flow[t]
    BY <1>4, <2>1, CleanupData DEF Core
  <2>4. \A t \in Sessions, h \in Shas \ {flow[s].sha} : WorksOn(t, h) => WorksOn(t, h)'
    BY <2>3 DEF WorksOn
  <2>5. \A h \in Shas : hook'[h] = "in_flight" => \E t \in Sessions : WorksOn(t, h)'
    BY <1>1, <2>2, <2>4
  <2>6. InFlightIsReviewed'
    BY <2>5 DEF InFlightIsReviewed, InFlight, Of, Working, Busy, WorksOn
  <2> QED BY <1>4, <2>1, <2>6, CleanupData DEF Core
<1>5. CASE SpawnFails(s)
  <2>1. flow' = [flow EXCEPT ![s] = Idle]
    BY <1>5 DEF SpawnFails, Ends
  <2>2. CASE flow[s].kind = "webhook"
    <3>1. /\ hook' = [hook EXCEPT ![flow[s].sha] = "none"]
          /\ requeue' = [requeue EXCEPT ![flow[s].sha] = 0]
      BY <1>5, <2>2 DEF SpawnFails
    <3>2. \A t \in Sessions : t # s => flow'[t] = flow[t]
      BY <2>1 DEF Core, FlowType
    <3>3. \A t \in Sessions, h \in Shas \ {flow[s].sha} : WorksOn(t, h) => WorksOn(t, h)'
      BY <3>2 DEF WorksOn
    <3>4. \A h \in Shas : hook'[h] = "in_flight" => hook[h] = "in_flight" /\ h # flow[s].sha
      BY <3>1 DEF DataType
    <3>5. \A h \in Shas : hook'[h] = "in_flight" => \E t \in Sessions : WorksOn(t, h)'
      BY <1>1, <3>3, <3>4
    <3> QED BY <3>1, <3>5 DEF DataType, InFlightIsReviewed, InFlight, Of, Working, Busy, WorksOn
  <2>3. CASE flow[s].kind # "webhook"
    BY <1>3, <1>5, <2>1, <2>3 DEF SpawnFails
  <2> QED BY <2>2, <2>3
<1>6. CASE RetryMerges(s)
  <2>1. hook' = hook /\ requeue' = requeue /\ flow[s].kind = "retry"
    BY <1>6 DEF RetryMerges, hooks
  <2>2. \A t \in Sessions : t # s => flow'[t] = flow[t]
    BY <1>6 DEF RetryMerges, Core, FlowType
  <2>3. \A t \in Sessions, h \in Shas : WorksOn(t, h) => WorksOn(t, h)'
    BY <2>1, <2>2 DEF WorksOn
  <2>4. \A h \in Shas : hook'[h] = "in_flight" => \E t \in Sessions : WorksOn(t, h)'
    BY <1>1, <2>1, <2>3
  <2> QED BY <2>1, <2>4 DEF DataType, InFlightIsReviewed, InFlight, Of, Working, Busy, WorksOn
<1>7. CASE SessionFails(s)
  BY <1>3, <1>4, <1>7 DEF SessionFails, Ends
<1>8. CASE Finish(s)
  BY <1>3, <1>4, <1>8 DEF Finish, Ends
<1>9. CASE Spawned(s)
  BY <1>2, <1>9 DEF Spawned, Pcs
<1>10. CASE Route(s)
  BY <1>2, <1>10 DEF Route, Pcs
<1>11. CASE MergeLands(s) \/ MergeFails(s)
  BY <1>2, <1>11 DEF MergeLands, MergeFails, Pcs
<1>12. ASSUME NEW v \in {"none", "approved", "changes"}, SessionDone(s, v) \/ TidusPosts(s, v)
       PROVE  Goal
  BY <1>2, <1>12 DEF SessionDone, TidusPosts, Pcs
<1>13. ASSUME NEW green \in BOOLEAN, Gate(s, green)
       PROVE  Goal
  BY <1>2, <1>13 DEF Gate, Pcs
<1>14. ASSUME NEW green \in BOOLEAN, RetryGivesUp(s, green)
       PROVE  Goal
  BY <1>3, <1>14 DEF RetryGivesUp, Leaves
<1> QED
  BY <1>5, <1>6, <1>7, <1>8, <1>9, <1>10, <1>11, <1>12, <1>13, <1>14 DEF Review

LEMMA DataStep ==
  Core /\ DataType /\ InFlightIsReviewed /\ [Next]_pvars => DataType' /\ InFlightIsReviewed'
<1> SUFFICES ASSUME Core, DataType, InFlightIsReviewed, [Next]_pvars
             PROVE  DataType' /\ InFlightIsReviewed'
  OBVIOUS
<1>1. \A h \in Shas : hook[h] = "in_flight" => \E t \in Sessions : WorksOn(t, h)
  BY ReviewedForm
\* A step that leaves the flows and adds no entry.
<1>2. ASSUME flow' = flow, \A h \in Shas : hook'[h] = "in_flight" => hook[h] = "in_flight"
      PROVE  InFlightIsReviewed'
  <2>1. \A t \in Sessions, h \in Shas : WorksOn(t, h) => WorksOn(t, h)'
    BY <1>2 DEF WorksOn
  <2>2. \A h \in Shas : hook'[h] = "in_flight" => \E t \in Sessions : WorksOn(t, h)'
    BY <1>1, <1>2, <2>1
  <2> QED BY <2>2 DEF InFlightIsReviewed, InFlight, Of, Working, Busy, WorksOn
\* A step that starts a flow under a free name and leaves the entries.
<1>3. ASSUME NEW s \in Sessions, flow[s].pc = "idle", NEW f, flow' = [flow EXCEPT ![s] = f],
             UNCHANGED hooks
      PROVE  InFlightIsReviewed'
  <2>1. \A t \in Sessions : t # s => flow'[t] = flow[t]
    BY <1>3 DEF Core, FlowType
  <2>2. \A t \in Sessions, h \in Shas : WorksOn(t, h) => WorksOn(t, h)'
    BY <1>3, <2>1 DEF WorksOn
  <2>3. \A h \in Shas : hook'[h] = "in_flight" => \E t \in Sessions : WorksOn(t, h)'
    BY <1>1, <1>3, <2>2 DEF hooks
  <2> QED BY <2>3 DEF InFlightIsReviewed, InFlight, Of, Working, Busy, WorksOn
<1>4. ASSUME NEW s \in Sessions, NEW k, NEW pc, NEW sha, Fresh(s), Starts(s, k, pc, sha),
             UNCHANGED hooks
      PROVE  InFlightIsReviewed'
  <2>1. flow[s].pc = "idle"
    BY <1>4 DEF Fresh, Busy
  <2>2. CASE Granted(lease, HolderOf[k], Stamp(k, s))
    BY <1>3, <1>4, <2>1, <2>2 DEF Starts
  <2>3. CASE ~Granted(lease, HolderOf[k], Stamp(k, s))
    BY <1>2, <1>4, <2>3 DEF Starts, hooks
  <2> QED BY <2>2, <2>3
<1>5. ASSUME NEW s \in Sessions, Review(s) PROVE DataType' /\ InFlightIsReviewed'
  <2>1. flow[s].sha \in Shas \cup {0}
    BY DEF Core, FlowType, Flows
  <2>2. head \in Shas /\ merged \in Shas \cup {0}
    BY DEF DataType
  <2>3. /\ hook' \in [Shas -> {"none", "in_flight", "completed"}]
        /\ requeue' \in [Shas -> Shas \cup {0}] /\ InFlightIsReviewed'
    BY <1>5, ReviewData
  <2>4. /\ head' \in Shas /\ merged' \in Shas \cup {0} /\ fed' \in BOOLEAN
        /\ verdict' \in {"none", "approved", "changes"}
        /\ processed' \in {"none", "pending", "approved", "changes"}
        /\ approved' \subseteq Shas /\ current' \in BOOLEAN
    <3> DEFINE Goal == /\ head' \in Shas /\ merged' \in Shas \cup {0} /\ fed' \in BOOLEAN
                       /\ verdict' \in {"none", "approved", "changes"}
                       /\ processed' \in {"none", "pending", "approved", "changes"}
                       /\ approved' \subseteq Shas /\ current' \in BOOLEAN
    <3>1. ASSUME UNCHANGED <<github, cron>> PROVE Goal
      BY <3>1 DEF DataType, github, cron
    <3>2. CASE Spawned(s) \/ SpawnFails(s) \/ MergeFails(s) \/ RetryMerges(s) \/ SessionFails(s)
                 \/ Finish(s)
      BY <3>1, <3>2 DEF Spawned, SpawnFails, MergeFails, RetryMerges, SessionFails, Finish
    <3>3. CASE Route(s)
      BY <3>3 DEF Route, DataType, github, cron
    <3>4. CASE MergeLands(s)
      BY <3>4 DEF MergeLands, DataType, cron
    <3>5. ASSUME NEW v \in {"none", "approved", "changes"}, SessionDone(s, v) \/ TidusPosts(s, v)
          PROVE  Goal
      <4>1. flow[s].sha \in Shas
        BY <3>5 DEF SessionDone, TidusPosts, Core, Kinded, Reviewers
      <4>2. Posts(flow[s].sha, v) /\ UNCHANGED <<head, merged, processed>>
        BY <3>5 DEF SessionDone, TidusPosts
      <4> QED BY <4>1, <4>2 DEF Posts, DataType
    <3>6. ASSUME NEW green \in BOOLEAN, Gate(s, green) PROVE Goal
      BY <3>1, <3>6 DEF Gate
    <3>7. ASSUME NEW green \in BOOLEAN, RetryGivesUp(s, green) PROVE Goal
      BY <3>7 DEF RetryGivesUp, DataType, github, cron
    <3> QED BY <1>5, <3>2, <3>3, <3>4, <3>5, <3>6, <3>7 DEF Review
  <2> QED BY <2>3, <2>4 DEF DataType
<1>6. ASSUME NEW s \in Sessions, CronReviews(s) PROVE DataType' /\ InFlightIsReviewed'
  <2>1. DataType' /\ UNCHANGED hooks
    BY <1>6 DEF CronReviews, DataType, github, hooks
  <2>2. CASE CronActive \/ fed
    BY <1>2, <1>6, <2>1, <2>2 DEF CronReviews, hooks
  <2>3. CASE ~(CronActive \/ fed)
    BY <1>4, <1>6, <2>1, <2>3 DEF CronReviews
  <2> QED BY <2>1, <2>2, <2>3
<1>7. ASSUME NEW s \in Sessions, RetryLooks(s) PROVE DataType' /\ InFlightIsReviewed'
  <2>1. DataType'
    BY <1>7 DEF RetryLooks, DataType, github, cron, hooks
  <2>2. flow[s].pc = "idle"
    BY <1>7 DEF RetryLooks, Fresh, Busy
  <2> QED BY <1>3, <1>7, <2>1, <2>2 DEF RetryLooks
<1>8. ASSUME NEW s \in Sessions, TidusReviews(s) \/ StagingStarts(s)
      PROVE  DataType' /\ InFlightIsReviewed'
  <2>1. DataType'
    BY <1>8 DEF TidusReviews, StagingStarts, DataType, github, cron, hooks
  <2> QED BY <1>4, <1>8, <2>1 DEF TidusReviews, StagingStarts
<1>9. ASSUME NEW s \in Sessions, TidusDies(s) PROVE DataType' /\ InFlightIsReviewed'
  <2>1. DataType'
    BY <1>9 DEF TidusDies, DataType, github, cron, hooks
  <2>2. \A t \in Sessions : t # s => flow'[t] = flow[t]
    BY <1>9 DEF TidusDies, Leaves, Core, FlowType
  <2>3. \A t \in Sessions, h \in Shas : WorksOn(t, h) => WorksOn(t, h)'
    BY <1>9, <2>2 DEF TidusDies, WorksOn
  <2>4. \A h \in Shas : hook'[h] = "in_flight" => \E t \in Sessions : WorksOn(t, h)'
    BY <1>1, <1>9, <2>3 DEF TidusDies, hooks
  <2> QED BY <2>1, <2>4 DEF InFlightIsReviewed, InFlight, Of, Working, Busy, WorksOn
<1>10. ASSUME NEW s \in Sessions, NEW sha \in Shas, HookEvent(sha, s)
       PROVE  DataType' /\ InFlightIsReviewed'
  <2>1. UNCHANGED <<github, cron>>
    BY <1>10 DEF HookEvent
  <2>2. CASE UNCHANGED <<lease, flow, hooks, ghosts>>
    BY <1>2, <2>1, <2>2 DEF DataType, github, cron, hooks
  <2>3. CASE /\ \E h \in InFlight : requeue' = [requeue EXCEPT ![h] = sha]
             /\ UNCHANGED <<lease, flow, hook, ghosts>>
    BY <1>2, <2>1, <2>3 DEF DataType, github, cron, InFlight
  <2>4. CASE InFlight = {} /\ SpawnReview(s, sha)
    <3>1. CASE Granted(lease, "daemon-webhook", s)
      <4>1. /\ flow' = [flow EXCEPT ![s] = [kind |-> "webhook", pc |-> "prep", sha |-> sha]]
            /\ hook' = [hook EXCEPT ![sha] = "in_flight"] /\ requeue' = [requeue EXCEPT ![sha] = 0]
        BY <2>4, <3>1 DEF SpawnReview
      <4>2. WorksOn(s, sha)'
        BY <4>1 DEF WorksOn, Core, FlowType
      <4>3. \A h \in Shas : hook'[h] = "in_flight" => h = sha
        BY <2>4, <4>1 DEF DataType, InFlight
      <4> QED BY <2>1, <4>1, <4>2, <4>3
              DEF DataType, github, cron, InFlightIsReviewed, InFlight, Of, Working, Busy, WorksOn
    <3>2. CASE ~Granted(lease, "daemon-webhook", s)
      BY <1>2, <2>1, <2>4, <3>2 DEF SpawnReview, DataType, github, cron, hooks
    <3> QED BY <3>1, <3>2
  <2> QED BY <1>10, <2>2, <2>3, <2>4 DEF HookEvent
<1>11. ASSUME NEW sha \in Shas, HookForgotten(sha) PROVE DataType' /\ InFlightIsReviewed'
  <2>1. \A h \in Shas : hook'[h] = "in_flight" => hook[h] = "in_flight"
    BY <1>11 DEF HookForgotten, DataType
  <2>2. DataType'
    BY <1>11 DEF HookForgotten, DataType, github, cron
  <2> QED BY <1>2, <1>11, <2>1, <2>2 DEF HookForgotten
<1>12. CASE Expire
  BY <1>2, <1>12 DEF Expire, DataType, github, cron, hooks
<1>13. CASE Push
  <2>1. head + 1 \in Shas
    BY <1>13, ShaAssumption DEF Push, DataType, Shas
  <2> QED BY <1>2, <1>13, <2>1 DEF Push, DataType, hooks
<1>14. CASE Comment
  BY <1>2, <1>14 DEF Comment, DataType, github, hooks
<1>15. CASE Restart
  <2>1. DataType'
    BY <1>15 DEF Restart, DataType, github, cron
  <2>2. \A h \in Shas : hook'[h] # "in_flight"
    BY <1>15 DEF Restart
  <2> QED BY <2>1, <2>2 DEF InFlightIsReviewed, InFlight
<1>16. CASE UNCHANGED pvars
  BY <1>2, <1>16 DEF pvars, DataType, github, cron, hooks
<1> QED
  BY <1>5, <1>6, <1>7, <1>8, <1>9, <1>10, <1>11, <1>12, <1>13, <1>14, <1>15, <1>16 DEF Next

--------------------------------------------------------------------------------
(* The theorems.                                                                  *)

IInv == Core /\ DataType /\ InFlightIsReviewed

LEMMA InitIInv == Init => IInv
<1> SUFFICES ASSUME Init PROVE IInv
  OBVIOUS
<1>1. 1 \in Shas
  BY ShaAssumption DEF Shas
<1>2. flow \in [Sessions -> Flows] /\ Working = {} /\ lease = NoLease
  BY DEF Init, Flows, Pcs, Idle, Working, Busy
<1>3. Core
  BY <1>2 DEF Init, Core, FlowType, Owned, NoLeakedLease, Stamped, Kinded, Holding, Idle
<1>4. DataType /\ InFlightIsReviewed
  BY <1>1 DEF Init, DataType, InFlightIsReviewed, InFlight
<1> QED BY <1>3, <1>4 DEF IInv

THEOREM Invariance == Spec => []IInv
<1>1. IInv /\ [Next]_pvars => IInv'
  BY CoreStep, DataStep DEF IInv
<1> QED BY <1>1, InitIInv, PTL DEF Spec

\* The variables keep their types, for any number of sessions and pushes.
THEOREM TypeCorrect == Spec => []TypeOK
<1>1. IInv => TypeOK
  BY TypesAgree DEF IInv
<1> QED BY <1>1, Invariance, PTL

\* Mutual exclusion: two reviews, merges or promotions of a PR are at work at once
\* only after a lease expired under its owner or another flow released it.
THEOREM Exclusion == Spec => []OneAtWork
<1>1. IInv => OneAtWork
  BY DEF IInv, Core, Owned, OneAtWork
<1> QED BY <1>1, Invariance, PTL

\* Whatever way a review or merge ends, it leaves no lease behind.
THEOREM NoLeak == Spec => []NoLeakedLease
<1>1. IInv => NoLeakedLease
  BY DEF IInv, Core
<1> QED BY <1>1, Invariance, PTL

\* An in-flight webhook entry always has a reviewer at work on its sha.
THEOREM EntriesReviewed == Spec => []InFlightIsReviewed
<1>1. IInv => InFlightIsReviewed
  BY DEF IInv
<1> QED BY <1>1, Invariance, PTL
================================================================================
