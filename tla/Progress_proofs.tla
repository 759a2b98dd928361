----------------------------- MODULE Progress_proofs -----------------------------
(* Proofs about three of the components that MCProgress runs next to each other: the *)
(* task queue, which MCProgress extends, the tool calls of BrokerOutbound, and the   *)
(* lease of WorktreeLease.                                                           *)
EXTENDS MCProgress, FiniteSetTheorems, SequenceTheorems, TLAPS

--------------------------------------------------------------------------------
(* The tasks: TaskQueue, for any number of slots, tasks and other sessions.          *)
(* Every handler ends in ProcessNext on the statuses st and the queue q it has made: *)
(* the lemmas say what ProcessNext makes of them, and the proof of an action shows   *)
(* that its st and q are in order.                                                   *)

ActiveOf(st) == {t \in Tasks : st[t] \in {"spawning", "running"}}

\* Task t goes before task u.
Before(rk, t, u) == rk[t] < rk[u] \/ (rk[t] = rk[u] /\ t < u)

Sorted(rk, q) == \A i, j \in 1..Len(q) : i < j => Before(rk, q[i], q[j])

\* A task runs with a process, settles with or before the end of its process, and has
\* none before; pr is the processes.
Matched(st, pr) ==
  \A t \in Tasks :
    /\ pr[t] \in {"alive", "broken"} <=> st[t] = "running"
    /\ pr[t] \in {"erred", "gone"} => st[t] \in {"completed", "failed"}

Unborn(st, n) == \A t \in Tasks : t >= n => st[t] = "new"

IInv ==
  /\ Typed /\ Capacity /\ WorkConserving /\ Lists(status, pending) /\ Sorted(rank, pending)
  /\ Matched(status, proc) /\ Unborn(status, next)

--------------------------------------------------------------------------------
(* Sequences.                                                                     *)

LEMMA TasksAreNat == Tasks \subseteq Nat /\ IsFiniteSet(Tasks) /\ MaxTasks \in Nat
<1>1. MaxTasks \in Nat  BY QueueAssumption
<1>2. IsFiniteSet(1..MaxTasks)  BY <1>1, FS_Interval
<1> QED  BY <1>1, <1>2 DEF Tasks

Insert(q, n, i) == SubSeq(q, 1, i - 1) \o <<n>> \o SubSeq(q, i, Len(q))
Delete(q, i) == SubSeq(q, 1, i - 1) \o SubSeq(q, i + 1, Len(q))

LEMMA Inserted ==
  ASSUME NEW q \in Seq(Tasks), NEW n \in Tasks, NEW i \in 1..Len(q) + 1
  PROVE  /\ Insert(q, n, i) \in Seq(Tasks) /\ Len(Insert(q, n, i)) = Len(q) + 1
         /\ \A j \in 1..Len(q) + 1 :
              Insert(q, n, i)[j] = IF j < i THEN q[j] ELSE IF j = i THEN n ELSE q[j - 1]
<1>1. Len(q) \in Nat /\ i \in Nat /\ i >= 1 /\ i <= Len(q) + 1 /\ \A j \in 1..Len(q) : q[j] \in Tasks
  BY LenProperties, ElementOfSeq
<1>2. PICK a : a = SubSeq(q, 1, i - 1)  OBVIOUS
<1>3. PICK c : c = SubSeq(q, i, Len(q))  OBVIOUS
<1>4. PICK b : b = a \o <<n>>  OBVIOUS
<1>5. PICK p : p = Insert(q, n, i)  OBVIOUS
<1>6. p = b \o c  BY <1>2, <1>3, <1>4, <1>5 DEF Insert
<1>7. a \in Seq(Tasks) /\ Len(a) = i - 1 /\ \A j \in 1..i - 1 : a[j] = q[j]
  BY <1>1, <1>2, SubSeqProperties, SMTT(30)
<1>8. c \in Seq(Tasks) /\ Len(c) = Len(q) - i + 1 /\ \A j \in 1..Len(q) - i + 1 : c[j] = q[i + j - 1]
  BY <1>1, <1>3, SubSeqProperties, SMTT(30)
<1>9. b \in Seq(Tasks) /\ Len(b) = i /\ \A j \in 1..i : b[j] = IF j < i THEN q[j] ELSE n
  <2>1. <<n>> \in Seq(Tasks) /\ Len(<<n>>) = 1 /\ <<n>>[1] = n  OBVIOUS
  <2>2. b \in Seq(Tasks) /\ Len(b) = Len(a) + 1
        /\ \A j \in 1..Len(a) + 1 : b[j] = IF j <= Len(a) THEN a[j] ELSE <<n>>[j - Len(a)]
    BY <2>1, <1>4, <1>7, ConcatProperties
  <2> QED  BY <2>1, <2>2, <1>1, <1>7
<1>10. p \in Seq(Tasks) /\ Len(p) = Len(b) + Len(c)
      /\ \A j \in 1..Len(b) + Len(c) : p[j] = IF j <= Len(b) THEN b[j] ELSE c[j - Len(b)]
  BY <1>6, <1>8, <1>9, ConcatProperties
<1>11. Len(p) = Len(q) + 1  BY <1>1, <1>8, <1>9, <1>10
<1>12. ASSUME NEW j \in 1..Len(q) + 1
       PROVE  p[j] = IF j < i THEN q[j] ELSE IF j = i THEN n ELSE q[j - 1]
  <2>1. j \in 1..Len(b) + Len(c) /\ j \in Nat /\ j >= 1 /\ j <= Len(q) + 1
    BY <1>1, <1>8, <1>9
  <2>2. CASE j <= i  BY <2>1, <2>2, <1>1, <1>9, <1>10
  <2>3. CASE j > i
    <3>1. p[j] = c[j - i]  BY <2>1, <2>3, <1>1, <1>9, <1>10
    <3>2. j - i \in 1..Len(q) - i + 1 /\ i + (j - i) - 1 = j - 1  BY <2>1, <2>3, <1>1
    <3>3. c[j - i] = q[i + (j - i) - 1]  BY <3>2, <1>8
    <3> QED  BY <3>1, <3>2, <3>3, <2>1, <2>3, <1>1
  <2> QED  BY <2>1, <2>2, <2>3, <1>1
<1> QED  BY <1>5, <1>10, <1>11, <1>12

LEMMA Removed ==
  ASSUME NEW q \in Seq(Tasks), NEW i \in 1..Len(q)
  PROVE  /\ Delete(q, i) \in Seq(Tasks) /\ Len(Delete(q, i)) = Len(q) - 1
         /\ \A j \in 1..Len(q) - 1 : Delete(q, i)[j] = IF j < i THEN q[j] ELSE q[j + 1]
<1>1. Len(q) \in Nat /\ i \in Nat /\ i >= 1 /\ i <= Len(q) /\ \A j \in 1..Len(q) : q[j] \in Tasks
  BY LenProperties, ElementOfSeq
<1>2. PICK a : a = SubSeq(q, 1, i - 1)  OBVIOUS
<1>3. PICK c : c = SubSeq(q, i + 1, Len(q))  OBVIOUS
<1>4. a \in Seq(Tasks) /\ Len(a) = i - 1 /\ \A j \in 1..i - 1 : a[j] = q[j]
  BY <1>1, <1>2, SubSeqProperties, SMTT(30)
<1>5. c \in Seq(Tasks) /\ Len(c) = Len(q) - i /\ \A j \in 1..Len(q) - i : c[j] = q[i + j]
  BY <1>1, <1>3, SubSeqProperties, SMTT(30)
<1>6. PICK p : p = Delete(q, i)  OBVIOUS
<1>7. p = a \o c  BY <1>2, <1>3, <1>6 DEF Delete
<1>8. p \in Seq(Tasks) /\ Len(p) = Len(a) + Len(c)
      /\ \A j \in 1..Len(a) + Len(c) : p[j] = IF j <= Len(a) THEN a[j] ELSE c[j - Len(a)]
  BY <1>4, <1>5, <1>7, ConcatProperties
<1>9. Len(p) = Len(q) - 1  BY <1>1, <1>4, <1>5, <1>8
<1>10. ASSUME NEW j \in 1..Len(q) - 1
      PROVE  p[j] = IF j < i THEN q[j] ELSE q[j + 1]
  <2>1. j \in 1..Len(a) + Len(c) /\ j \in Nat /\ j >= 1 /\ j <= Len(q) - 1  BY <1>1, <1>4, <1>5
  <2>2. CASE j < i  BY <2>1, <2>2, <1>1, <1>4, <1>8
  <2>3. CASE j >= i
    <3>1. p[j] = c[j - (i - 1)]  BY <2>1, <2>3, <1>1, <1>4, <1>8
    <3>2. j - (i - 1) \in 1..Len(q) - i /\ i + (j - (i - 1)) = j + 1  BY <2>1, <2>3, <1>1
    <3>3. c[j - (i - 1)] = q[i + (j - (i - 1))]  BY <3>2, <1>5
    <3> QED  BY <3>1, <3>2, <3>3, <2>1, <2>3, <1>1
  <2> QED  BY <2>1, <2>2, <2>3, <1>1
<1> QED  BY <1>8, <1>9, <1>10, <1>6

LEMMA Popped ==
  ASSUME NEW q \in Seq(Tasks), q # <<>>
  PROVE  /\ Head(q) = q[1] /\ q[1] \in Tasks /\ Len(q) \in Nat /\ Len(q) >= 1
         /\ Tail(q) \in Seq(Tasks) /\ Len(Tail(q)) = Len(q) - 1
         /\ \A i \in 1..Len(q) - 1 : Tail(q)[i] = q[i + 1]
<1>1. Len(q) \in Nat /\ Len(q) # 0  BY LenProperties, EmptySeq
<1>2. q[1] \in Tasks  BY <1>1, ElementOfSeq
<1> QED  BY <1>1, <1>2, HeadTailProperties

--------------------------------------------------------------------------------
(* ProcessNext.                                                                   *)

\* What a handler must hand to ProcessNext.
Ready(st, q) ==
  /\ st \in [Tasks -> Statuses] /\ q \in Seq(Tasks) /\ Lists(st, q)
  /\ Cardinality(ActiveOf(st)) <= MaxActive

LEMMA NextTypes ==
  ASSUME NEW st, NEW q, Ready(st, q), ProcessNext(st, q)
  PROVE  /\ status' \in [Tasks -> Statuses] /\ pending' \in Seq(Tasks) /\ Len(pending') <= Len(q)
         /\ Lists(status', pending')
<1> USE DEF Ready
<1>1. CASE status' = st /\ pending' = q
  BY <1>1, LenProperties
<1>2. CASE q # <<>> /\ status' = [st EXCEPT ![Head(q)] = "spawning"] /\ pending' = Tail(q)
  <2>1. Len(pending') = Len(q) - 1 /\ \A i \in 1..Len(q) - 1 : pending'[i] = q[i + 1]
    BY <1>2, Popped
  <2>2. \A t \in Tasks : status'[t] = IF t = q[1] THEN "spawning" ELSE st[t]
    BY <1>2, Popped
  <2>3. Lists(status', pending')
    <3>1. \A i \in 1..Len(q) : q[i] \in Tasks  BY ElementOfSeq
    <3>2. Len(q) \in Nat /\ Len(q) >= 1  BY <1>2, Popped
    <3>3. \A i \in 1..Len(pending') : status'[pending'[i]] = "queued"
      BY <2>1, <2>2, <3>1, <3>2 DEF Lists
    <3>4. ASSUME NEW t \in Tasks, status'[t] = "queued"
          PROVE  \E i \in 1..Len(pending') : pending'[i] = t
      <4>1. t # q[1] /\ st[t] = "queued"  BY <2>2, <3>4
      <4>2. PICK i \in 1..Len(q) : q[i] = t  BY <4>1 DEF Lists
      <4>3. i - 1 \in 1..Len(pending') /\ pending'[i - 1] = t
        BY <4>1, <4>2, <2>1, <3>2
      <4> QED  BY <4>3
    <3>5. \A i, j \in 1..Len(pending') : pending'[i] = pending'[j] => i = j
      BY <2>1, <3>2 DEF Lists
    <3> QED  BY <3>3, <3>4, <3>5 DEF Lists
  <2>4. status' \in [Tasks -> Statuses] /\ pending' \in Seq(Tasks) /\ Len(pending') <= Len(q)
    BY <1>2, <2>1, Popped DEF Statuses
  <2> QED  BY <2>3, <2>4
<1> QED  BY <1>1, <1>2 DEF ProcessNext

LEMMA NextSorted ==
  ASSUME NEW st, NEW q \in Seq(Tasks), NEW rk, Sorted(rk, q), ProcessNext(st, q)
  PROVE  Sorted(rk, pending')
<1>1. CASE pending' = q  BY <1>1
<1>2. CASE q # <<>> /\ pending' = Tail(q)
  <2>1. Len(q) \in Nat /\ Len(pending') = Len(q) - 1 /\ \A i \in 1..Len(q) - 1 : pending'[i] = q[i + 1]
    BY <1>2, Popped
  <2>2. ASSUME NEW i \in 1..Len(pending'), NEW j \in 1..Len(pending'), i < j
        PROVE  Before(rk, pending'[i], pending'[j])
    <3>1. i + 1 \in 1..Len(q) /\ j + 1 \in 1..Len(q) /\ i + 1 < j + 1  BY <2>1, <2>2
    <3>2. Before(rk, q[i + 1], q[j + 1])  BY <3>1 DEF Sorted
    <3> QED  BY <3>2, <2>1
  <2> QED  BY <2>2 DEF Sorted
<1> QED  BY <1>1, <1>2 DEF ProcessNext

\* ProcessNext changes the status of queued tasks only.
LEMMA NextElsewhere ==
  ASSUME NEW st, NEW q, Ready(st, q), ProcessNext(st, q)
  PROVE  \A t \in Tasks : status'[t] = st[t] \/ (st[t] = "queued" /\ status'[t] = "spawning")
<1>1. CASE status' = st  BY <1>1
<1>2. CASE q # <<>> /\ status' = [st EXCEPT ![Head(q)] = "spawning"]
  <2>1. Head(q) = q[1] /\ q[1] \in Tasks /\ 1 \in 1..Len(q)  BY <1>2, Popped DEF Ready
  <2>2. st[q[1]] = "queued"  BY <2>1 DEF Ready, Lists
  <2> QED  BY <1>2, <2>1, <2>2 DEF Ready
<1> QED  BY <1>1, <1>2 DEF ProcessNext

LEMMA ActiveFinite ==
  ASSUME NEW st
  PROVE  IsFiniteSet(ActiveOf(st)) /\ Cardinality(ActiveOf(st)) \in Nat
BY TasksAreNat, FS_Subset, FS_CardinalityType DEF ActiveOf

\* Afterwards the slots are respected and, if a task still waits, full or looked after.
LEMMA NextCapacity ==
  ASSUME NEW st, NEW q, Ready(st, q), ProcessNext(st, q)
  PROVE  Capacity' /\ WorkConserving'
<1> DEFINE act == ActiveOf(st)
<1>1. IsFiniteSet(act) /\ Cardinality(act) \in Nat /\ MaxActive \in Nat /\ Cardinality(act) <= MaxActive
  BY ActiveFinite, QueueAssumption DEF Ready
<1>2. Active' = ActiveOf(status')  BY DEF Active, ActiveOf
<1>3. CASE q # <<>> /\ Cardinality(act) < MaxActive /\ status' = [st EXCEPT ![Head(q)] = "spawning"]
  <2>1. Head(q) \in Tasks  BY <1>3, Popped DEF Ready
  <2>2. status'[Head(q)] = "spawning"  BY <1>3, <2>1 DEF Ready
  <2>3. ActiveOf(status') = act \cup {Head(q)}
    BY <1>3, <2>1 DEF ActiveOf, Ready
  <2>4. Cardinality(ActiveOf(status')) <= MaxActive
    <3> HIDE DEF act
    <3>1. Cardinality(act \cup {Head(q)}) = IF Head(q) \in act THEN Cardinality(act) ELSE Cardinality(act) + 1
      BY <1>1, FS_AddElement
    <3> QED  BY <3>1, <2>3, <1>1, <1>3
  <2> QED  BY <2>1, <2>2, <2>4, <1>2 DEF Capacity, WorkConserving
<1>4. CASE ~(q # <<>> /\ Cardinality(act) < MaxActive) /\ status' = st /\ pending' = q
  <2>1. Active' = act  BY <1>2, <1>4
  <2>2. q = <<>> \/ Cardinality(act) = MaxActive
    <3> HIDE DEF act
    <3> QED  BY <1>1, <1>4
  <2> QED  BY <2>1, <2>2, <1>1, <1>4 DEF Capacity, WorkConserving
<1> QED  BY <1>3, <1>4 DEF ProcessNext, ActiveOf

\* The task that starts goes before every other one in the queue.
LEMMA NextIsFirst ==
  ASSUME NEW st, NEW q, NEW rk, Ready(st, q), Sorted(rk, q), ProcessNext(st, q),
         NEW t \in Tasks, NEW u \in Tasks, st[t] # "spawning", status'[t] = "spawning",
         st[u] = "queued", status'[u] = "queued"
  PROVE  Before(rk, t, u)
<1>1. q # <<>> /\ status' = [st EXCEPT ![Head(q)] = "spawning"]  BY DEF ProcessNext
<1>2. Head(q) = q[1] /\ q[1] \in Tasks /\ Len(q) \in Nat /\ Len(q) >= 1  BY <1>1, Popped DEF Ready
<1>3. t = q[1] /\ u # q[1]  BY <1>1, <1>2 DEF Ready
<1>4. PICK i \in 1..Len(q) : q[i] = u  BY DEF Ready, Lists
<1>5. 1 < i /\ 1 \in 1..Len(q)  BY <1>2, <1>3, <1>4
<1> QED  BY <1>3, <1>4, <1>5 DEF Sorted

--------------------------------------------------------------------------------
(* The actions.                                                                   *)

LEMMA InitInv == Init => IInv
<1> SUFFICES ASSUME Init PROVE IInv  OBVIOUS
<1>1. MaxActive \in Nat /\ MaxDepth \in Nat  BY QueueAssumption
<1>2. pending = <<>> /\ Len(pending) = 0 /\ pending \in Seq(Tasks)  BY DEF Init
<1>3. Typed  BY <1>1, <1>2, TasksAreNat, QueueAssumption DEF Init, Typed, Statuses
<1>4. Active = {}  BY DEF Init, Active
<1>5. Capacity  BY <1>1, <1>4, FS_EmptySet DEF Capacity
<1>6. WorkConserving  BY <1>2 DEF WorkConserving
<1>7. Lists(status, pending) /\ Sorted(rank, pending)
  BY <1>2 DEF Init, Lists, Sorted
<1>8. Matched(status, proc) /\ Unborn(status, next)  BY DEF Init, Matched, Unborn
<1> QED  BY <1>3, <1>5, <1>6, <1>7, <1>8 DEF IInv

\* An action that hands st and q to ProcessNext and leaves next and rank alone.
LEMMA HandlerStep ==
  ASSUME IInv, NEW st, Ready(st, pending), ProcessNext(st, pending), UNCHANGED <<next, rank>>,
         Matched(st, proc'), Unborn(st, next),
         proc' \in [Tasks -> {"none", "alive", "broken", "erred", "gone"}], others' \in 0..MaxOthers
  PROVE  IInv'
<1>1. /\ status' \in [Tasks -> Statuses] /\ pending' \in Seq(Tasks) /\ Len(pending') <= Len(pending)
      /\ Lists(status', pending')
  BY NextTypes
<1>2. Len(pending') <= MaxDepth
  BY <1>1, LenProperties, QueueAssumption DEF IInv, Typed
<1>3. Typed'  BY <1>1, <1>2 DEF IInv, Typed
<1>4. Sorted(rank', pending')  BY NextSorted DEF IInv, Typed
<1>5. Capacity' /\ WorkConserving'  BY NextCapacity
<1>6. \A t \in Tasks : status'[t] = st[t] \/ (st[t] = "queued" /\ status'[t] = "spawning")
  BY NextElsewhere
<1>7. Matched(status', proc')  BY <1>6 DEF Matched
<1>8. Unborn(status', next')  BY <1>6 DEF Unborn
<1> QED  BY <1>1, <1>3, <1>4, <1>5, <1>7, <1>8 DEF IInv

\* A task that is at work changes its status: st is still in order for the queue.
LEMMA ReadyAfter ==
  ASSUME IInv, NEW t \in Tasks, status[t] \in {"spawning", "running"},
         NEW s \in {"running", "completed", "failed"}
  PROVE  Ready([status EXCEPT ![t] = s], pending) /\ Unborn([status EXCEPT ![t] = s], next)
<1> DEFINE st == [status EXCEPT ![t] = s]
<1>1. status \in [Tasks -> Statuses] /\ pending \in Seq(Tasks) /\ Lists(status, pending)
  BY DEF IInv, Typed
<1>2. st \in [Tasks -> Statuses] /\ \A u \in Tasks : st[u] = IF u = t THEN s ELSE status[u]
  BY <1>1 DEF Statuses
<1>3. \A i \in 1..Len(pending) : pending[i] \in Tasks  BY <1>1, ElementOfSeq
<1> HIDE DEF st
<1>4. Lists(st, pending)
  <2>1. \A i \in 1..Len(pending) : st[pending[i]] = "queued"  BY <1>1, <1>2, <1>3 DEF Lists
  <2>2. \A u \in Tasks : st[u] = "queued" => \E i \in 1..Len(pending) : pending[i] = u
    BY <1>1, <1>2 DEF Lists
  <2> QED  BY <2>1, <2>2, <1>1 DEF Lists
<1>5. Cardinality(ActiveOf(st)) <= MaxActive
  <2>1. ActiveOf(st) \subseteq ActiveOf(status)  BY <1>2 DEF ActiveOf
  <2>2. Cardinality(ActiveOf(st)) <= Cardinality(ActiveOf(status))
    BY <2>1, ActiveFinite, FS_Subset
  <2>3. Cardinality(ActiveOf(status)) <= MaxActive  BY DEF IInv, Capacity, Active, ActiveOf
  <2> QED  BY <2>2, <2>3, ActiveFinite, QueueAssumption
<1>6. Unborn(st, next)  BY <1>2 DEF IInv, Unborn
<1> QED  BY <1>1, <1>2, <1>4, <1>5, <1>6 DEF Ready, st

LEMMA ReadyAsIs == ASSUME IInv PROVE Ready(status, pending)
BY DEF IInv, Typed, Capacity, Active, Ready, ActiveOf

LEMMA SpawnedStep ==
  ASSUME IInv, NEW t \in Tasks, NEW p \in {"alive", "broken"}, Spawned(t, p)
  PROVE  IInv'
<1> DEFINE st == [status EXCEPT ![t] = "running"]
<1>1. Ready(st, pending) /\ Unborn(st, next)  BY ReadyAfter DEF Spawned
<1>2. Matched(st, proc')  BY DEF IInv, Typed, Matched, Spawned
<1>3. proc' \in [Tasks -> {"none", "alive", "broken", "erred", "gone"}] /\ others' \in 0..MaxOthers
  BY DEF IInv, Typed, Spawned
<1>4. ProcessNext(st, pending) /\ UNCHANGED <<next, rank>>  BY DEF Spawned
<1> QED
  <2> HIDE DEF st
  <2> QED  BY <1>1, <1>2, <1>3, <1>4, HandlerStep

LEMMA SpawnThrowsStep ==
  ASSUME IInv, NEW t \in Tasks, SpawnThrows(t)
  PROVE  IInv'
<1> DEFINE st == [status EXCEPT ![t] = "failed"]
<1>1. Ready(st, pending) /\ Unborn(st, next)  BY ReadyAfter DEF SpawnThrows
<1>2. Matched(st, proc')  BY DEF IInv, Typed, Matched, SpawnThrows
<1>3. proc' \in [Tasks -> {"none", "alive", "broken", "erred", "gone"}] /\ others' \in 0..MaxOthers
  BY DEF IInv, Typed, SpawnThrows
<1>4. ProcessNext(st, pending) /\ UNCHANGED <<next, rank>>  BY DEF SpawnThrows
<1> QED
  <2> HIDE DEF st
  <2> QED  BY <1>1, <1>2, <1>3, <1>4, HandlerStep

\* The end of the process of t, or its error: p is what its process is then.
LEMMA SettlesStep ==
  ASSUME IInv, NEW t \in Tasks, NEW s \in {"completed", "failed"}, NEW p \in {"erred", "gone"},
         proc[t] \in {"alive", "broken", "erred"}, proc' = [proc EXCEPT ![t] = p],
         Settles(t, s), UNCHANGED <<next, rank, others>>
  PROVE  IInv'
<1>1. proc' \in [Tasks -> {"none", "alive", "broken", "erred", "gone"}] /\ others' \in 0..MaxOthers
  BY DEF IInv, Typed
<1>2. CASE status[t] = "running"
  <2> DEFINE st == [status EXCEPT ![t] = s]
  <2>1. Ready(st, pending) /\ Unborn(st, next)  BY <1>2, ReadyAfter
  <2>2. Matched(st, proc')  BY <1>2 DEF IInv, Typed, Matched
  <2>3. ProcessNext(st, pending)  BY <1>2 DEF Settles
  <2> HIDE DEF st
  <2> QED  BY <2>1, <2>2, <2>3, <1>1, HandlerStep
<1>3. CASE status[t] # "running"
  <2>1. ProcessNext(status, pending)  BY <1>3 DEF Settles
  <2>2. Matched(status, proc')  BY <1>3 DEF IInv, Typed, Matched
  <2> QED  BY <2>1, <2>2, <1>1, ReadyAsIs, HandlerStep DEF IInv
<1> QED  BY <1>2, <1>3

LEMMA EndsStep ==
  ASSUME IInv, NEW t \in Tasks, Ends(t)
  PROVE  IInv'
<1>1. CASE Errors(t)  BY <1>1, SettlesStep DEF Errors
<1>2. CASE ErrorCloses(t)  BY <1>2, SettlesStep DEF ErrorCloses
<1>3. ASSUME NEW s \in {"completed", "failed"}, Closes(t, s) PROVE IInv'
  BY <1>3, SettlesStep DEF Closes
<1> QED  BY <1>1, <1>2, <1>3 DEF Ends

LEMMA CancelStep ==
  ASSUME IInv, NEW i \in 1..Len(pending), Cancel(i)
  PROVE  IInv'
<1>1. pending \in Seq(Tasks) /\ status \in [Tasks -> Statuses] /\ Lists(status, pending) /\ Sorted(rank, pending)
  BY DEF IInv, Typed
<1>2. pending' = Delete(pending, i)  BY DEF Cancel, Delete
<1>3. /\ pending' \in Seq(Tasks) /\ Len(pending') = Len(pending) - 1
      /\ \A j \in 1..Len(pending) - 1 : pending'[j] = IF j < i THEN pending[j] ELSE pending[j + 1]
  BY <1>1, <1>2, Removed
<1>4. PICK c : c = pending[i]  OBVIOUS
<1>5. Len(pending) \in Nat /\ \A j \in 1..Len(pending) : pending[j] \in Tasks
  BY <1>1, LenProperties, ElementOfSeq
<1>6. c \in Tasks /\ status[c] = "queued" /\ status' = [status EXCEPT ![c] = "cancelled"]
  BY <1>1, <1>4, <1>5 DEF Cancel, Lists
<1>7. status' \in [Tasks -> Statuses] /\ \A t \in Tasks : status'[t] = IF t = c THEN "cancelled" ELSE status[t]
  BY <1>1, <1>6 DEF Statuses
<1>8. \A j \in 1..Len(pending') : \E k \in 1..Len(pending) :
        pending'[j] = pending[k] /\ k # i /\ (j < i => k = j) /\ (j >= i => k = j + 1)
  <2> SUFFICES ASSUME NEW j \in 1..Len(pending')
               PROVE  \E k \in 1..Len(pending) :
                        pending'[j] = pending[k] /\ k # i /\ (j < i => k = j) /\ (j >= i => k = j + 1)
    OBVIOUS
  <2>1. j \in 1..Len(pending) /\ j + 1 \in 1..Len(pending) /\ i \in Nat  BY <1>3, <1>5
  <2>2. CASE j < i  BY <2>1, <2>2, <1>3
  <2>3. CASE j >= i  BY <2>1, <2>3, <1>3
  <2> QED  BY <2>1, <2>2, <2>3
<1>9. Lists(status', pending')
  <2>1. \A j \in 1..Len(pending') : status'[pending'[j]] = "queued"
    BY <1>1, <1>4, <1>5, <1>7, <1>8 DEF Lists
  <2>2. ASSUME NEW t \in Tasks, status'[t] = "queued" PROVE \E j \in 1..Len(pending') : pending'[j] = t
    <3>1. t # c /\ status[t] = "queued"  BY <1>7, <2>2
    <3>2. PICK k \in 1..Len(pending) : pending[k] = t  BY <3>1, <1>1 DEF Lists
    <3>3. CASE k < i
      <4>1. k \in 1..Len(pending') /\ pending'[k] = t  BY <3>2, <3>3, <1>3, <1>5
      <4> QED  BY <4>1
    <3>4. CASE k > i
      <4>1. k - 1 \in 1..Len(pending') /\ pending'[k - 1] = t  BY <3>2, <3>4, <1>3, <1>5
      <4> QED  BY <4>1
    <3> QED  BY <3>1, <3>2, <3>3, <3>4, <1>4, <1>5
  <2>3. \A j, k \in 1..Len(pending') : pending'[j] = pending'[k] => j = k
    BY <1>1, <1>3, <1>5, <1>8 DEF Lists
  <2> QED  BY <2>1, <2>2, <2>3 DEF Lists
<1>10. Sorted(rank', pending')
  <2> SUFFICES ASSUME NEW j \in 1..Len(pending'), NEW k \in 1..Len(pending'), j < k
               PROVE  Before(rank, pending'[j], pending'[k])
    BY DEF Sorted, Cancel
  <2>1. PICK a \in 1..Len(pending) : pending'[j] = pending[a] /\ (j < i => a = j) /\ (j >= i => a = j + 1)
    BY <1>8
  <2>2. PICK b \in 1..Len(pending) : pending'[k] = pending[b] /\ (k < i => b = k) /\ (k >= i => b = k + 1)
    BY <1>8
  <2>3. a < b  BY <2>1, <2>2, <1>3, <1>5
  <2> QED  BY <2>1, <2>2, <2>3, <1>1 DEF Sorted
<1>11. Active' = Active  BY <1>6, <1>7 DEF Active
<1>12. Capacity' /\ WorkConserving'
  <2>1. pending' # <<>> => pending # <<>>  BY <1>1, <1>3, <1>5, EmptySeq
  <2>2. \A t \in Tasks : status[t] = "spawning" => status'[t] = "spawning"  BY <1>6, <1>7
  <2>3. Cardinality(Active') = Cardinality(Active)  BY <1>11
  <2>4. (\E t \in Tasks : status[t] = "spawning") => \E t \in Tasks : status'[t] = "spawning"  BY <2>2
  <2>5. Capacity'  BY <2>3 DEF IInv, Capacity
  <2>6. WorkConserving'
    <3>1. CASE Cardinality(Active) = MaxActive  BY <2>3, <3>1 DEF WorkConserving
    <3>2. CASE \E t \in Tasks : status[t] = "spawning"  BY <2>4, <3>2 DEF WorkConserving
    <3> QED  BY <2>1, <3>1, <3>2 DEF IInv, WorkConserving
  <2> QED  BY <2>5, <2>6
<1>13. Matched(status', proc')  BY <1>6, <1>7 DEF IInv, Matched, Cancel
<1>14. Unborn(status', next')  BY <1>6, <1>7 DEF IInv, Unborn, Cancel
<1>15. Typed'
  <2>1. Len(pending') <= MaxDepth  BY <1>3, <1>5, QueueAssumption DEF IInv, Typed
  <2> QED  BY <2>1, <1>3, <1>7 DEF IInv, Typed, Cancel
<1> QED  BY <1>9, <1>10, <1>12, <1>13, <1>14, <1>15 DEF IInv

\* The queue with a new task of rank r at its place is in order.
LEMMA SubmitReady ==
  ASSUME IInv, NEW r \in Priorities, NEW i \in 1..Len(pending) + 1, Placed(i, r), next <= MaxTasks
  PROVE  /\ Ready([status EXCEPT ![next] = "queued"], Insert(pending, next, i))
         /\ Len(Insert(pending, next, i)) = Len(pending) + 1
         /\ Sorted([rank EXCEPT ![next] = r], Insert(pending, next, i))
<1>1. pending \in Seq(Tasks) /\ status \in [Tasks -> Statuses] /\ rank \in [Tasks -> 0..3]
      /\ Lists(status, pending) /\ Sorted(rank, pending)
  BY DEF IInv, Typed
<1>2. next \in Tasks /\ status[next] = "new"  BY TasksAreNat DEF IInv, Typed, Tasks, Unborn
<1>3. PICK q : q = Insert(pending, next, i)  OBVIOUS
<1>4. PICK st : st = [status EXCEPT ![next] = "queued"]  OBVIOUS
<1>5. PICK rk : rk = [rank EXCEPT ![next] = r]  OBVIOUS
<1>6. /\ q \in Seq(Tasks) /\ Len(q) = Len(pending) + 1
      /\ \A j \in 1..Len(pending) + 1 :
           q[j] = IF j < i THEN pending[j] ELSE IF j = i THEN next ELSE pending[j - 1]
  <2>1. /\ Insert(pending, next, i) \in Seq(Tasks) /\ Len(Insert(pending, next, i)) = Len(pending) + 1
        /\ \A j \in 1..Len(pending) + 1 :
             Insert(pending, next, i)[j] =
               IF j < i THEN pending[j] ELSE IF j = i THEN next ELSE pending[j - 1]
    BY <1>1, <1>2, Inserted
  <2> QED  BY <2>1, <1>3, Zenon
<1>7. Len(pending) \in Nat /\ \A j \in 1..Len(pending) : pending[j] \in Tasks /\ pending[j] # next
  BY <1>1, <1>2, LenProperties, ElementOfSeq DEF Lists
<1>8. st \in [Tasks -> Statuses] /\ \A t \in Tasks : st[t] = IF t = next THEN "queued" ELSE status[t]
  BY <1>1, <1>2, <1>4 DEF Statuses
<1>9. \A t \in Tasks : rk[t] = IF t = next THEN r ELSE rank[t]
  BY <1>1, <1>2, <1>5
\* Where the task at position j of q comes from.
<1>10. \A j \in 1..Len(q) :
         \/ j = i /\ q[j] = next
         \/ j < i /\ j \in 1..Len(pending) /\ q[j] = pending[j]
         \/ j > i /\ j - 1 \in 1..Len(pending) /\ q[j] = pending[j - 1]
  BY <1>6, <1>7
<1>11. Lists(st, q)
  <2>1. \A j \in 1..Len(q) : st[q[j]] = "queued"  BY <1>1, <1>2, <1>7, <1>8, <1>10 DEF Lists
  <2>2. ASSUME NEW t \in Tasks, st[t] = "queued" PROVE \E j \in 1..Len(q) : q[j] = t
    <3>1. CASE t = next  BY <3>1, <1>6, <1>7
    <3>2. CASE t # next
      <4>1. PICK k \in 1..Len(pending) : pending[k] = t  BY <2>2, <3>2, <1>1, <1>8 DEF Lists
      <4>2. k < i => k \in 1..Len(q) /\ q[k] = t  BY <4>1, <1>6, <1>7
      <4>3. k >= i => k + 1 \in 1..Len(q) /\ q[k + 1] = t  BY <4>1, <1>6, <1>7
      <4> QED  BY <4>2, <4>3, <1>7
    <3> QED  BY <3>1, <3>2
  <2>3. \A j, k \in 1..Len(q) : q[j] = q[k] => j = k
    <3> SUFFICES ASSUME NEW j \in 1..Len(q), NEW k \in 1..Len(q), q[j] = q[k] PROVE j = k
      OBVIOUS
    <3>1. \A a, b \in 1..Len(pending) : pending[a] = pending[b] => a = b  BY <1>1 DEF Lists
    <3> QED  BY <3>1, <1>6, <1>7, <1>10
  <2> QED  BY <2>1, <2>2, <2>3 DEF Lists
<1>12. Sorted(rk, q)
  <2> SUFFICES ASSUME NEW j \in 1..Len(q), NEW k \in 1..Len(q), j < k
               PROVE  Before(rk, q[j], q[k])
    BY DEF Sorted
  <2>1. \A a, b \in 1..Len(pending) : a < b => Before(rk, pending[a], pending[b])
    BY <1>1, <1>7, <1>9 DEF Sorted, Before
  <2>2. \A a \in 1..Len(pending) : a < i => Before(rk, pending[a], next)
    <3> SUFFICES ASSUME NEW a \in 1..Len(pending), a < i PROVE Before(rk, pending[a], next)
      OBVIOUS
    <3>1. rank[pending[a]] <= r
      <4>1. i \in Nat /\ a \in 1..i - 1  BY <1>7
      <4> QED  BY <4>1 DEF Placed
    <3>2. pending[a] < next
      <4>1. status[pending[a]] # "new"  BY <1>1 DEF Lists
      <4>2. ~(pending[a] >= next)  BY <4>1, <1>7 DEF IInv, Unborn
      <4>3. pending[a] \in Nat /\ next \in Nat  BY <1>2, <1>7, TasksAreNat
      <4> QED  BY <4>2, <4>3
    <3>3. rank[pending[a]] \in 0..3 /\ r \in 0..3  BY <1>1, <1>7, QueueAssumption
    <3> QED  BY <3>1, <3>2, <3>3, <1>2, <1>7, <1>9 DEF Before
  <2>3. \A a \in 1..Len(pending) : a >= i => Before(rk, next, pending[a])
    BY <1>2, <1>7, <1>9 DEF Placed, Before
  <2>4. CASE k = i  BY <2>2, <2>4, <1>6, <1>7, <1>10
  <2>5. CASE j = i
    <3>1. k - 1 \in 1..Len(pending) /\ k - 1 >= i /\ q[k] = pending[k - 1]  BY <2>5, <1>6, <1>7, <1>10
    <3> QED  BY <3>1, <2>3, <2>5, <1>10
  <2>6. CASE j # i /\ k # i
    <3> DEFINE a == IF j < i THEN j ELSE j - 1
               b == IF k < i THEN k ELSE k - 1
    <3>1. a \in 1..Len(pending) /\ q[j] = pending[a]  BY <2>6, <1>6, <1>7, <1>10
    <3>2. b \in 1..Len(pending) /\ q[k] = pending[b]  BY <2>6, <1>6, <1>7, <1>10
    <3>3. a < b  BY <2>6, <1>6, <1>7
    <3> HIDE DEF a, b
    <3> QED  BY <3>1, <3>2, <3>3, <2>1
  <2> QED  BY <2>4, <2>5, <2>6
<1>13. ActiveOf(st) = ActiveOf(status)  BY <1>2, <1>8 DEF ActiveOf
<1>14. Cardinality(ActiveOf(st)) <= MaxActive  BY <1>13 DEF IInv, Capacity, Active, ActiveOf
<1>15. Ready(st, q)  BY <1>6, <1>8, <1>11, <1>14 DEF Ready
<1> QED  BY <1>3, <1>4, <1>5, <1>6, <1>12, <1>15

LEMMA SubmitStep ==
  ASSUME IInv, NEW r \in Priorities, Submit(r)
  PROVE  IInv'
<1>1. next <= MaxTasks /\ Len(pending) < MaxDepth /\ next' = next + 1
      /\ rank' = [rank EXCEPT ![next] = r] /\ UNCHANGED <<proc, others>>
  BY DEF Submit
<1>2. PICK i \in 1..Len(pending) + 1 :
        Placed(i, r) /\ ProcessNext([status EXCEPT ![next] = "queued"], Insert(pending, next, i))
  BY DEF Submit, Insert
<1>3. PICK st : st = [status EXCEPT ![next] = "queued"]  OBVIOUS
<1>4. PICK q : q = Insert(pending, next, i)  OBVIOUS
<1>5. Ready(st, q) /\ Len(q) = Len(pending) + 1 /\ Sorted(rank', q) /\ ProcessNext(st, q)
  BY <1>1, <1>2, <1>3, <1>4, SubmitReady
<1>6. /\ status' \in [Tasks -> Statuses] /\ pending' \in Seq(Tasks) /\ Len(pending') <= Len(q)
      /\ Lists(status', pending')
  BY <1>5, NextTypes
<1>7. Sorted(rank', pending')  BY <1>5, NextSorted DEF Ready
<1>8. Capacity' /\ WorkConserving'  BY <1>5, NextCapacity
<1>9. \A t \in Tasks : status'[t] = st[t] \/ (st[t] = "queued" /\ status'[t] = "spawning")
  BY <1>5, NextElsewhere
<1>10. next \in Tasks /\ status[next] = "new"  BY <1>1, TasksAreNat DEF IInv, Typed, Tasks, Unborn
<1>11. \A t \in Tasks : st[t] = IF t = next THEN "queued" ELSE status[t]  BY <1>3, <1>10 DEF IInv, Typed
<1>12. Matched(status', proc')  BY <1>1, <1>9, <1>10, <1>11 DEF IInv, Matched
<1>13. Unborn(status', next')
  <2> SUFFICES ASSUME NEW t \in Tasks, t >= next + 1 PROVE status'[t] = "new"
    BY <1>1 DEF Unborn
  <2>1. t # next /\ t >= next  BY <1>10, TasksAreNat
  <2>2. st[t] = "new"  BY <2>1, <1>11 DEF IInv, Unborn
  <2> QED  BY <2>2, <1>9
<1>14. Typed'
  <2>1. Len(pending') <= MaxDepth
    BY <1>1, <1>5, <1>6, LenProperties, QueueAssumption DEF IInv, Typed
  <2>2. next' \in 1..MaxTasks + 1  BY <1>1, <1>10, TasksAreNat DEF Tasks
  <2>3. rank' \in [Tasks -> 0..3]  BY <1>1, QueueAssumption DEF IInv, Typed
  <2> QED  BY <2>1, <2>2, <2>3, <1>1, <1>6 DEF IInv, Typed
<1> QED  BY <1>6, <1>7, <1>8, <1>12, <1>13, <1>14 DEF IInv

LEMMA OtherStartsStep ==
  ASSUME IInv, OtherStarts
  PROVE  IInv'
<1>1. others' \in 0..MaxOthers  BY QueueAssumption DEF OtherStarts, IInv, Typed
<1>2. UNCHANGED <<next, status, rank, pending, proc>>  BY DEF OtherStarts
<1> QED  BY <1>1, <1>2 DEF IInv, Typed, Capacity, WorkConserving, Active

LEMMA OtherEndsStep ==
  ASSUME IInv, OtherEnds
  PROVE  IInv'
<1>1. others' \in 0..MaxOthers  BY QueueAssumption DEF OtherEnds, IInv, Typed
<1>2. ProcessNext(status, pending) /\ UNCHANGED <<next, rank, proc>>  BY DEF OtherEnds
<1> QED  BY <1>1, <1>2, ReadyAsIs, HandlerStep DEF IInv, Typed

LEMMA NextStep == IInv /\ [Next]_vars => IInv'
<1> SUFFICES ASSUME IInv, [Next]_vars PROVE IInv'  OBVIOUS
<1>1. ASSUME NEW r \in Priorities, Submit(r) PROVE IInv'  BY <1>1, SubmitStep
<1>2. ASSUME NEW i \in 1..Len(pending), Cancel(i) PROVE IInv'  BY <1>2, CancelStep
<1>3. ASSUME NEW t \in Tasks, SpawnReturns(t) PROVE IInv'
  BY <1>3, SpawnThrowsStep, SpawnedStep DEF SpawnReturns
<1>4. ASSUME NEW t \in Tasks, Ends(t) PROVE IInv'  BY <1>4, EndsStep
<1>5. CASE OtherStarts  BY <1>5, OtherStartsStep
<1>6. CASE OtherEnds  BY <1>6, OtherEndsStep
<1>7. CASE UNCHANGED vars
  BY <1>7 DEF vars, IInv, Typed, Capacity, WorkConserving, Active
<1> QED  BY <1>1, <1>2, <1>3, <1>4, <1>5, <1>6, <1>7 DEF Next

--------------------------------------------------------------------------------
(* The order.                                                                     *)

\* A handler that hands st and q to ProcessNext starts the first task of q; st and the
\* code's statuses differ in no task that waits or is at its spawn afterwards.
LEMMA OrderKept ==
  ASSUME NEW st, NEW q, Ready(st, q), Sorted(rank', q), ProcessNext(st, q),
         \A t \in Tasks : st[t] = "spawning" => status[t] = "spawning",
         \A t \in Tasks : status[t] = "queued" => st[t] = "queued",
         NEW t \in Tasks, NEW u \in Tasks, status[t] # "spawning", status'[t] = "spawning",
         status[u] = "queued", status'[u] = "queued"
  PROVE  Before(rank', t, u)
BY NextIsFirst

LEMMA InOrder ==
  ASSUME IInv, Next, NEW t \in Tasks, NEW u \in Tasks,
         status[t] # "spawning", status'[t] = "spawning",
         status[u] = "queued", status'[u] = "queued"
  PROVE  Before(rank', t, u)
<1>1. Sorted(rank, pending) /\ status \in [Tasks -> Statuses]  BY DEF IInv, Typed
<1>2. ASSUME NEW r \in Priorities, Submit(r) PROVE Before(rank', t, u)
  <2>1. next <= MaxTasks /\ rank' = [rank EXCEPT ![next] = r]  BY <1>2 DEF Submit
  <2>2. PICK i \in 1..Len(pending) + 1 :
          Placed(i, r) /\ ProcessNext([status EXCEPT ![next] = "queued"], Insert(pending, next, i))
    BY <1>2 DEF Submit, Insert
  <2>3. PICK st : st = [status EXCEPT ![next] = "queued"]  OBVIOUS
  <2>4. PICK q : q = Insert(pending, next, i)  OBVIOUS
  <2>5. Ready(st, q) /\ Sorted(rank', q) /\ ProcessNext(st, q)
    BY <2>1, <2>2, <2>3, <2>4, SubmitReady
  <2>6. \A v \in Tasks : st[v] = status[v] \/ st[v] = "queued"  BY <1>1, <2>3
  <2> QED  BY <2>5, <2>6, OrderKept
\* The actions that settle or spawn a task at work.
<1>3. ASSUME NEW v \in Tasks, status[v] \in {"spawning", "running"},
             NEW s \in {"running", "completed", "failed"}, UNCHANGED rank,
             ProcessNext([status EXCEPT ![v] = s], pending)
      PROVE  Before(rank', t, u)
  <2>1. PICK st : st = [status EXCEPT ![v] = s]  OBVIOUS
  <2>2. Ready(st, pending) /\ ProcessNext(st, pending)  BY <1>3, <2>1, ReadyAfter
  <2>3. \A w \in Tasks : st[w] = IF w = v THEN s ELSE status[w]  BY <1>1, <2>1
  <2> QED  BY <1>1, <1>3, <2>2, <2>3, OrderKept
<1>4. ASSUME ProcessNext(status, pending), UNCHANGED rank PROVE Before(rank', t, u)
  BY <1>1, <1>4, ReadyAsIs, OrderKept
<1>5. ASSUME NEW v \in Tasks, NEW s \in {"completed", "failed"}, Settles(v, s), UNCHANGED rank
      PROVE  Before(rank', t, u)
  BY <1>3, <1>4, <1>5 DEF Settles
<1>6. ASSUME NEW v \in Tasks, SpawnReturns(v) PROVE Before(rank', t, u)
  BY <1>3, <1>6 DEF SpawnReturns, SpawnThrows, Spawned
<1>7. ASSUME NEW v \in Tasks, Ends(v) PROVE Before(rank', t, u)
  BY <1>5, <1>7 DEF Ends, Errors, ErrorCloses, Closes
<1>8. CASE OtherEnds  BY <1>4, <1>8 DEF OtherEnds
<1>9. CASE OtherStarts  BY <1>9 DEF OtherStarts
<1>10. ASSUME NEW i \in 1..Len(pending), Cancel(i) PROVE Before(rank', t, u)
  BY <1>1, <1>10 DEF Cancel
<1> QED  BY <1>2, <1>6, <1>7, <1>8, <1>9, <1>10 DEF Next

--------------------------------------------------------------------------------
(* The theorems.                                                                  *)

LEMMA Inductive == Spec => []IInv
BY InitInv, NextStep, PTL DEF Spec

\* The queue keeps its types and its depth, and its array and its Map agree on what waits,
\* however many tasks it takes.
THEOREM TypeCorrect == Spec => []TypeOK
<1>1. IInv => TypeOK  BY DEF IInv, TypeOK
<1> QED  BY <1>1, Inductive, PTL

\* queue.ts never has more tasks in its hands than there are slots, whichever loops of
\* process_next overlap.
THEOREM SlotsRespected == Spec => []Capacity
<1>1. IInv => Capacity  BY DEF IInv
<1> QED  BY <1>1, Inductive, PTL

\* No task waits next to a free slot without a loop of process_next about to see it.
THEOREM NoStrandedTask == Spec => []WorkConserving
<1>1. IInv => WorkConserving  BY DEF IInv
<1> QED  BY <1>1, Inductive, PTL

\* on_session_completed and on_session_failed settle every task with its own process.
THEOREM Attribution == Spec => []Attributed
<1>1. IInv => Attributed  BY DEF IInv, Matched, Attributed
<1> QED  BY <1>1, Inductive, PTL

\* sort_pending and shift: no task starts before a more urgent or an equally urgent and
\* older one that waits.
THEOREM Order == Spec => NoOvertaking
<1>1. IInv /\ [Next]_vars =>
        [\A t, u \in Tasks :
           status[t] # "spawning" /\ status'[t] = "spawning" /\ status[u] = "queued" /\ status'[u] = "queued"
             => rank'[t] < rank'[u] \/ (rank'[t] = rank'[u] /\ t < u)]_vars
  BY InOrder DEF Before, vars
<1> QED  BY <1>1, Inductive, PTL DEF Spec, NoOvertaking

--------------------------------------------------------------------------------
(* The tool calls of a session: BrokerOutbound.                                      *)

\* A call is in one place at a time, and what is on its way back is its outcome.
OnItsWay(r) ==
  /\ r \in requests => r \notin running /\ sentOn[r] # 0
  /\ r \in requests \cup running => outcome[r] = "none" /\ results[r] = "none"
  /\ r \in running => sentOn[r] # 0
  /\ results[r] # "none" => results[r] = outcome[r] /\ sentOn[r] # 0
  /\ sentOn[r] = 0 => outcome[r] = "none" /\ r \notin waiting
CallsInOnePlace == \A r \in Calls : OnItsWay(r)

OutboundInv ==
  Outbound!TypeOK /\ Outbound!AnswersAreTheDaemons /\ Outbound!PendingIsUnanswered /\ CallsInOnePlace

LEMMA OutboundInit == Outbound!Init => OutboundInv
<1> SUFFICES ASSUME Outbound!Init PROVE OutboundInv
  OBVIOUS
<1>1. Outbound!TypeOK  BY LinksAssumption DEF Outbound!Init, Outbound!TypeOK, Outbound!Results
<1>2. Outbound!AnswersAreTheDaemons /\ Outbound!PendingIsUnanswered /\ CallsInOnePlace
  BY DEF Outbound!Init, Outbound!Results, Outbound!AnswersAreTheDaemons,
         Outbound!PendingIsUnanswered, CallsInOnePlace, OnItsWay
<1> QED  BY <1>1, <1>2 DEF OutboundInv

\* What the invariant says of one call.
Settled(r) ==
  /\ answer[r] \in Outbound!Results => answer[r] = outcome[r]
  /\ sentOn[r] # 0 => (r \in waiting <=> answer[r] = "none")
  /\ OnItsWay(r)

LEMMA OutboundParts ==
  /\ OutboundInv <=> Outbound!TypeOK /\ \A r \in Calls : Settled(r)
  /\ OutboundInv' <=> Outbound!TypeOK' /\ \A r \in Calls : Settled(r)'
  BY DEF OutboundInv, Outbound!AnswersAreTheDaemons, Outbound!PendingIsUnanswered,
         CallsInOnePlace, Settled

\* A step of one call that leaves the connection and the other calls alone.
LEMMA OutboundCall ==
  ASSUME OutboundInv, NEW r \in Calls,
         \/ Outbound!RequestUnavailable(r)
         \/ \E backpressure \in BOOLEAN : Outbound!Request(r, backpressure)
         \/ Outbound!Execute(r)
         \/ \E result \in Outbound!Results : Outbound!Respond(r, result)
         \/ Outbound!Receive(r) \/ Outbound!TimeOut(r)
  PROVE  OutboundInv'
<1>1. Outbound!TypeOK /\ \A q \in Calls : Settled(q)  BY OutboundParts
<1>2. Settled(r)  BY <1>1
<1> SUFFICES /\ Outbound!TypeOK' /\ Settled(r)'
             /\ \A q \in Calls \ {r} : Settled(q)'
  BY OutboundParts
<1>3. CASE Outbound!RequestUnavailable(r)
  BY <1>1, <1>2, <1>3 DEF Outbound!RequestUnavailable, Outbound!New, Outbound!TypeOK, Outbound!Results, Settled, OnItsWay
<1>4. ASSUME NEW b \in BOOLEAN, Outbound!Request(r, b)
      PROVE  /\ Outbound!TypeOK' /\ Settled(r)'
             /\ \A q \in Calls \ {r} : Settled(q)'
  BY <1>1, <1>2, <1>4 DEF Outbound!Request, Outbound!Resolve, Outbound!New, Outbound!TypeOK, Outbound!Results, Settled, OnItsWay
<1>5. CASE Outbound!Execute(r)
  BY <1>1, <1>2, <1>5 DEF Outbound!Execute, Outbound!TypeOK, Outbound!Results, Settled, OnItsWay
<1>6. ASSUME NEW result \in Outbound!Results, Outbound!Respond(r, result)
      PROVE  /\ Outbound!TypeOK' /\ Settled(r)'
             /\ \A q \in Calls \ {r} : Settled(q)'
  BY <1>1, <1>2, <1>6 DEF Outbound!Respond, Outbound!TypeOK, Outbound!Results, Settled, OnItsWay
<1>7. CASE Outbound!Receive(r)
  BY <1>1, <1>2, <1>7 DEF Outbound!Receive, Outbound!Resolve, Outbound!TypeOK, Outbound!Results, Settled, OnItsWay
<1>8. CASE Outbound!TimeOut(r)
  BY <1>1, <1>2, <1>8 DEF Outbound!TimeOut, Outbound!Resolve, Outbound!TypeOK, Outbound!Results, Settled, OnItsWay
<1> QED  BY <1>3, <1>4, <1>5, <1>6, <1>7, <1>8

LEMMA OutboundStep ==
  OutboundInv /\ [Outbound!Next]_Outbound!ovars =>
    OutboundInv'
<1> SUFFICES ASSUME OutboundInv, [Outbound!Next]_Outbound!ovars
             PROVE  OutboundInv'
  OBVIOUS
<1>1. Outbound!TypeOK /\ \A q \in Calls : Settled(q)  BY OutboundParts
<1>2. ASSUME UNCHANGED answer, Outbound!TypeOK', \A q \in Calls : Settled(q)'
      PROVE  OutboundInv'
  BY <1>2, OutboundParts
<1>3. CASE Outbound!Connect
  BY <1>1, <1>2, <1>3, LinksAssumption DEF Outbound!Connect, Outbound!TypeOK, Settled, OnItsWay
<1>4. ASSUME NEW lost \in SUBSET requests, Outbound!Drop(lost)
      PROVE  OutboundInv'
  BY <1>1, <1>2, <1>4, LinksAssumption DEF Outbound!Drop, Outbound!TypeOK, Settled, OnItsWay
<1>5. ASSUME NEW b \in Bots \cup {NoBot}, Outbound!Reassign(b)
      PROVE  OutboundInv'
  BY <1>1, <1>2, <1>5 DEF Outbound!Reassign, Outbound!TypeOK, Settled, OnItsWay
<1>6. CASE UNCHANGED Outbound!ovars
  BY <1>1, <1>2, <1>6 DEF Outbound!ovars, Outbound!TypeOK, Settled, OnItsWay
<1> QED  BY <1>3, <1>4, <1>5, <1>6, OutboundCall DEF Outbound!Next

(* The agent is told "done" or "error" only with the result the daemon produced for  *)
(* that very call, whatever drops, reconnects, timeouts and changes of the bot come   *)
(* between, and a call that was sent waits exactly while it is unanswered.            *)
THEOREM AgentHearsTheDaemon == Outbound!Spec => []AnswersAreTheDaemons
<1>1. OutboundInv => AnswersAreTheDaemons  BY DEF OutboundInv, AnswersAreTheDaemons
<1>2. OutboundInv /\ [Outbound!Next]_Outbound!ovars => OutboundInv'  BY OutboundStep
<1> QED  BY <1>1, <1>2, OutboundInit, PTL DEF Outbound!Spec

--------------------------------------------------------------------------------
(* The lease of one worktree: WorktreeLease, for any builders, agents and TTLs.      *)
(* Every operation begins with a lookup, so the lemma LeaseLooked carries most of    *)
(* the proof: a lookup finds a live lease unless it is the lease of a dead process.  *)

\* An attempt that did not lapse was heard of within its TTL.
NotYetLapsed ==
  \A b \in Builders :
    builder[b] \in {"claimed", "alive"} /\ b \notin lapsed => silent[b] < LeaseTtl

\* Its lease knows its session, so that its turns renew the lease.
BoundAtWork ==
  \A b \in Builders : builder[b] = "alive" /\ b \notin lapsed => lease.bound

LeaseInv == Lease!TypeOK /\ Lease!BuilderHoldsTree /\ Lease!NoPhantomHold /\ NotYetLapsed /\ BoundAtWork

\* The fields of a lease, and leases made of them.
LEMMA LeaseFields ==
  ASSUME NEW l \in Lease!Leases
  PROVE  /\ l.holder \in {"daemon-cron", "agent-observed"} /\ l.owner \in Lease!Workers
         /\ l.bound \in BOOLEAN /\ l.left \in 0..LeaseTtl /\ l.left \in Nat
         /\ l = [holder |-> l.holder, owner |-> l.owner, bound |-> l.bound, left |-> l.left]
<1> QED  BY LeaseAssumption DEF Lease!Leases

WithSession(l) == [l EXCEPT !.bound = TRUE]
Renewed(l) == [l EXCEPT !.left = Lease!Ttl(l)]
Shortened(l) == [l EXCEPT !.left = @ - 1]

\* The fields of the leases that the operations write.
LEMMA NoLeaseIsNone == Lease!NoLease.holder = "none" /\ Lease!NoLease \notin Lease!Leases
<1>1. Lease!NoLease.holder = "none"  BY DEF Lease!NoLease
<1> QED  BY <1>1 DEF Lease!Leases

LEMMA LeaseGranted ==
  ASSUME NEW b \in Builders
  PROVE  /\ Lease!Explicit(b) \in Lease!Leases /\ Lease!Explicit(b).holder = "daemon-cron"
         /\ Lease!Explicit(b).owner = b /\ Lease!Explicit(b).left = LeaseTtl
<1> QED  BY LeaseAssumption DEF Lease!Explicit, Lease!Leases, Lease!Workers

LEMMA LeaseCreated ==
  ASSUME NEW w \in Lease!Workers
  PROVE  /\ Lease!Observed(w) \in Lease!Leases /\ Lease!Observed(w).holder = "agent-observed"
         /\ Lease!Observed(w).owner = w /\ Lease!Observed(w).left = ObservedTtl /\ Lease!Observed(w).bound
<1> QED  BY LeaseAssumption DEF Lease!Observed, Lease!Leases

LEMMA LeaseRebound ==
  ASSUME NEW l \in Lease!Leases
  PROVE  /\ WithSession(l) \in Lease!Leases /\ WithSession(l).bound
         /\ WithSession(l).holder = l.holder /\ WithSession(l).owner = l.owner /\ WithSession(l).left = l.left
<1> QED  BY DEF WithSession, Lease!Leases

LEMMA LeaseKept ==
  ASSUME NEW l \in Lease!Leases
  PROVE  /\ Renewed(l) \in Lease!Leases /\ Renewed(l).left = Lease!Ttl(l)
         /\ Renewed(l).holder = l.holder /\ Renewed(l).owner = l.owner
         /\ Renewed(l).bound = l.bound
<1>1. Renewed(l) = [holder |-> l.holder, owner |-> l.owner, bound |-> l.bound, left |-> Lease!Ttl(l)]
  BY LeaseFields DEF Renewed
<1>2. Lease!Ttl(l) \in 0..LeaseTtl
  BY LeaseAssumption DEF Lease!Ttl
<1> QED  BY <1>1, <1>2, LeaseFields DEF Lease!Leases

LEMMA LeaseAged ==
  ASSUME NEW l \in Lease!Leases, l.left # 0
  PROVE  /\ Shortened(l) \in Lease!Leases /\ Shortened(l).left = l.left - 1
         /\ Shortened(l).holder = l.holder /\ Shortened(l).owner = l.owner
         /\ Shortened(l).bound = l.bound
<1>1. Shortened(l) = [holder |-> l.holder, owner |-> l.owner, bound |-> l.bound, left |-> l.left - 1]
  BY LeaseFields DEF Shortened
<1>2. l.left - 1 \in 0..LeaseTtl
  BY LeaseFields, LeaseAssumption
<1> QED  BY <1>1, <1>2, LeaseFields DEF Lease!Leases

\* What a lookup finds is a live lease, and it misses one only if its process is dead.
LEMMA LeaseLooked ==
  ASSUME Lease!TypeOK, NEW l \in Lease!Lookups
  PROVE  /\ l = Lease!NoLease \/ (l = lease /\ lease \in Lease!Leases /\ Lease!Live)
         /\ Lease!Live /\ ~Lease!Reapable => l = lease
<1>1. lease = Lease!NoLease \/ lease.left \in Nat
  <2> SUFFICES ASSUME lease \in Lease!Leases PROVE lease.left \in Nat  BY DEF Lease!TypeOK
  <2> QED  BY LeaseFields
<1>2. Lease!NoLease.holder = "none"  BY DEF Lease!NoLease
<1>3. lease = Lease!NoLease \/ lease.holder # "none"  BY DEF Lease!TypeOK, Lease!Leases
<1> QED  BY <1>1, <1>2, <1>3 DEF Lease!Lookups, Lease!Expired, Lease!Live, Lease!TypeOK

\* The lease of an attempt that has not lapsed is live, and found by every lookup.
LEMMA LeaseFound ==
  ASSUME LeaseInv, NEW b \in Builders, builder[b] \in {"claimed", "alive"}, b \notin lapsed,
         NEW l \in Lease!Lookups
  PROVE  l = lease /\ Lease!Live /\ Lease!OwnedByOp(lease, b) /\ lease \in Lease!Leases
<1>1. Lease!OwnedByOp(lease, b) /\ lease.left + silent[b] >= LeaseTtl /\ silent[b] < LeaseTtl
  BY DEF LeaseInv, Lease!BuilderHoldsTree, NotYetLapsed
<1>2. silent[b] \in Nat /\ LeaseTtl \in Nat  BY LeaseAssumption DEF LeaseInv, Lease!TypeOK, Lease!Workers
<1>3. lease.holder = "daemon-cron" /\ lease.owner = b  BY <1>1 DEF Lease!OwnedByOp
<1>4. lease \in Lease!Leases  BY <1>3, NoLeaseIsNone DEF LeaseInv, Lease!TypeOK
<1>5. lease.left \in Nat  BY <1>4, LeaseFields
<1>6. Lease!Live /\ ~Lease!Reapable  BY <1>1, <1>2, <1>3, <1>5 DEF Lease!Live, Lease!Reapable
<1> QED  BY <1>1, <1>4, <1>6, LeaseLooked DEF LeaseInv

--------------------------------------------------------------------------------
(* The inductive invariant, one lemma for each operation.                         *)

LEMMA LeaseInit == Lease!Init => LeaseInv
<1> SUFFICES ASSUME Lease!Init PROVE LeaseInv  OBVIOUS
<1>1. LeaseTtl \in 0..LeaseTtl  BY LeaseAssumption
<1>2. Lease!TypeOK  BY <1>1, NoLeaseIsNone DEF Lease!Init, Lease!TypeOK
<1>3. ~Lease!Live  BY NoLeaseIsNone DEF Lease!Init, Lease!Live
<1> QED  BY <1>2, <1>3 DEF Lease!Init, LeaseInv, Lease!BuilderHoldsTree, Lease!NoPhantomHold, NotYetLapsed, BoundAtWork

LEMMA LeaseClaims ==
  ASSUME LeaseInv, NEW b \in Builders, Lease!Claims(b)
  PROVE  LeaseInv'
<1>1. Lease!TypeOK'
  BY LeaseAssumption, LeaseGranted DEF LeaseInv, Lease!TypeOK, Lease!Claims, Lease!Workers
<1>2. lease'.holder = "daemon-cron" /\ lease'.owner = b /\ lease'.left = LeaseTtl
  BY LeaseGranted DEF Lease!Claims
<1>3. builder'[b] = "claimed" /\ silent'[b] = 0 /\ lapsed' = lapsed
  BY DEF Lease!Claims, LeaseInv, Lease!TypeOK, Lease!Workers
<1>4. ASSUME NEW c \in Builders, c # b
      PROVE  builder'[c] = builder[c] /\ silent'[c] = silent[c]
  BY <1>4 DEF Lease!Claims, LeaseInv, Lease!TypeOK, Lease!Workers
\* No attempt that has not lapsed is under way: its lease would have been found.
<1>5. ASSUME NEW c \in Builders, builder[c] \in {"claimed", "alive"}  PROVE c \in lapsed
  <2> SUFFICES ASSUME c \notin lapsed PROVE FALSE  OBVIOUS
  <2>1. Lease!NoLease \in Lease!Lookups  BY DEF Lease!Claims
  <2>2. Lease!NoLease = lease /\ lease \in Lease!Leases  BY <1>5, <2>1, LeaseFound
  <2> QED  BY <2>2, NoLeaseIsNone DEF Lease!Leases
<1>6. Lease!BuilderHoldsTree'
  BY <1>2, <1>3, <1>4, <1>5, LeaseAssumption DEF Lease!BuilderHoldsTree, Lease!OwnedByOp
<1>7. Lease!NoPhantomHold'  BY <1>2, <1>3 DEF Lease!NoPhantomHold
<1>8. NotYetLapsed'  BY <1>3, <1>4, <1>5, LeaseAssumption DEF NotYetLapsed
<1>9. BoundAtWork'  BY <1>3, <1>4, <1>5 DEF BoundAtWork
<1> QED  BY <1>1, <1>6, <1>7, <1>8, <1>9 DEF LeaseInv

\* An attempt that ends keeps what the others have.
LEMMA LeaseReleases ==
  ASSUME LeaseInv, NEW b \in Builders, builder[b] \in {"claimed", "dead"}, Lease!Releases(b),
         builder' = [builder EXCEPT ![b] = "done"], UNCHANGED <<working, silent, lapsed>>
  PROVE  LeaseInv'
<1>1. PICK l \in Lease!Lookups : lease' = IF Lease!OwnedByOp(l, b) THEN Lease!NoLease ELSE l  BY DEF Lease!Releases
<1>2. l = Lease!NoLease \/ (l = lease /\ lease \in Lease!Leases /\ Lease!Live)  BY <1>1, LeaseLooked DEF LeaseInv
<1>3. builder'[b] = "done" /\ \A c \in Builders : c # b => builder'[c] = builder[c]
  BY DEF LeaseInv, Lease!TypeOK
<1>4. lease' = Lease!NoLease \/ (lease' = lease /\ ~Lease!OwnedByOp(lease, b))  BY <1>1, <1>2
<1>5. Lease!TypeOK'  BY <1>4, NoLeaseIsNone DEF LeaseInv, Lease!TypeOK
<1>6. Lease!BuilderHoldsTree'
  <2> SUFFICES ASSUME NEW c \in Builders, builder'[c] \in {"claimed", "alive"}, c \notin lapsed
               PROVE  Lease!OwnedByOp(lease', c) /\ lease'.left + silent'[c] >= LeaseTtl
    BY DEF Lease!BuilderHoldsTree
  <2>1. c # b /\ builder[c] = builder'[c]  BY <1>3
  <2>2. l = lease /\ Lease!OwnedByOp(lease, c)  BY <1>1, <2>1, LeaseFound
  <2>3. lease' = lease  BY <1>1, <2>1, <2>2 DEF Lease!OwnedByOp
  <2> QED  BY <2>1, <2>3 DEF LeaseInv, Lease!BuilderHoldsTree
<1>7. Lease!NoPhantomHold'
  BY <1>3, <1>4, NoLeaseIsNone DEF LeaseInv, Lease!NoPhantomHold, Lease!Live, Lease!OwnedByOp, Lease!TypeOK, Lease!Leases
<1>8. NotYetLapsed'  BY <1>3 DEF LeaseInv, NotYetLapsed
<1>9. BoundAtWork'
  <2> SUFFICES ASSUME NEW c \in Builders, builder'[c] = "alive", c \notin lapsed PROVE lease'.bound
    BY DEF BoundAtWork
  <2>1. c # b /\ builder[c] = "alive"  BY <1>3
  <2>2. l = lease /\ Lease!OwnedByOp(lease, c)  BY <1>1, <2>1, LeaseFound
  <2>3. lease' = lease  BY <1>1, <2>1, <2>2 DEF Lease!OwnedByOp
  <2> QED  BY <2>1, <2>3 DEF LeaseInv, BoundAtWork
<1> QED  BY <1>5, <1>6, <1>7, <1>8, <1>9 DEF LeaseInv

LEMMA LeaseSpawns ==
  ASSUME LeaseInv, NEW b \in Builders, Lease!Spawns(b)
  PROVE  LeaseInv'
<1>1. PICK l \in Lease!Lookups : lease' = IF Lease!OwnedByOp(l, b) THEN WithSession(l) ELSE l
  BY DEF Lease!Spawns, Lease!Binds, WithSession
<1>2. l = Lease!NoLease \/ (l = lease /\ lease \in Lease!Leases /\ Lease!Live)  BY <1>1, LeaseLooked DEF LeaseInv
<1>3. builder[b] = "claimed" /\ builder'[b] = "alive"
      /\ \A c \in Builders : c # b => builder'[c] = builder[c]
  BY DEF Lease!Spawns, LeaseInv, Lease!TypeOK
<1>4. UNCHANGED <<working, silent, lapsed>>  BY DEF Lease!Spawns
<1>5. \/ lease' = Lease!NoLease
      \/ /\ l = lease /\ lease \in Lease!Leases /\ lease' \in Lease!Leases
         /\ lease'.holder = lease.holder /\ lease'.owner = lease.owner /\ lease'.left = lease.left
  BY <1>1, <1>2, LeaseRebound, NoLeaseIsNone DEF Lease!OwnedByOp
<1>6. Lease!TypeOK'  BY <1>3, <1>4, <1>5, NoLeaseIsNone DEF Lease!Spawns, LeaseInv, Lease!TypeOK
<1>7. Lease!BuilderHoldsTree'
  <2> SUFFICES ASSUME NEW c \in Builders, builder'[c] \in {"claimed", "alive"}, c \notin lapsed
               PROVE  Lease!OwnedByOp(lease', c) /\ lease'.left + silent'[c] >= LeaseTtl
    BY <1>4 DEF Lease!BuilderHoldsTree
  <2>1. builder[c] \in {"claimed", "alive"}  BY <1>3
  <2>2. l = lease /\ Lease!OwnedByOp(lease, c) /\ lease \in Lease!Leases  BY <1>1, <2>1, LeaseFound
  <2>3. lease'.holder = lease.holder /\ lease'.owner = lease.owner /\ lease'.left = lease.left
    BY <1>1, <2>2, LeaseRebound
  <2> QED  BY <1>4, <2>1, <2>3 DEF LeaseInv, Lease!BuilderHoldsTree, Lease!OwnedByOp
<1>8. Lease!NoPhantomHold'
  BY <1>3, <1>5, NoLeaseIsNone DEF LeaseInv, Lease!TypeOK, Lease!NoPhantomHold, Lease!Live
<1>9. NotYetLapsed'  BY <1>3, <1>4 DEF LeaseInv, NotYetLapsed
<1>10. BoundAtWork'
  <2> SUFFICES ASSUME NEW c \in Builders, builder'[c] = "alive", c \notin lapsed PROVE lease'.bound
    BY <1>4 DEF BoundAtWork
  <2>1. builder[c] \in {"claimed", "alive"}  BY <1>3
  <2>2. l = lease /\ Lease!OwnedByOp(lease, c) /\ lease \in Lease!Leases  BY <1>1, <2>1, LeaseFound
  <2>3. CASE c = b  BY <1>1, <2>2, <2>3, LeaseRebound
  <2>4. CASE c # b
    <3>1. lease' = lease  BY <1>1, <2>2, <2>4 DEF Lease!OwnedByOp
    <3> QED  BY <1>3, <2>4, <3>1 DEF LeaseInv, BoundAtWork
  <2> QED  BY <2>3, <2>4
<1> QED  BY <1>6, <1>7, <1>8, <1>9, <1>10 DEF LeaseInv

LEMMA LeaseTurn ==
  ASSUME LeaseInv, NEW w \in Lease!Workers, Lease!Turn(w)
  PROVE  LeaseInv'
<1>1. PICK l \in Lease!Lookups :
        lease' = IF l = Lease!NoLease THEN Lease!Observed(w)
                 ELSE IF Lease!OwnedBySession(l, w) THEN Renewed(l) ELSE l
  BY DEF Lease!Turn, Lease!Touch, Renewed
<1>2. l = Lease!NoLease \/ (l = lease /\ lease \in Lease!Leases /\ Lease!Live)  BY <1>1, LeaseLooked DEF LeaseInv
<1>3. UNCHANGED <<builder, working, lapsed>> /\ silent' = [silent EXCEPT ![w] = 0]  BY DEF Lease!Turn
<1>5. \/ lease' = Lease!Observed(w) /\ l = Lease!NoLease
      \/ /\ l = lease /\ lease \in Lease!Leases /\ Lease!Live /\ lease' \in Lease!Leases
         /\ lease'.holder = lease.holder /\ lease'.owner = lease.owner
         /\ IF Lease!OwnedBySession(lease, w) THEN lease'.left = Lease!Ttl(lease) ELSE lease' = lease
  BY <1>1, <1>2, LeaseKept
<1>6. Lease!TypeOK'
  <2>1. lease'.holder = "agent-observed" => lease'.left <= ObservedTtl
    BY <1>5, LeaseCreated, LeaseAssumption DEF LeaseInv, Lease!TypeOK, Lease!Ttl
  <2> QED  BY <1>3, <1>5, <2>1, LeaseCreated, LeaseAssumption DEF LeaseInv, Lease!TypeOK
<1>7. Lease!BuilderHoldsTree'
  <2> SUFFICES ASSUME NEW c \in Builders, builder[c] \in {"claimed", "alive"}, c \notin lapsed
               PROVE  Lease!OwnedByOp(lease', c) /\ lease'.left + silent'[c] >= LeaseTtl
    BY <1>3 DEF Lease!BuilderHoldsTree
  <2>1. l = lease /\ Lease!OwnedByOp(lease, c) /\ lease \in Lease!Leases  BY <1>1, LeaseFound
  <2>2. lease # Lease!NoLease  BY <2>1, NoLeaseIsNone DEF Lease!OwnedByOp
  <2>3. lease'.holder = lease.holder /\ lease'.owner = lease.owner
        /\ IF Lease!OwnedBySession(lease, w) THEN lease'.left = Lease!Ttl(lease) ELSE lease' = lease
    BY <1>5, <2>1, <2>2
  <2>4. lease.left + silent[c] >= LeaseTtl /\ builder[c] \in {"claimed", "alive"}
    BY DEF LeaseInv, Lease!BuilderHoldsTree
  <2>5. silent[c] \in Nat /\ silent' \in [Lease!Workers -> 0..LeaseTtl] /\ c \in Lease!Workers
    BY <1>6 DEF LeaseInv, Lease!TypeOK, Lease!Workers
  <2>6. CASE Lease!OwnedBySession(lease, w)
    <3>1. lease'.left = LeaseTtl  BY <2>1, <2>3, <2>6 DEF Lease!Ttl, Lease!OwnedByOp
    <3> QED  BY <2>1, <2>3, <2>5, <3>1, LeaseAssumption DEF Lease!OwnedByOp
  <2>7. CASE ~Lease!OwnedBySession(lease, w)
    <3>1. lease' = lease  BY <2>3, <2>7
    <3>2. CASE c # w
      BY <1>3, <2>1, <2>4, <2>5, <3>1, <3>2 DEF LeaseInv, Lease!TypeOK
    \* The attempt's own turn comes from its process, to which the lease is bound.
    <3>3. CASE c = w
      <4>1. builder[c] = "alive"
        BY <3>3, LeaseAssumption DEF Lease!Turn, LeaseInv, Lease!TypeOK
      <4> QED  BY <2>1, <2>2, <2>7, <3>3, <4>1 DEF LeaseInv, BoundAtWork, Lease!OwnedByOp, Lease!OwnedBySession
    <3> QED  BY <3>2, <3>3
  <2> QED  BY <2>6, <2>7
<1>8. Lease!NoPhantomHold'
  BY <1>3, <1>5, LeaseCreated DEF LeaseInv, Lease!NoPhantomHold, Lease!Live
<1>9. NotYetLapsed'
  BY <1>3, LeaseAssumption DEF LeaseInv, Lease!TypeOK, NotYetLapsed, Lease!Workers
<1>10. BoundAtWork'
  <2> SUFFICES ASSUME NEW c \in Builders, builder[c] = "alive", c \notin lapsed PROVE lease'.bound
    BY <1>3 DEF BoundAtWork
  <2>1. l = lease /\ Lease!OwnedByOp(lease, c) /\ lease \in Lease!Leases  BY <1>1, LeaseFound
  <2>2. lease # Lease!NoLease  BY <2>1, NoLeaseIsNone DEF Lease!OwnedByOp
  <2>3. lease.bound  BY DEF LeaseInv, BoundAtWork
  <2>4. lease' = IF Lease!OwnedBySession(lease, w) THEN Renewed(lease) ELSE lease
    BY <1>1, <2>1, <2>2
  <2>5. lease'.bound = lease.bound  BY <2>1, <2>4, LeaseKept
  <2> QED  BY <2>3, <2>5
<1> QED  BY <1>6, <1>7, <1>8, <1>9, <1>10 DEF LeaseInv
LEMMA LeaseTick ==
  ASSUME LeaseInv, Lease!Tick
  PROVE  LeaseInv'
<1>1. UNCHANGED <<builder, working>>  BY DEF Lease!Tick, Lease!Silence
<1>2. \A w \in Lease!Workers : silent'[w] = IF silent[w] < LeaseTtl THEN silent[w] + 1 ELSE LeaseTtl
  BY DEF Lease!Tick, Lease!Silence
<1>3. \A c \in Builders :
        c \in lapsed' <=> c \in lapsed \/ (builder[c] \in {"claimed", "alive"} /\ silent'[c] = LeaseTtl)
  BY DEF Lease!Tick, Lease!Silence
<1>4. lease' = IF lease.holder = "none" \/ lease.left = 0 THEN lease ELSE Shortened(lease)
  BY DEF Lease!Tick, Shortened
<1>5. lease \in Lease!Leases \/ lease.holder = "none"  BY NoLeaseIsNone DEF LeaseInv, Lease!TypeOK
<1>6. LeaseTtl \in Nat /\ LeaseTtl > 0 /\ \A w \in Lease!Workers : silent[w] \in 0..LeaseTtl
  BY LeaseAssumption DEF LeaseInv, Lease!TypeOK
<1>7. Lease!TypeOK'
  <2>1. lease' \in Lease!Leases \cup {Lease!NoLease} /\ (lease'.holder = "daemon-cron" => lease'.owner \in Builders)
    BY <1>4, <1>5, LeaseAged DEF LeaseInv, Lease!TypeOK
  <2>4. lease'.holder = "agent-observed" => lease'.left <= ObservedTtl
    BY <1>4, <1>5, LeaseAged, LeaseFields, LeaseAssumption DEF LeaseInv, Lease!TypeOK
  <2>2. silent' \in [Lease!Workers -> 0..LeaseTtl]  BY <1>6 DEF Lease!Tick, Lease!Silence
  <2>3. lapsed' \subseteq Builders  BY DEF Lease!Tick, Lease!Silence, LeaseInv, Lease!TypeOK
  <2> QED  BY <1>1, <2>1, <2>2, <2>3, <2>4 DEF LeaseInv, Lease!TypeOK
\* An attempt that does not lapse has a live lease, which loses what its silence gains.
<1>8. ASSUME NEW c \in Builders, builder[c] \in {"claimed", "alive"}, c \notin lapsed'
      PROVE  /\ silent'[c] = silent[c] + 1 /\ silent'[c] < LeaseTtl
             /\ Lease!OwnedByOp(lease, c) /\ lease.left + silent[c] >= LeaseTtl
             /\ lease \in Lease!Leases /\ lease.left \in Nat /\ lease' = Shortened(lease)
             /\ lease'.left = lease.left - 1 /\ lease'.holder = lease.holder
             /\ lease'.owner = lease.owner /\ lease'.bound = lease.bound
  <2>1. c \notin lapsed /\ silent'[c] # LeaseTtl /\ c \in Lease!Workers  BY <1>3, <1>8 DEF Lease!Workers
  <2>2. silent[c] < LeaseTtl  BY <1>8, <2>1 DEF LeaseInv, NotYetLapsed
  <2>3. silent'[c] = silent[c] + 1 /\ silent'[c] < LeaseTtl  BY <1>2, <1>6, <2>1, <2>2
  <2>4. Lease!OwnedByOp(lease, c) /\ lease.left + silent[c] >= LeaseTtl
    BY <1>8, <2>1 DEF LeaseInv, Lease!BuilderHoldsTree
  <2>5. lease \in Lease!Leases  BY <1>5, <2>4 DEF Lease!OwnedByOp
  <2>6. lease.left \in Nat  BY <2>5, LeaseFields
  <2>7. lease.left # 0 /\ lease.holder # "none"
    BY <1>6, <2>1, <2>2, <2>4, <2>6 DEF Lease!OwnedByOp
  <2>8. lease' = Shortened(lease)  BY <1>4, <2>7
  <2> QED  BY <2>3, <2>4, <2>5, <2>6, <2>7, <2>8, LeaseAged
<1>9. Lease!BuilderHoldsTree'
  <2> SUFFICES ASSUME NEW c \in Builders, builder[c] \in {"claimed", "alive"}, c \notin lapsed'
               PROVE  Lease!OwnedByOp(lease', c) /\ lease'.left + silent'[c] >= LeaseTtl
    BY <1>1 DEF Lease!BuilderHoldsTree
  <2>1. c \in Lease!Workers  BY DEF Lease!Workers
  <2> QED  BY <1>6, <1>8, <2>1 DEF Lease!OwnedByOp
<1>10. Lease!NoPhantomHold'
  <2>1. (lease'.holder = lease.holder /\ lease'.owner = lease.owner) \/ lease' = lease
    BY <1>4, <1>5, LeaseAged
  <2>2. Lease!Live' => Lease!Live
    BY <1>4, <1>5, LeaseAged, LeaseFields DEF Lease!Live
  <2> QED  BY <1>1, <2>1, <2>2 DEF LeaseInv, Lease!NoPhantomHold
<1>11. NotYetLapsed'  BY <1>1, <1>8 DEF NotYetLapsed
<1>12. BoundAtWork'
  <2> SUFFICES ASSUME NEW c \in Builders, builder[c] = "alive", c \notin lapsed' PROVE lease'.bound
    BY <1>1 DEF BoundAtWork
  <2>1. c \notin lapsed  BY <1>3
  <2> QED  BY <1>8, <2>1 DEF LeaseInv, BoundAtWork
<1> QED  BY <1>7, <1>9, <1>10, <1>11, <1>12 DEF LeaseInv
LEMMA LeaseDies ==
  ASSUME LeaseInv, NEW b \in Builders, Lease!Dies(b)
  PROVE  LeaseInv'
<1>1. builder'[b] \in {"dead", "done"} /\ (builder[b] = "alive" => builder'[b] = "dead")
      /\ builder[b] \in {"alive", "orphan"} /\ \A c \in Builders : c # b => builder'[c] = builder[c]
  BY DEF Lease!Dies, LeaseInv, Lease!TypeOK
<1>2. UNCHANGED <<lease, working, silent, lapsed>>  BY DEF Lease!Dies
<1>3. Lease!TypeOK'  BY <1>1, <1>2 DEF Lease!Dies, LeaseInv, Lease!TypeOK
<1>4. Lease!BuilderHoldsTree'  BY <1>1, <1>2 DEF LeaseInv, Lease!BuilderHoldsTree
<1>5. Lease!NoPhantomHold'  BY <1>1, <1>2 DEF LeaseInv, Lease!TypeOK, Lease!NoPhantomHold, Lease!Live
<1>6. NotYetLapsed'  BY <1>1, <1>2 DEF LeaseInv, NotYetLapsed
<1>7. BoundAtWork'  BY <1>1, <1>2 DEF LeaseInv, BoundAtWork
<1> QED  BY <1>3, <1>4, <1>5, <1>6, <1>7 DEF LeaseInv

LEMMA LeaseRestart ==
  ASSUME LeaseInv, Lease!Restart
  PROVE  LeaseInv'
<1>1. \A b \in Builders : builder'[b] \in {"idle", "orphan", "done"}  BY DEF Lease!Restart
<1>2. builder' \in [Builders -> {"idle", "orphan", "done"}]  BY DEF Lease!Restart
<1>3. lease' = Lease!NoLease /\ UNCHANGED <<working, silent, lapsed>>  BY DEF Lease!Restart
<1>4. Lease!TypeOK'  BY <1>2, <1>3, NoLeaseIsNone DEF LeaseInv, Lease!TypeOK
<1> QED
  BY <1>1, <1>3, <1>4, NoLeaseIsNone
  DEF LeaseInv, Lease!BuilderHoldsTree, Lease!NoPhantomHold, NotYetLapsed, BoundAtWork, Lease!Live

LEMMA LeaseAgents ==
  ASSUME LeaseInv, NEW a \in Agents, Lease!Arrives(a) \/ Lease!Leaves(a)
  PROVE  LeaseInv'
<1>1. UNCHANGED <<lease, builder, silent, lapsed>> /\ working' \subseteq Agents
  BY DEF Lease!Arrives, Lease!Leaves, LeaseInv, Lease!TypeOK
<1> QED
  BY <1>1 DEF LeaseInv, Lease!TypeOK, Lease!BuilderHoldsTree, Lease!NoPhantomHold, NotYetLapsed, BoundAtWork, Lease!Live

LEMMA LeaseStep == LeaseInv /\ [Lease!Next]_(Lease!vars) => LeaseInv'
<1> SUFFICES ASSUME LeaseInv, [Lease!Next]_(Lease!vars) PROVE LeaseInv'  OBVIOUS
<1>1. CASE UNCHANGED Lease!vars
  BY <1>1 DEF Lease!vars, LeaseInv, Lease!TypeOK, Lease!BuilderHoldsTree, Lease!NoPhantomHold, NotYetLapsed, BoundAtWork, Lease!Live
<1>2. ASSUME NEW b \in Builders, Lease!Claims(b) PROVE LeaseInv'  BY <1>2, LeaseClaims
<1>3. ASSUME NEW b \in Builders, Lease!SpawnThrows(b) \/ Lease!Ends(b) PROVE LeaseInv'
  BY <1>3, LeaseReleases DEF Lease!SpawnThrows, Lease!Ends
<1>4. ASSUME NEW b \in Builders, Lease!Spawns(b) PROVE LeaseInv'  BY <1>4, LeaseSpawns
<1>5. ASSUME NEW b \in Builders, Lease!Dies(b) PROVE LeaseInv'  BY <1>5, LeaseDies
<1>6. ASSUME NEW w \in Lease!Workers, Lease!Turn(w) PROVE LeaseInv'  BY <1>6, LeaseTurn
<1>7. ASSUME NEW a \in Agents, Lease!Arrives(a) \/ Lease!Leaves(a) PROVE LeaseInv'  BY <1>7, LeaseAgents
<1>8. CASE Lease!Tick  BY <1>8, LeaseTick
<1>9. CASE Lease!Restart  BY <1>9, LeaseRestart
<1> QED  BY <1>1, <1>2, <1>3, <1>4, <1>5, <1>6, <1>7, <1>8, <1>9 DEF Lease!Next

LEMMA LeaseInvariance == Lease!Spec => []LeaseInv
<1> QED  BY LeaseInit, LeaseStep, PTL DEF Lease!Spec

--------------------------------------------------------------------------------
(* The theorems.                                                                  *)

\* The store and the attempts keep their types; an explicit lease is a builder's.
THEOREM LeaseTypes == Lease!Spec => []Lease!TypeOK
<1>1. LeaseInv => Lease!TypeOK  BY DEF LeaseInv
<1> QED  BY <1>1, LeaseInvariance, PTL

\* A builder that does not lapse has the tree's live lease from claim_pr_worktree to its
\* exit, for any number of builders, agents and restarts (acquire, bind_session,
\* touch_observed, live_lease).
THEOREM Mutex == Lease!Spec => []BuilderHoldsTree
<1>1. LeaseInv => BuilderHoldsTree  BY DEF LeaseInv, BuilderHoldsTree
<1> QED  BY <1>1, LeaseInvariance, PTL

\* Two builders of one daemon are never at work in the tree together but for one that
\* was silent for its whole TTL.
THEOREM OneBuilder == Lease!Spec => []Lease!NoTwoBuilders
<1>1. LeaseInv => Lease!NoTwoBuilders
  BY DEF LeaseInv, Lease!BuilderHoldsTree, Lease!NoTwoBuilders, Lease!OwnedByOp
<1> QED  BY <1>1, LeaseInvariance, PTL

\* Each way out of spawn_external_pr_fixer gives the explicit lease back.
THEOREM NoPhantom == Lease!Spec => []NoPhantomHold
<1>1. LeaseInv => NoPhantomHold  BY DEF LeaseInv, NoPhantomHold
<1> QED  BY <1>1, LeaseInvariance, PTL

\* No release, claim or turn of another touches the observed hold of a session.
THEOREM ObservedHold == Lease!Spec => ObservedHoldKept
<1> DEFINE Held(w) == Lease!Live /\ lease.holder = "agent-observed" /\ Lease!OwnedBySession(lease, w)
           Keeps(w) == Lease!OwnedBySession(lease', w) /\ lease'.left >= lease.left - 1
<1>1. ASSUME LeaseInv, [Lease!Next]_(Lease!vars), NEW w \in Lease!Workers, Held(w), ~Lease!Restart  PROVE Keeps(w)
  <2>1. lease \in Lease!Leases /\ lease.left \in Nat  BY <1>1, NoLeaseIsNone, LeaseFields DEF LeaseInv, Lease!TypeOK
  <2>2. ~Lease!Reapable /\ ~Lease!Expired  BY <1>1, <2>1 DEF Lease!Reapable, Lease!Expired, Lease!Live
  <2>3. Lease!Lookups = {lease}  BY <2>2 DEF Lease!Lookups
  <2>4. lease # Lease!NoLease  BY <2>1, NoLeaseIsNone
  <2>5. lease' = lease => Keeps(w)  BY <1>1, <2>1
  <2>6. CASE UNCHANGED Lease!vars  BY <2>5, <2>6 DEF Lease!vars
  <2>7. ASSUME NEW b \in Builders, Lease!Claims(b) PROVE FALSE  BY <2>3, <2>4, <2>7 DEF Lease!Claims
  <2>8. ASSUME NEW b \in Builders, Lease!SpawnThrows(b) \/ Lease!Ends(b) PROVE Keeps(w)
    BY <1>1, <2>3, <2>5, <2>8 DEF Lease!SpawnThrows, Lease!Ends, Lease!Releases, Lease!OwnedByOp
  <2>9. ASSUME NEW b \in Builders, Lease!Spawns(b) PROVE Keeps(w)
    BY <1>1, <2>3, <2>5, <2>9 DEF Lease!Spawns, Lease!Binds, Lease!OwnedByOp
  <2>10. ASSUME NEW u \in Lease!Workers, Lease!Turn(u) PROVE Keeps(w)
    <3>1. lease' = lease \/ lease' = Renewed(lease)
      BY <2>3, <2>4, <2>10 DEF Lease!Turn, Lease!Touch, Renewed
    <3>2. CASE lease' = lease  BY <2>5, <3>2
    <3>3. CASE lease' = Renewed(lease)
      <4>1. lease'.owner = lease.owner /\ lease'.holder = lease.holder /\ lease'.bound = lease.bound
            /\ lease'.left = Lease!Ttl(lease)
        BY <2>1, <3>3, LeaseKept
      <4>2. lease.left <= ObservedTtl  BY <1>1 DEF LeaseInv, Lease!TypeOK
      <4> QED  BY <1>1, <2>1, <4>1, <4>2, LeaseAssumption DEF Lease!OwnedBySession, Lease!Ttl
    <3> QED  BY <3>1, <3>2, <3>3
  <2>11. CASE Lease!Tick
    <3>1. lease' = Shortened(lease)  BY <1>1, <2>1, <2>11 DEF Lease!Tick, Shortened, Lease!Live
    <3>2. lease.left # 0  BY <1>1, <2>1 DEF Lease!Live
    <3> QED  BY <1>1, <2>1, <3>1, <3>2, LeaseAged DEF Lease!OwnedBySession
  <2>12. ASSUME NEW b \in Builders, Lease!Dies(b) PROVE Keeps(w)  BY <2>5, <2>12 DEF Lease!Dies
  <2>13. ASSUME NEW a \in Agents, Lease!Arrives(a) \/ Lease!Leaves(a) PROVE Keeps(w)
    BY <2>5, <2>13 DEF Lease!Arrives, Lease!Leaves
  <2> QED  BY <1>1, <2>6, <2>7, <2>8, <2>9, <2>10, <2>11, <2>12, <2>13 DEF Lease!Next
<1>2. LeaseInv /\ [Lease!Next]_(Lease!vars) =>
        [\A w \in Lease!Workers : Held(w) /\ ~Lease!Restart => Keeps(w)]_(Lease!vars)
  BY <1>1
<1> QED  BY <1>2, LeaseInvariance, PTL DEF Lease!Spec, ObservedHoldKept, Lease!ObservedHoldKept
================================================================================
