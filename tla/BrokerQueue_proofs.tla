-------------------------- MODULE BrokerQueue_proofs ---------------------------
(* Proofs about BrokerQueue, for any number of channels, messages, attempts and   *)
(* daemon lives.                                                                  *)
EXTENDS BrokerQueue, TLAPS

--------------------------------------------------------------------------------
(* The operators the handlers are built from.                                     *)

LEMMA AttemptType ==
  ASSUME NEW x \in Entry
  PROVE  /\ Attempt(x) \in Entry
         /\ Attempt(x).chan = x.chan
         /\ Attempt(x).status \in {"delivered", "dead"}
         /\ Attempt(x).status = "dead" => Attempt(x).deliveries = MaxDeliveries
<1>1. x.deliveries \in Nat /\ x.deliveries <= MaxDeliveries /\ MaxDeliveries \in Nat
  BY EntriesAssumption, QueueAssumption DEF Entry
<1>2. CASE x.deliveries >= MaxDeliveries
  <2>1. x.deliveries = MaxDeliveries
    BY <1>1, <1>2
  <2>2. Attempt(x) = [x EXCEPT !.status = "dead"]
    BY <1>2 DEF Attempt
  <2> QED BY <2>1, <2>2 DEF Entry, Status
<1>3. CASE ~(x.deliveries >= MaxDeliveries)
  <2>1. x.deliveries + 1 \in 0..MaxDeliveries
    BY <1>1, <1>3
  <2>2. Attempt(x) = [x EXCEPT !.status = "delivered", !.deliveries = x.deliveries + 1]
    BY <1>3 DEF Attempt
  <2> QED BY <2>1, <2>2 DEF Entry, Status
<1> QED BY <1>2, <1>3

LEMMA AttemptedType ==
  ASSUME NEW e \in [Msgs -> Entry], NEW S
  PROVE  /\ Attempted(e, S) \in [Msgs -> Entry]
         /\ \A m \in Msgs : Attempted(e, S)[m].chan = e[m].chan
  BY AttemptType DEF Attempted

LEMMA KilledType ==
  ASSUME entry \in [Msgs -> Entry], NEW S
  PROVE  /\ Killed(S) \in [Msgs -> Entry]
         /\ \A m \in Msgs : Killed(S)[m].chan = entry[m].chan
  BY DEF Killed, Entry, Status

LEMMA EnqueuedType ==
  ASSUME entry \in [Msgs -> Entry], NEW c \in Channels, next \in Msgs
  PROVE  /\ Enqueued(c) \in [Msgs -> Entry]
         /\ Enqueued(c)[next] = [chan |-> c, status |-> "pending", deliveries |-> 0]
         /\ \A m \in Msgs : m # next => Enqueued(c)[m] = entry[m]
  BY EntriesAssumption, QueueAssumption DEF Enqueued, Entry, Status

LEMMA EmptyType == NoEntry \in Entry /\ Empty \in [Msgs -> Entry]
  BY EntriesAssumption, QueueAssumption DEF Empty, NoEntry, Entry, Status

LEMMA HelperSets ==
  ASSUME NEW e, NEW q, q \subseteq Msgs, NEW C
  PROVE  Deliverable(e, q, C) \subseteq q
  BY DEF Deliverable, Due

\* The type of the persistence variables, and what a call of schedule_persist
\* does to it.
WritingType ==
  /\ writer \in {"idle", "mkdir", "writing"} /\ pending \in BOOLEAN
  /\ snapKeys \subseteq Msgs /\ snap \in [Msgs -> Entry]

LEMMA SchedulePersistType ==
  ASSUME WritingType, queued' \subseteq Msgs, NEW once \in BOOLEAN, NEW again \in BOOLEAN,
         SchedulePersist(once, again)
  PROVE  WritingType'
  BY DEF WritingType, SchedulePersist, writing

--------------------------------------------------------------------------------
(* Type correctness.                                                              *)

LEMMA TypeInit == Init => TypeOK
<1> SUFFICES ASSUME Init PROVE TypeOK
  OBVIOUS
<1>1. next \in 1..(MaxMsgs + 1) /\ starts \in 0..MaxStarts
  BY EntriesAssumption, QueueAssumption DEF Init
<1>2. entry \in [Msgs -> Entry] /\ snap \in [Msgs -> Entry] /\ disk \in [Msgs -> Entry]
  BY EmptyType DEF Init
<1> QED BY <1>1, <1>2 DEF Init, TypeOK

LEMMA TypeStep == TypeOK /\ [Next]_qvars => TypeOK'
<1> SUFFICES ASSUME TypeOK, [Next]_qvars PROVE TypeOK'
  OBVIOUS
<1> USE DEF TypeOK, Live
<1>1. ASSUME NEW c \in Channels, NEW connected \in BOOLEAN, Feed(c, connected) PROVE TypeOK'
  <2> DEFINE e == Enqueued(c)
             due == IF connected THEN Deliverable(e, queued \cup {next}, {c}) ELSE {}
  <2>1. e \in [Msgs -> Entry]
    BY <1>1, EnqueuedType DEF Feed
  <2>2. entry' \in [Msgs -> Entry]
    BY <1>1, <2>1, AttemptedType DEF Feed
  <2>3. next \in Msgs /\ next' = next + 1 /\ queued' = queued \cup {next}
    BY <1>1 DEF Feed
  <2>4. next' \in 1..(MaxMsgs + 1)
    BY <2>3, EntriesAssumption, QueueAssumption DEF Msgs
  <2>5. queued' \subseteq Msgs /\ due \subseteq Msgs
    BY <2>3 DEF Deliverable, Due
  <2>6. WritingType'
    BY <1>1, <2>5, SchedulePersistType DEF Feed, WritingType
  <2> QED BY <1>1, <2>2, <2>4, <2>5, <2>6 DEF Feed, Refused, Sent, WritingType, storage
<1>2. ASSUME NEW C \in SUBSET Channels, Deliver(C) PROVE TypeOK'
  <2> DEFINE due == Deliverable(entry, queued, C)
  <2>1. entry' \in [Msgs -> Entry] /\ queued' \subseteq Msgs /\ due \subseteq Msgs
    BY <1>2, AttemptedType DEF Deliver, Deliverable, Due
  <2>2. WritingType'
    BY <1>2, <2>1, SchedulePersistType DEF Deliver, WritingType, Several
  <2> QED BY <1>2, <2>1, <2>2 DEF Deliver, Refused, Sent, WritingType, storage
<1>3. ASSUME NEW C \in SUBSET Channels, SweepQueue(C) PROVE TypeOK'
  <2> DEFINE due == Deliverable(Killed(Expired), queued, C)
  <2>1. entry' \in [Msgs -> Entry] /\ queued' \subseteq Msgs /\ due \subseteq Msgs
    BY <1>3, AttemptedType, KilledType DEF SweepQueue, Deliverable, Due
  <2>2. WritingType'
    BY <1>3, <2>1, SchedulePersistType DEF SweepQueue, WritingType, Several
  <2> QED BY <1>3, <2>1, <2>2 DEF SweepQueue, Refused, Sent, Expired, WritingType, storage
<1>4. ASSUME NEW m \in Msgs, Ack(m) PROVE TypeOK'
  <2>1. queued' \subseteq Msgs
    BY <1>4 DEF Ack
  <2>2. WritingType'
    <3>1. CASE m \in queued
      BY <1>4, <3>1, <2>1 DEF Ack, SchedulePersist, writing, WritingType
    <3>2. CASE m \notin queued
      BY <1>4, <3>2, <2>1 DEF Ack, SchedulePersist, writing, WritingType
    <3> QED BY <3>1, <3>2
  <2> QED BY <1>4, <2>1, <2>2 DEF Ack, WritingType, storage
<1>5. ASSUME NEW c \in Channels, ClearChannel(c) PROVE TypeOK'
  <2>1. queued' \subseteq Msgs
    BY <1>5 DEF ClearChannel
  <2>2. WritingType'
    BY <1>5, <2>1, SchedulePersistType DEF ClearChannel, WritingType
  <2> QED BY <1>5, <2>1, <2>2 DEF ClearChannel, WritingType, storage
<1>6. CASE Serialize
  BY <1>6, EmptyType DEF Serialize, memory, storage, history
<1>7. CASE WriteLands
  BY <1>7, EmptyType DEF WriteLands, NextIteration, memory, history
<1>8. CASE WriteFails
  BY <1>8, EmptyType DEF WriteFails, NextIteration, memory, history
<1>9. CASE ClockStep
  BY <1>9 DEF ClockStep, WindowElapses, Ages, memory, writing, storage, history
<1>10. CASE StopBegin
  <2>1. queued' \subseteq Msgs
    BY <1>10 DEF StopBegin
  <2>2. WritingType'
    BY <1>10, <2>1, SchedulePersistType DEF StopBegin, WritingType
  <2> QED BY <1>10, <2>1, <2>2 DEF StopBegin, WritingType, storage, history
<1>11. CASE StopDone
  BY <1>11, EmptyType DEF StopDone, Forget, storage, history
<1>12. CASE Crash
  BY <1>12, EmptyType DEF Crash, Forget, storage, history
<1>13. CASE Start
  <2>1. Recoverable \subseteq Msgs
    BY DEF Recoverable, OnDisk
  <2>2. entry' \in [Msgs -> Entry]
    BY <1>13, EmptyType DEF Start, Entry, Status
  <2>3. starts' \in 0..MaxStarts
    BY <1>13, EntriesAssumption, QueueAssumption DEF Start
  <2> QED BY <1>13, <2>1, <2>2, <2>3 DEF Start, writing, history
<1>14. CASE UNCHANGED qvars
  BY <1>14 DEF qvars, memory, writing, storage, history
<1> QED
  BY <1>1, <1>2, <1>3, <1>4, <1>5, <1>6, <1>7, <1>8, <1>9, <1>10, <1>11, <1>12, <1>13, <1>14
  DEF Next, WriterStep, LifeStep

\* Every variable of the queue keeps its type, in particular no entry ever counts
\* more attempts than max_deliveries allows.
THEOREM TypeCorrect == Spec => []TypeOK
  BY TypeInit, TypeStep, PTL DEF Spec

--------------------------------------------------------------------------------
(* Nothing durable is lost.                                                       *)
(*                                                                               *)
(* LandedIsKept is not inductive: it says nothing of a write in flight, which may *)
(* replace the file by a snapshot taken before a message was settled, or after.   *)
(* KeepInv follows the durable unsettled messages through the whole pipeline:     *)
(* the Map, the copied keys, the serialized snapshot, the file.                   *)

Unsettled == landed \ settled

KeepInv ==
  /\ \A m \in queued \cup settled \cup landed : m < next
  /\ \A m \in queued : /\ entry[m].chan \in Channels
                       /\ entry[m].status = "dead" <=> m \in settled
  /\ OnDisk \subseteq landed
  /\ Running => Unsettled \subseteq queued
  /\ ~Running => queued = {} /\ writer = "idle"
  /\ Unsettled \subseteq Recoverable
  /\ writer = "mkdir" =>
       /\ \A m \in snapKeys : m \in queued \cup settled /\ entry[m].chan \in Channels
       /\ Unsettled \subseteq snapKeys
  /\ writer = "writing" =>
       /\ \A m \in Msgs : snap[m].chan # NoChannel =>
            /\ m \in queued \cup settled
            /\ snap[m].status = "dead" => m \in settled
       /\ \A m \in Unsettled : snap[m].chan # NoChannel /\ snap[m].status # "dead"

\* What every handler of the running daemon does to the queue, whatever it is
\* called for.
HandlerEffect ==
  /\ Running /\ Running'
  /\ UNCHANGED <<disk, landed>>
  /\ next' = next \/ next' = next + 1
  /\ \A m \in queued' : m \in queued \/ (m = next /\ next' = next + 1)
  /\ next' # next => next \in queued'
  /\ settled \subseteq settled'
  /\ \A m \in settled' : m \in settled \cup queued \/ (m = next /\ next' = next + 1)
  /\ \A m \in settled' \ settled : m \notin queued' \/ entry'[m].status = "dead"
  /\ \A m \in queued : m \notin queued' => m \in settled'
  /\ \A m \in queued' :
       /\ entry'[m].status = "dead" =>
            m \in settled' \/ (m \in queued /\ entry[m].status = "dead")
       /\ entry'[m].chan \in Channels
  /\ \A m \in queued : entry[m].status = "dead" => entry'[m].status = "dead"
  /\ \A m \in Msgs : m < next => entry'[m].chan = entry[m].chan
  /\ \/ UNCHANGED <<writer, snapKeys, snap>>
     \/ writer = "idle" /\ writer' = "mkdir" /\ snapKeys' = queued'

LEMMA SchedulePersistEffect ==
  ASSUME NEW once \in BOOLEAN, NEW again \in BOOLEAN, SchedulePersist(once, again)
  PROVE  \/ UNCHANGED <<writer, snapKeys, snap>>
         \/ writer = "idle" /\ writer' = "mkdir" /\ snapKeys' = queued'
  BY DEF SchedulePersist, writing

LEMMA AttemptedEffect ==
  ASSUME NEW e \in [Msgs -> Entry], NEW q \in SUBSET Msgs, NEW C, NEW m \in Msgs
  PROVE  LET due == Deliverable(e, q, C) IN
         /\ e[m].status = "dead" => Attempted(e, due)[m] = e[m]
         /\ m \in Refused(e, due) => m \in q /\ Attempted(e, due)[m].status = "dead"
         /\ Attempted(e, due)[m].status = "dead" =>
              m \in Refused(e, due) \/ e[m].status = "dead"
  BY DEF Attempted, Refused, Deliverable, Due

LEMMA FeedEffect ==
  ASSUME TypeOK, KeepInv, NEW c \in Channels, NEW connected \in BOOLEAN, Feed(c, connected)
  PROVE  HandlerEffect
<1> DEFINE e == Enqueued(c)
           due == IF connected THEN Deliverable(e, queued \cup {next}, {c}) ELSE {}
<1>1. /\ Running /\ Running' /\ UNCHANGED <<disk, landed>> /\ next \in Msgs
      /\ next' = next + 1 /\ queued' = queued \cup {next}
      /\ entry' = Attempted(e, due) /\ settled' = settled \cup Refused(e, due)
      /\ due \subseteq queued \cup {next}
  BY DEF Feed, Running, storage, Deliverable, Due
<1>2. /\ e \in [Msgs -> Entry]
      /\ e[next] = [chan |-> c, status |-> "pending", deliveries |-> 0]
      /\ \A m \in Msgs : m # next => e[m] = entry[m]
  BY <1>1, EnqueuedType DEF TypeOK
<1>3. /\ \A m \in Msgs : entry'[m].chan = e[m].chan
      /\ queued \subseteq Msgs /\ next \in Nat
  BY <1>1, <1>2, AttemptedType DEF TypeOK
<1>4. \A m \in Msgs :
         /\ e[m].status = "dead" => entry'[m].status = "dead"
         /\ m \in Refused(e, due) => entry'[m].status = "dead"
         /\ entry'[m].status = "dead" => m \in Refused(e, due) \/ e[m].status = "dead"
  <2>1. CASE connected
    <3>1. queued \cup {next} \in SUBSET Msgs
      BY <1>1, <1>3
    <3> QED BY <1>1, <1>2, <2>1, <3>1, AttemptedEffect
  <2>2. CASE ~connected
    BY <1>1, <1>2, <2>2 DEF Attempted, Refused
  <2> QED BY <2>1, <2>2
<1>5. Refused(e, due) \subseteq queued \cup {next}
  BY <1>1 DEF Refused
<1>6. \A m \in queued : m # next
  BY <1>3 DEF KeepInv
<1>7. \/ UNCHANGED <<writer, snapKeys, snap>>
      \/ writer = "idle" /\ writer' = "mkdir" /\ snapKeys' = queued'
  BY SchedulePersistEffect DEF Feed
<1> HIDE DEF e, due
<1>8. ASSUME NEW m \in queued'
      PROVE  /\ entry'[m].status = "dead" =>
                  m \in settled' \/ (m \in queued /\ entry[m].status = "dead")
             /\ entry'[m].chan \in Channels
  <2>1. CASE m = next
    BY <1>1, <1>2, <1>3, <1>4, <2>1
  <2>2. CASE m \in queued
    BY <1>1, <1>2, <1>3, <1>4, <1>6, <2>2 DEF KeepInv
  <2> QED BY <1>1, <2>1, <2>2
<1>9. \A m \in queued : entry[m].status = "dead" => entry'[m].status = "dead"
  BY <1>2, <1>3, <1>4, <1>6
<1>10. \A m \in Msgs : m < next => m # next
  BY <1>3 DEF Msgs
<1>11. \A m \in Msgs : m < next => entry'[m].chan = entry[m].chan
  BY <1>2, <1>3, <1>10
<1>12. \A m \in settled' : m \in settled \cup queued \/ (m = next /\ next' = next + 1)
  BY <1>1, <1>5
<1>13. \A m \in settled' \ settled : entry'[m].status = "dead"
  BY <1>1, <1>3, <1>4, <1>5
<1> QED BY <1>1, <1>7, <1>8, <1>9, <1>11, <1>12, <1>13 DEF HandlerEffect

LEMMA DeliverEffect ==
  ASSUME TypeOK, KeepInv, NEW C \in SUBSET Channels, Deliver(C)
  PROVE  HandlerEffect
<1> DEFINE due == Deliverable(entry, queued, C)
<1>1. /\ Running /\ Running' /\ UNCHANGED <<disk, landed>>
      /\ next' = next /\ queued' = queued
      /\ entry' = Attempted(entry, due) /\ settled' = settled \cup Refused(entry, due)
  BY DEF Deliver, Running, storage
<1>2. /\ \A m \in Msgs : entry'[m].chan = entry[m].chan
      /\ queued \subseteq Msgs
  BY <1>1, AttemptedType DEF TypeOK
<1>3. \A m \in Msgs :
         /\ entry[m].status = "dead" => entry'[m].status = "dead"
         /\ m \in Refused(entry, due) => m \in queued /\ entry'[m].status = "dead"
         /\ entry'[m].status = "dead" => m \in Refused(entry, due) \/ entry[m].status = "dead"
  BY <1>1, AttemptedEffect DEF TypeOK
<1>4. Refused(entry, due) \subseteq queued
  BY DEF Refused, Deliverable, Due
<1>5. \/ UNCHANGED <<writer, snapKeys, snap>>
      \/ writer = "idle" /\ writer' = "mkdir" /\ snapKeys' = queued'
  BY SchedulePersistEffect DEF Deliver, Several
<1> HIDE DEF due
<1>6. \A m \in queued' :
        /\ entry'[m].status = "dead" =>
             m \in settled' \/ (m \in queued /\ entry[m].status = "dead")
        /\ entry'[m].chan \in Channels
  BY <1>1, <1>2, <1>3 DEF KeepInv
<1>7. \A m \in settled' : m \in settled \cup queued /\ (m \notin settled => entry'[m].status = "dead")
  BY <1>1, <1>2, <1>3, <1>4
<1> QED BY <1>1, <1>2, <1>3, <1>5, <1>6, <1>7 DEF HandlerEffect

LEMMA SweepEffect ==
  ASSUME TypeOK, KeepInv, NEW C \in SUBSET Channels, SweepQueue(C)
  PROVE  HandlerEffect
<1> DEFINE e == Killed(Expired)
           due == Deliverable(e, queued, C)
<1>1. /\ Running /\ Running' /\ UNCHANGED <<disk, landed>>
      /\ next' = next /\ queued' = queued
      /\ entry' = Attempted(e, due)
      /\ settled' = settled \cup Expired \cup Refused(e, due)
  BY DEF SweepQueue, Running, storage
<1>2. /\ e \in [Msgs -> Entry] /\ queued \subseteq Msgs
      /\ Expired \subseteq queued /\ Refused(e, due) \subseteq queued
  BY KilledType DEF TypeOK, Expired, Live, Refused, Deliverable, Due
<1>3. \A m \in Msgs : entry'[m].chan = entry[m].chan
  BY <1>1, <1>2, KilledType, AttemptedType DEF TypeOK
<1>4. \A m \in Msgs :
        /\ m \in Expired => e[m].status = "dead"
        /\ m \notin Expired => e[m] = entry[m]
  BY DEF Killed, TypeOK, Entry
<1>5. \A m \in Msgs :
         /\ e[m].status = "dead" => entry'[m].status = "dead"
         /\ m \in Refused(e, due) => entry'[m].status = "dead"
         /\ entry'[m].status = "dead" => m \in Refused(e, due) \/ e[m].status = "dead"
  BY <1>1, <1>2, AttemptedEffect
<1>6. \/ UNCHANGED <<writer, snapKeys, snap>>
      \/ writer = "idle" /\ writer' = "mkdir" /\ snapKeys' = queued'
  BY SchedulePersistEffect DEF SweepQueue, Several
<1> HIDE DEF e, due
<1>7. \A m \in queued' :
        /\ entry'[m].status = "dead" =>
             m \in settled' \/ (m \in queued /\ entry[m].status = "dead")
        /\ entry'[m].chan \in Channels
  BY <1>1, <1>2, <1>3, <1>4, <1>5 DEF KeepInv
<1>8. \A m \in queued : entry[m].status = "dead" => entry'[m].status = "dead"
  BY <1>2, <1>4, <1>5
<1>9. \A m \in settled' : m \in settled \cup queued /\ (m \notin settled => entry'[m].status = "dead")
  BY <1>1, <1>2, <1>4, <1>5
<1> QED BY <1>1, <1>3, <1>6, <1>7, <1>8, <1>9 DEF HandlerEffect

LEMMA AckEffect ==
  ASSUME TypeOK, KeepInv, NEW m \in Msgs, Ack(m)
  PROVE  HandlerEffect
<1>1. /\ Running /\ Running' /\ UNCHANGED <<disk, landed, entry>> /\ next' = next
      /\ queued' = queued \ {m} /\ settled' = settled \cup (queued \cap {m})
  BY DEF Ack, Running, storage
<1>2. \/ UNCHANGED <<writer, snapKeys, snap>>
      \/ writer = "idle" /\ writer' = "mkdir" /\ snapKeys' = queued'
  BY DEF Ack, SchedulePersist, writing
<1> QED BY <1>1, <1>2 DEF HandlerEffect, KeepInv

LEMMA ClearChannelEffect ==
  ASSUME TypeOK, KeepInv, NEW c \in Channels, ClearChannel(c)
  PROVE  HandlerEffect
<1> DEFINE gone == {m \in queued : entry[m].chan = c}
<1>1. /\ Running /\ Running' /\ UNCHANGED <<disk, landed, entry>> /\ next' = next
      /\ queued' = queued \ gone /\ settled' = settled \cup gone
  BY DEF ClearChannel, Running, storage
<1>2. \/ UNCHANGED <<writer, snapKeys, snap>>
      \/ writer = "idle" /\ writer' = "mkdir" /\ snapKeys' = queued'
  BY SchedulePersistEffect DEF ClearChannel
<1>3. gone \subseteq queued
  OBVIOUS
<1> HIDE DEF gone
<1> QED BY <1>1, <1>2, <1>3 DEF HandlerEffect, KeepInv

LEMMA StopBeginEffect ==
  ASSUME TypeOK, KeepInv, StopBegin
  PROVE  HandlerEffect
<1>1. /\ Running /\ Running' /\ UNCHANGED <<disk, landed, entry, settled, next, queued>>
  BY DEF StopBegin, Running, storage, history
<1>2. \/ UNCHANGED <<writer, snapKeys, snap>>
      \/ writer = "idle" /\ writer' = "mkdir" /\ snapKeys' = queued'
  BY SchedulePersistEffect DEF StopBegin
<1> QED BY <1>1, <1>2 DEF HandlerEffect, KeepInv

\* Every step is a handler, a step of the writer or the clock, or the daemon going
\* down or up.
LEMMA StepCases ==
  ASSUME TypeOK, KeepInv, [Next]_qvars
  PROVE  \/ HandlerEffect \/ Serialize \/ WriteLands \/ WriteFails
         \/ StopDone \/ Crash \/ Start \/ ClockStep \/ UNCHANGED qvars
  BY FeedEffect, DeliverEffect, SweepEffect, AckEffect, ClearChannelEffect, StopBeginEffect
  DEF Next, WriterStep, LifeStep

LEMMA KeepHandler ==
  ASSUME TypeOK, TypeOK', KeepInv, HandlerEffect
  PROVE  KeepInv'
<1>1. next \in Nat /\ next' \in Nat /\ queued \subseteq Msgs /\ snapKeys \subseteq Msgs
      /\ settled \subseteq Msgs /\ landed \subseteq Msgs /\ snapKeys' \subseteq Msgs
      /\ \A m \in Msgs : m \in Nat
  BY EntriesAssumption, QueueAssumption DEF TypeOK, Msgs
<1>2. \A m \in (queued \cup settled \cup landed)' : m < next'
  BY <1>1 DEF HandlerEffect, KeepInv
<1>3. Unsettled' \subseteq Unsettled
  BY DEF HandlerEffect, Unsettled
<1>4. \A m \in queued' : /\ entry'[m].chan \in Channels
                          /\ entry'[m].status = "dead" <=> m \in settled'
  <2> SUFFICES ASSUME NEW m \in queued'
               PROVE  /\ entry'[m].chan \in Channels
                      /\ entry'[m].status = "dead" <=> m \in settled'
    OBVIOUS
  <2>1. next \notin settled
    BY <1>1 DEF KeepInv
  <2>2. m \in settled => m \in queued /\ entry[m].status = "dead"
    BY <2>1 DEF HandlerEffect, KeepInv
  <2> QED BY <2>2 DEF HandlerEffect, KeepInv
<1>5. Unsettled' \subseteq queued'
  BY <1>3 DEF HandlerEffect, KeepInv, Unsettled
<1>6. OnDisk' \subseteq landed' /\ Unsettled' \subseteq Recoverable'
  BY <1>3 DEF HandlerEffect, KeepInv, OnDisk, Recoverable
<1>7. queued \cup settled \subseteq queued' \cup settled'
  BY DEF HandlerEffect
<1>8. ASSUME writer' = "mkdir"
      PROVE  /\ \A m \in snapKeys' : m \in queued' \cup settled' /\ entry'[m].chan \in Channels
             /\ Unsettled' \subseteq snapKeys'
  <2>1. CASE UNCHANGED <<writer, snapKeys, snap>>
    <3>1. \A m \in snapKeys : m \in queued \cup settled /\ entry[m].chan \in Channels
      BY <1>8, <2>1 DEF KeepInv
    <3>2. \A m \in snapKeys : m < next /\ m \in Msgs
      BY <1>1, <3>1 DEF KeepInv
    <3>3. \A m \in snapKeys : entry'[m].chan = entry[m].chan
      BY <3>2 DEF HandlerEffect
    <3> QED BY <1>3, <1>7, <1>8, <2>1, <3>1, <3>3 DEF KeepInv
  <2>2. CASE writer = "idle" /\ writer' = "mkdir" /\ snapKeys' = queued'
    <3>1. snapKeys' = queued'
      BY <2>2
    <3>2. \A m \in snapKeys' : m \in queued' \cup settled' /\ entry'[m].chan \in Channels
      BY <3>1 DEF HandlerEffect
    <3>3. Unsettled' \subseteq snapKeys'
      BY <1>5, <3>1 DEF Unsettled
    <3> QED BY <3>2, <3>3
  <2> QED BY <2>1, <2>2 DEF HandlerEffect
<1>9. ASSUME writer' = "writing"
      PROVE  /\ \A m \in Msgs : snap'[m].chan # NoChannel =>
                  /\ m \in queued' \cup settled'
                  /\ snap'[m].status = "dead" => m \in settled'
             /\ \A m \in Unsettled' : snap'[m].chan # NoChannel /\ snap'[m].status # "dead"
  <2>1. writer = "writing" /\ snap' = snap
    BY <1>9 DEF HandlerEffect
  <2> QED BY <1>3, <1>7, <2>1 DEF KeepInv, HandlerEffect
<1> QED BY <1>2, <1>4, <1>5, <1>6, <1>8, <1>9 DEF KeepInv, HandlerEffect

LEMMA KeepInit == Init => KeepInv
  BY DEF Init, KeepInv, Empty, NoEntry, OnDisk, Recoverable, Running, Unsettled

LEMMA KeepSerialize ==
  ASSUME TypeOK, KeepInv, Serialize
  PROVE  KeepInv'
<1>1. /\ UNCHANGED <<next, queued, entry, settled, landed, disk, daemon>>
      /\ writer = "mkdir" /\ writer' = "writing" /\ Running
      /\ snap' = [m \in Msgs |-> IF m \in snapKeys THEN entry[m] ELSE NoEntry]
  BY DEF Serialize, memory, storage, history
<1>2. /\ \A m \in snapKeys : m \in queued \cup settled /\ entry[m].chan \in Channels
      /\ Unsettled \subseteq snapKeys /\ Unsettled \subseteq queued
      /\ \A m \in queued : entry[m].status = "dead" => m \in settled
  BY <1>1 DEF KeepInv
<1>3. \A m \in Msgs : snap'[m].chan # NoChannel =>
        /\ m \in queued \cup settled
        /\ snap'[m].status = "dead" => m \in settled
  BY <1>1, <1>2 DEF NoEntry
<1>4. \A m \in Unsettled : snap'[m].chan # NoChannel /\ snap'[m].status # "dead"
  <2> SUFFICES ASSUME NEW m \in Unsettled
               PROVE  snap'[m].chan # NoChannel /\ snap'[m].status # "dead"
    OBVIOUS
  <2>1. m \in Msgs /\ m \in snapKeys /\ m \in queued /\ m \notin settled
    BY <1>2 DEF Unsettled, TypeOK
  <2>2. snap'[m] = entry[m]
    BY <1>1, <2>1
  <2>3. entry[m].chan \in Channels /\ entry[m].status # "dead"
    BY <1>2, <2>1
  <2> QED BY <2>2, <2>3, EntriesAssumption, QueueAssumption
<1>5. Unsettled' = Unsettled /\ Recoverable' = Recoverable /\ OnDisk' = OnDisk /\ Running'
  BY <1>1 DEF Unsettled, Recoverable, OnDisk, Running
<1> QED BY <1>1, <1>3, <1>4, <1>5 DEF KeepInv

LEMMA KeepNextIteration ==
  ASSUME TypeOK, KeepInv, Running, NextIteration, UNCHANGED <<queued, entry, settled>>,
         Unsettled' \subseteq queued
  PROVE  /\ writer' = "mkdir" =>
              /\ \A m \in snapKeys' : m \in queued \cup settled /\ entry[m].chan \in Channels
              /\ Unsettled' \subseteq snapKeys'
         /\ writer' # "writing"
<1>1. CASE pending
  BY <1>1 DEF NextIteration, KeepInv, TypeOK
<1>2. CASE ~pending
  BY <1>2 DEF NextIteration
<1> QED BY <1>1, <1>2

LEMMA KeepWriteLands ==
  ASSUME TypeOK, KeepInv, WriteLands
  PROVE  KeepInv'
<1> DEFINE contents == {m \in Msgs : snap[m].chan # NoChannel}
<1>1. /\ UNCHANGED <<next, queued, entry, settled, daemon>> /\ Running /\ Running'
      /\ writer = "writing" /\ disk' = snap /\ landed' = landed \cup contents
      /\ NextIteration
  BY DEF WriteLands, memory, history, Running
<1>2. /\ contents \subseteq queued \cup settled
      /\ \A m \in contents : snap[m].status = "dead" => m \in settled
      /\ \A m \in Unsettled : snap[m].chan # NoChannel /\ snap[m].status # "dead"
      /\ Unsettled \subseteq queued
  BY <1>1 DEF KeepInv
<1>3. Unsettled' \subseteq queued
  BY <1>1, <1>2 DEF Unsettled
<1>4. Unsettled' \subseteq contents
  BY <1>1, <1>2 DEF Unsettled, TypeOK
<1>5. \A m \in Unsettled' : snap[m].status # "dead"
  BY <1>1, <1>2, <1>4 DEF Unsettled
<1>6. OnDisk' = contents /\ Unsettled' \subseteq Recoverable'
  BY <1>1, <1>4, <1>5 DEF OnDisk, Recoverable
<1>7. \A m \in landed' : m < next
  BY <1>1, <1>2 DEF KeepInv
<1>8. /\ writer' = "mkdir" =>
           /\ \A m \in snapKeys' : m \in queued \cup settled /\ entry[m].chan \in Channels
           /\ Unsettled' \subseteq snapKeys'
      /\ writer' # "writing"
  BY <1>1, <1>3, KeepNextIteration
<1> HIDE DEF contents
<1> QED BY <1>1, <1>3, <1>6, <1>7, <1>8 DEF KeepInv

LEMMA KeepWriteFails ==
  ASSUME TypeOK, KeepInv, WriteFails
  PROVE  KeepInv'
<1>1. /\ UNCHANGED <<next, queued, entry, settled, landed, disk, daemon>>
      /\ Running /\ Running' /\ NextIteration
  BY DEF WriteFails, memory, history, Running
<1>2. Unsettled' = Unsettled /\ Recoverable' = Recoverable /\ OnDisk' = OnDisk
  BY <1>1 DEF Unsettled, Recoverable, OnDisk
<1>3. Unsettled' \subseteq queued
  BY <1>1, <1>2 DEF KeepInv
<1>4. /\ writer' = "mkdir" =>
           /\ \A m \in snapKeys' : m \in queued \cup settled /\ entry[m].chan \in Channels
           /\ Unsettled' \subseteq snapKeys'
      /\ writer' # "writing"
  BY <1>1, <1>3, KeepNextIteration
<1> QED BY <1>1, <1>2, <1>4 DEF KeepInv

LEMMA KeepGoDown ==
  ASSUME TypeOK, KeepInv, StopDone \/ Crash
  PROVE  KeepInv'
<1>1. /\ UNCHANGED <<next, settled, landed, disk>> /\ ~Running'
      /\ queued' = {} /\ writer' = "idle"
  BY DEF StopDone, Crash, Forget, storage, history, Running
<1>2. Unsettled' = Unsettled /\ Recoverable' = Recoverable /\ OnDisk' = OnDisk
  BY <1>1 DEF Unsettled, Recoverable, OnDisk
<1> QED BY <1>1, <1>2 DEF KeepInv

LEMMA KeepStart ==
  ASSUME TypeOK, KeepInv, Start
  PROVE  KeepInv'
<1>1. /\ UNCHANGED <<next, landed, disk, writer>> /\ settled' = settled \ Recoverable
      /\ ~Running /\ Running' /\ queued' = Recoverable
      /\ entry' = [m \in Msgs |-> IF m \in Recoverable
                                  THEN [disk[m] EXCEPT !.status = "pending"] ELSE NoEntry]
  BY DEF Start, writing, history, Running
<1>2. Recoverable' = Recoverable /\ OnDisk' = OnDisk
  BY <1>1 DEF Recoverable, OnDisk
<1>3. \A m \in Recoverable : entry'[m].status = "pending" /\ entry'[m].chan \in Channels
  BY <1>1 DEF Recoverable, OnDisk, TypeOK, Entry
<1>4. Recoverable \subseteq landed
  BY DEF KeepInv, Recoverable
<1>5. \A m \in Recoverable : m < next
  BY <1>4 DEF KeepInv
<1>6. writer = "idle"
  BY <1>1 DEF KeepInv
<1>7. Unsettled \subseteq Recoverable /\ OnDisk \subseteq landed
      /\ \A m \in settled \cup landed : m < next
  BY DEF KeepInv
<1>8. Unsettled' \subseteq Recoverable
  BY <1>1, <1>7 DEF Unsettled
<1> QED BY <1>1, <1>2, <1>3, <1>5, <1>6, <1>7, <1>8 DEF KeepInv

LEMMA KeepStep ==
  ASSUME TypeOK, TypeOK', KeepInv, [Next]_qvars
  PROVE  KeepInv'
<1>1. CASE HandlerEffect
  BY <1>1, KeepHandler
<1>2. CASE Serialize
  BY <1>2, KeepSerialize
<1>3. CASE WriteLands
  BY <1>3, KeepWriteLands
<1>4. CASE WriteFails
  BY <1>4, KeepWriteFails
<1>5. CASE StopDone \/ Crash
  BY <1>5, KeepGoDown
<1>6. CASE Start
  BY <1>6, KeepStart
<1>7. CASE ClockStep \/ UNCHANGED qvars
  <2>1. UNCHANGED <<next, queued, entry, settled, landed, disk, daemon, writer, snapKeys, snap>>
    BY <1>7 DEF ClockStep, WindowElapses, Ages, qvars, memory, writing, storage, history
  <2> QED BY <2>1 DEF KeepInv, Unsettled, Recoverable, OnDisk, Running
<1> QED BY <1>1, <1>2, <1>3, <1>4, <1>5, <1>6, <1>7, StepCases

LEMMA KeepCorrect == Spec => [](TypeOK /\ KeepInv)
<1>1. TypeOK /\ KeepInv /\ [Next]_qvars => TypeOK' /\ KeepInv'
  BY TypeStep, KeepStep
<1> QED BY <1>1, TypeInit, KeepInit, PTL DEF Spec

\* A message some write has contained is never dropped silently: whatever crashes
\* and failed writes intervene, it is live, on disk while the daemon is down, or it
\* was acked, dead-lettered or cleared.
THEOREM LandedKept == Spec => []LandedIsKept
<1>1. TypeOK /\ KeepInv => LandedIsKept
  BY DEF KeepInv, LandedIsKept, Unsettled, Live
<1> QED BY <1>1, KeepCorrect, PTL

\* No handler, write or timer brings a settled message back while the daemon lives.
THEOREM SettledStays == Spec => SettledStaysSettled
<1> DEFINE Stays == Running /\ Running' => \A m \in Msgs :
                      m < next /\ m \notin Live => m \notin Live'
<1>1. TypeOK /\ KeepInv /\ [Next]_qvars => [Stays]_qvars
  <2> SUFFICES ASSUME TypeOK, KeepInv, [Next]_qvars, Running, Running', NEW m \in Msgs,
                      m < next, m \notin Live
               PROVE  m \notin Live'
    OBVIOUS
  <2>0. next \in Nat /\ m \in Nat
    BY EntriesAssumption, QueueAssumption DEF TypeOK, Msgs
  <2>1. CASE HandlerEffect
    <3>1. m \in queued' => m \in queued
      BY <2>0, <2>1 DEF HandlerEffect
    <3>2. m \in queued => entry[m].status = "dead"
      BY DEF Live
    <3> QED BY <2>1, <3>1, <3>2 DEF HandlerEffect, Live
  <2>2. CASE Serialize \/ WriteLands \/ WriteFails \/ ClockStep \/ UNCHANGED qvars
    <3>1. UNCHANGED <<queued, entry>>
      BY <2>2 DEF Serialize, WriteLands, WriteFails, ClockStep, WindowElapses, Ages, qvars, memory
    <3> QED BY <3>1 DEF Live
  <2>3. CASE StopDone \/ Crash \/ Start
    BY <2>3 DEF StopDone, Crash, Start, Running
  <2> QED BY <2>1, <2>2, <2>3, StepCases
<1> QED BY <1>1, KeepCorrect, PTL DEF SettledStaysSettled, Spec

--------------------------------------------------------------------------------
(* The queue implements the abstract mailbox.                                     *)

LEMMA MailboxStart == Init => Mailbox!MailboxInit
<1> SUFFICES ASSUME Init PROVE Mailbox!MailboxInit
  OBVIOUS
<1>1. \A m \in Msgs : Box[m] = "unsent"
  BY EntriesAssumption, QueueAssumption DEF Box, Init, Msgs
<1>2. Box = [m \in Msgs |-> "unsent"]
  BY <1>1 DEF Box
<1> QED BY <1>2 DEF Init, Mailbox!MailboxInit

\* The position of a message, case by case.
LEMMA BoxCases ==
  ASSUME TypeOK, KeepInv, NEW m \in Msgs
  PROVE  /\ m >= next => Box[m] = "unsent" /\ m \notin settled \cup queued \cup landed
         /\ Running /\ m \in Live => Box[m] = "held"
         /\ ~Running /\ m \in Recoverable => Box[m] = "held"
         /\ Running /\ m < next /\ m \notin Live /\ m \in settled => Box[m] = "settled"
         /\ ~Running /\ m < next /\ m \notin Recoverable /\ m \in settled => Box[m] = "settled"
         /\ Running /\ m < next /\ m \notin Live /\ m \notin settled => Box[m] = "lost"
         /\ ~Running /\ m < next /\ m \notin Recoverable /\ m \notin settled => Box[m] = "lost"
<1>1. next \in Nat /\ m \in Nat
  BY EntriesAssumption, QueueAssumption DEF TypeOK, Msgs
<1>2. Live \subseteq queued /\ Recoverable \subseteq landed
  BY DEF Live, Recoverable, KeepInv
<1>3. \A j \in Live \cup Recoverable : j < next
  BY <1>2 DEF KeepInv
<1> QED BY <1>1, <1>2, <1>3 DEF Box, KeepInv

LEMMA MailboxHandler ==
  ASSUME TypeOK, TypeOK', KeepInv, KeepInv', HandlerEffect
  PROVE  Mailbox!MailboxNext
<1>1. /\ next \in Nat /\ next' \in Nat /\ \A m \in Msgs : m \in Nat
      /\ Running /\ Running' /\ landed' = landed /\ Live \subseteq Msgs
  <2>1. next \in Nat /\ next' \in Nat /\ \A m \in Msgs : m \in Nat
    BY EntriesAssumption, QueueAssumption DEF TypeOK, Msgs
  <2> QED BY <2>1 DEF TypeOK, HandlerEffect, Live
<1>2. ASSUME NEW m \in Msgs, m < next
      PROVE  /\ m \in Live' => m \in Live
             /\ m \in Live /\ m \notin Live' => m \in settled'
             /\ m \notin Live => (m \in settled' <=> m \in settled)
  BY <1>1, <1>2 DEF HandlerEffect, Live, KeepInv
<1>3. CASE next' = next
  <2> DEFINE S == {m \in Msgs : m \in Live /\ m \notin Live'}
  <2>1. \A m \in S : Box[m] = "held"
    BY <1>1, BoxCases
  <2>2. ASSUME NEW m \in Msgs
        PROVE  Box'[m] = IF m \in S THEN "settled" ELSE Box[m]
    <3>1. CASE m < next
      <4>1. ~(m >= next) /\ ~(m >= next')
        BY <1>1, <1>3, <3>1
      <4>2. CASE m \in Live
        BY <1>1, <1>2, <3>1, <4>1, <4>2 DEF Box
      <4>3. CASE m \notin Live
        BY <1>1, <1>2, <3>1, <4>1, <4>3 DEF Box
      <4> QED BY <4>2, <4>3
    <3>2. CASE m >= next
      <4>1. m \notin Live
        BY <1>1, <3>2 DEF KeepInv, Live
      <4> QED BY <1>1, <1>3, <3>2, <4>1 DEF Box
    <3> QED BY <1>1, <3>1, <3>2
  <2>3. Box' = [m \in Msgs |-> IF m \in S THEN "settled" ELSE Box[m]]
    BY <2>2 DEF Box
  <2>4. Mailbox!Settle(S)
    BY <1>1, <2>1, <2>3 DEF Mailbox!Settle
  <2> QED BY <2>4 DEF Mailbox!MailboxNext
<1>4. CASE next' # next
  <2> DEFINE S == {m \in Msgs : (m \in Live \/ m = next) /\ m \notin Live'}
  <2>1. next' = next + 1 /\ next \in queued' /\ next \in Msgs
    BY <1>4 DEF HandlerEffect, TypeOK
  <2>2. Box[next] = "unsent" /\ \A m \in S : m = next \/ Box[m] = "held"
    BY <1>1, <2>1, BoxCases
  <2>3. next \notin Live' => next \in settled'
    BY <2>1 DEF KeepInv, Live
  <2>4. ASSUME NEW m \in Msgs
        PROVE  Box'[m] = IF m \in S THEN "settled" ELSE IF m = next THEN "held" ELSE Box[m]
    <3>1. CASE m < next
      BY <1>1, <1>2, <2>1, <3>1 DEF Box
    <3>2. CASE m = next
      BY <1>1, <2>1, <2>3, <3>2 DEF Box
    <3>3. CASE m > next
      <4>1. m >= next' /\ m # next /\ m >= next
        BY <1>1, <2>1, <3>3
      <4>2. m \notin Live
        BY <1>1, <3>3 DEF KeepInv, Live
      <4> QED BY <4>1, <4>2 DEF Box
    <3> QED BY <1>1, <3>1, <3>2, <3>3
  <2>5. Box' = [m \in Msgs |-> IF m \in S THEN "settled"
                              ELSE IF m = next THEN "held" ELSE Box[m]]
    BY <2>4 DEF Box
  <2>6. Mailbox!Post(next, S)
    BY <1>1, <2>2, <2>5 DEF Mailbox!Post
  <2>7. S \in SUBSET Msgs
    OBVIOUS
  <2> QED BY <2>1, <2>6, <2>7 DEF Mailbox!MailboxNext
<1> QED BY <1>3, <1>4

LEMMA MailboxPersist ==
  ASSUME TypeOK, KeepInv, WriteLands
  PROVE  Mailbox!MailboxNext
<1> DEFINE contents == {m \in Msgs : snap[m].chan # NoChannel}
<1>1. /\ UNCHANGED <<next, queued, entry, settled, daemon>> /\ Running
      /\ writer = "writing" /\ landed' = landed \cup contents
  BY DEF WriteLands, memory, history
<1>2. \A m \in contents : Box[m] # "unsent"
  <2>1. \A m \in contents : m < next /\ m \in Nat
    BY <1>1, EntriesAssumption, QueueAssumption DEF KeepInv, Msgs
  <2>2. next \in Nat
    BY EntriesAssumption, QueueAssumption DEF TypeOK
  <2> QED BY <2>1, <2>2 DEF Box
<1>3. Box' = Box
  BY <1>1 DEF Box, Running, Live
<1>4. Mailbox!Persist(contents)
  BY <1>1, <1>2, <1>3 DEF Mailbox!Persist
<1> QED BY <1>4 DEF Mailbox!MailboxNext

LEMMA MailboxGoDown ==
  ASSUME TypeOK, KeepInv, StopDone \/ Crash
  PROVE  Mailbox!MailboxNext
<1>1. /\ UNCHANGED <<next, settled, landed, disk>> /\ Running /\ ~Running'
  BY DEF StopDone, Crash, storage, history, Running
<1>2. /\ Recoverable' = Recoverable /\ Recoverable \subseteq landed
      /\ Recoverable \in SUBSET Msgs /\ next \in Nat
      /\ \A m \in Msgs : m \in Nat
      /\ \A m \in landed : m < next
  BY <1>1, EntriesAssumption, QueueAssumption DEF Recoverable, OnDisk, KeepInv, TypeOK, Msgs
<1>3. ASSUME NEW m \in landed
      PROVE  /\ Box[m] = "held" => m \in Recoverable
             /\ m \in Recoverable => Box[m] \in {"held", "settled"}
  <2>1. m \in Msgs /\ m < next
    BY <1>2 DEF TypeOK
  <2>2. m \in Live => m \notin settled
    BY DEF Live, KeepInv
  <2>3. m \notin settled => m \in Recoverable /\ m \in Live
    BY <1>1 DEF KeepInv, Unsettled, Live
  <2> QED BY <1>1, <1>2, <2>1, <2>2, <2>3, BoxCases
<1>4. ASSUME NEW m \in Msgs
      PROVE  Box'[m] = IF m \in Recoverable THEN "held"
                       ELSE IF Box[m] = "held" THEN "lost" ELSE Box[m]
  <2>1. m \in Live => m \notin settled
    BY DEF Live, KeepInv
  <2>2. CASE m >= next
    BY <1>1, <1>2, <2>2 DEF Box
  <2>3. CASE m < next
    BY <1>1, <1>2, <2>1, <2>3 DEF Box
  <2> QED BY <1>2, <2>2, <2>3
<1>5. Box' = [m \in Msgs |-> IF m \in Recoverable THEN "held"
                            ELSE IF Box[m] = "held" THEN "lost" ELSE Box[m]]
  BY <1>4 DEF Box
<1>6. Mailbox!GoDown(Recoverable)
  BY <1>1, <1>2, <1>3, <1>5 DEF Mailbox!GoDown
<1> QED BY <1>2, <1>6 DEF Mailbox!MailboxNext

LEMMA MailboxStutter ==
  ASSUME TypeOK, KeepInv,
         Serialize \/ WriteFails \/ Start \/ ClockStep \/ UNCHANGED qvars
  PROVE  UNCHANGED <<Box, landed>>
<1>1. CASE Serialize \/ WriteFails \/ ClockStep \/ UNCHANGED qvars
  <2>1. UNCHANGED <<next, queued, entry, settled, landed, disk, daemon>>
    BY <1>1 DEF Serialize, WriteFails, ClockStep, WindowElapses, Ages, qvars, memory, storage, history
  <2> QED BY <2>1 DEF Box, Running, Live, Recoverable, OnDisk
<1>2. CASE Start
  <2>1. /\ UNCHANGED <<next, landed, disk>> /\ ~Running /\ Running'
        /\ queued' = Recoverable /\ settled' = settled \ Recoverable
        /\ \A m \in Recoverable : entry'[m].status = "pending"
    BY <1>2 DEF Start, history, Running, Recoverable, OnDisk, TypeOK, Entry
  <2>2. Live' = Recoverable
    BY <2>1 DEF Live
  <2>3. \A m \in Msgs : Box'[m] = Box[m]
    BY <2>1, <2>2 DEF Box
  <2> QED BY <2>1, <2>3 DEF Box
<1> QED BY <1>1, <1>2

\* The queue, with its coalesced asynchronous writes, retries, dead letters, crashes
\* and restarts, implements the at-least-once mailbox.
THEOREM MailboxImplemented == Spec => ImplementsMailbox
<1>1. ASSUME TypeOK, TypeOK', KeepInv, KeepInv', [Next]_qvars
      PROVE  [Mailbox!MailboxNext]_(Mailbox!mvars)
  BY <1>1, StepCases, MailboxHandler, MailboxPersist, MailboxGoDown, MailboxStutter
  DEF Mailbox!mvars
<1>2. TypeOK /\ TypeOK' /\ KeepInv /\ KeepInv' /\ [Next]_qvars
        => [Mailbox!MailboxNext]_(Mailbox!mvars)
  BY <1>1
<1> QED BY <1>2, MailboxStart, KeepCorrect, PTL DEF Spec, ImplementsMailbox, Mailbox!MailboxSpec

--------------------------------------------------------------------------------
(* Attempts and dead letters.                                                     *)

LEMMA AttemptedSpent ==
  ASSUME NEW e \in [Msgs -> Entry], NEW S, NEW m \in Msgs, Attempted(e, S)[m].status = "dead"
  PROVE  \/ Attempted(e, S)[m].deliveries = MaxDeliveries
         \/ e[m].status = "dead" /\ Attempted(e, S)[m] = e[m]
<1>1. CASE m \in S
  BY <1>1, AttemptType DEF Attempted
<1>2. CASE m \notin S
  BY <1>2 DEF Attempted
<1> QED BY <1>1, <1>2

LEMMA DeadStep == TypeOK /\ TypeOK' /\ DeadOnlyWhenSpent /\ [Next]_qvars => DeadOnlyWhenSpent'
<1> SUFFICES ASSUME TypeOK, TypeOK', DeadOnlyWhenSpent, [Next]_qvars PROVE DeadOnlyWhenSpent'
  OBVIOUS
<1>1. ASSUME NEW c \in Channels, NEW connected \in BOOLEAN, Feed(c, connected)
      PROVE  DeadOnlyWhenSpent'
  <2>1. next \in Msgs /\ queued' = queued \cup {next} /\ aged' = aged
        /\ \E S : entry' = Attempted(Enqueued(c), S)
    BY <1>1 DEF Feed
  <2>2. PICK S : entry' = Attempted(Enqueued(c), S)
    BY <2>1
  <2>3. /\ Enqueued(c) \in [Msgs -> Entry]
        /\ Enqueued(c)[next].status # "dead"
        /\ \A m \in Msgs : m # next => Enqueued(c)[m] = entry[m]
    <3>1. Enqueued(c)[next] = [chan |-> c, status |-> "pending", deliveries |-> 0]
      BY <2>1, EnqueuedType DEF TypeOK
    <3> QED BY <2>1, <3>1, EnqueuedType DEF TypeOK
  <2>4. queued' \subseteq Msgs
    BY DEF TypeOK
  <2> QED BY <2>1, <2>2, <2>3, <2>4, AttemptedSpent DEF DeadOnlyWhenSpent
<1>2. ASSUME NEW C \in SUBSET Channels, Deliver(C)
      PROVE  DeadOnlyWhenSpent'
  <2>1. queued' = queued /\ aged' = aged /\ \E S : entry' = Attempted(entry, S)
    BY <1>2 DEF Deliver
  <2>2. PICK S : entry' = Attempted(entry, S)
    BY <2>1
  <2>3. queued \subseteq Msgs /\ entry \in [Msgs -> Entry]
    BY DEF TypeOK
  <2> QED BY <2>1, <2>2, <2>3, AttemptedSpent DEF DeadOnlyWhenSpent
<1>3. ASSUME NEW C \in SUBSET Channels, SweepQueue(C)
      PROVE  DeadOnlyWhenSpent'
  <2>1. queued' = queued /\ aged' = aged /\ \E S : entry' = Attempted(Killed(Expired), S)
    BY <1>3 DEF SweepQueue
  <2>2. PICK S : entry' = Attempted(Killed(Expired), S)
    BY <2>1
  <2>3. queued \subseteq Msgs /\ Killed(Expired) \in [Msgs -> Entry]
    BY KilledType DEF TypeOK
  <2>4. \A m \in queued : Killed(Expired)[m].status = "dead" =>
          m \in aged \/ Killed(Expired)[m] = entry[m]
    BY <2>3 DEF Killed, Expired
  <2> QED BY <2>1, <2>2, <2>3, <2>4, AttemptedSpent DEF DeadOnlyWhenSpent
<1>4. CASE Start
  <2>1. queued' = Recoverable /\ Recoverable \subseteq Msgs
        /\ \A m \in Recoverable : entry'[m].status = "pending"
    BY <1>4 DEF Start, Recoverable, OnDisk, TypeOK, Entry
  <2> QED BY <2>1 DEF DeadOnlyWhenSpent
<1>5. CASE StopDone \/ Crash
  BY <1>5 DEF StopDone, Crash, Forget, DeadOnlyWhenSpent
<1>6. CASE ClockStep
  BY <1>6 DEF ClockStep, WindowElapses, Ages, memory, DeadOnlyWhenSpent
<1>7. CASE \/ \E m \in Msgs : Ack(m)
           \/ \E c \in Channels : ClearChannel(c)
           \/ WriterStep \/ StopBegin \/ UNCHANGED qvars
  <2>1. queued' \subseteq queued /\ UNCHANGED <<entry, aged>>
    BY <1>7 DEF Ack, ClearChannel, WriterStep, Serialize, WriteLands, WriteFails, StopBegin,
                qvars, memory
  <2> QED BY <2>1 DEF DeadOnlyWhenSpent
<1> QED BY <1>1, <1>2, <1>3, <1>4, <1>5, <1>6, <1>7 DEF Next, LifeStep

\* An entry is dead only once every attempt of its budget was made or it aged out.
THEOREM DeadLettersSpent == Spec => []DeadOnlyWhenSpent
<1>1. Init => DeadOnlyWhenSpent
  BY DEF Init, DeadOnlyWhenSpent
<1> QED BY <1>1, DeadStep, TypeCorrect, PTL DEF Spec

--------------------------------------------------------------------------------
(* Coalesced writes.                                                              *)
(*                                                                               *)
(* Why the file is exact when the loop is idle: unless a follow-up is asked for,  *)
(* the write in flight already carries the queue as it is.                        *)

ExactInv ==
  Running =>
    /\ writer = "mkdir" /\ ~pending => snapKeys = queued
    /\ writer = "writing" /\ ~pending => snap = Image
    /\ writer = "idle" /\ lastWrite = "ok" => disk = Image

\* A handler that changes the queue starts a write or asks for a follow-up.
Marks ==
  /\ Running /\ Running' /\ UNCHANGED <<disk, lastWrite>>
  /\ \/ writer = "idle" /\ writer' = "mkdir" /\ snapKeys' = queued'
     \/ writer # "idle" /\ writer' = writer /\ pending' = TRUE
     \/ UNCHANGED <<writer, pending, snapKeys, snap, queued>> /\ Image' = Image

LEMMA SchedulePersistMarks ==
  ASSUME NEW once \in BOOLEAN, NEW again \in BOOLEAN, SchedulePersist(once, again),
         ~once => UNCHANGED <<queued, entry>>
  PROVE  \/ writer = "idle" /\ writer' = "mkdir" /\ snapKeys' = queued'
         \/ writer # "idle" /\ writer' = writer /\ pending' = TRUE
         \/ UNCHANGED <<writer, pending, snapKeys, snap, queued>> /\ Image' = Image
  BY DEF SchedulePersist, writing, Image

LEMMA AttemptedNone ==
  ASSUME NEW e \in [Msgs -> Entry]
  PROVE  Attempted(e, {}) = e
  BY DEF Attempted

LEMMA HandlerMarks ==
  ASSUME TypeOK,
         \/ \E c \in Channels, connected \in BOOLEAN : Feed(c, connected)
         \/ \E C \in SUBSET Channels : Deliver(C) \/ SweepQueue(C)
         \/ \E m \in Msgs : Ack(m)
         \/ \E c \in Channels : ClearChannel(c)
         \/ StopBegin
  PROVE  Marks
<1>1. /\ Running /\ Running' /\ UNCHANGED <<disk, lastWrite>>
  BY DEF Feed, Deliver, SweepQueue, Ack, ClearChannel, StopBegin, Running, storage
<1>2. ASSUME NEW c \in Channels, NEW connected \in BOOLEAN, Feed(c, connected) PROVE Marks
  <2>1. \E again \in BOOLEAN : SchedulePersist(TRUE, again)
    BY <1>2 DEF Feed
  <2> QED BY <1>1, <2>1, SchedulePersistMarks DEF Marks
<1>3. ASSUME NEW C \in SUBSET Channels, Deliver(C) PROVE Marks
  <2> DEFINE due == Deliverable(entry, queued, C)
  <2>1. queued' = queued /\ entry' = Attempted(entry, due)
        /\ \E again \in BOOLEAN : SchedulePersist(due # {}, again)
    BY <1>3 DEF Deliver, Several
  <2>2. ~(due # {}) => entry' = entry
    BY <2>1, AttemptedNone DEF TypeOK
  <2> QED BY <1>1, <2>1, <2>2, SchedulePersistMarks DEF Marks
<1>4. ASSUME NEW C \in SUBSET Channels, SweepQueue(C) PROVE Marks
  <2> DEFINE due == Deliverable(Killed(Expired), queued, C)
  <2>1. queued' = queued /\ entry' = Attempted(Killed(Expired), due)
        /\ \E again \in BOOLEAN : SchedulePersist(Expired # {} \/ due # {}, again)
    BY <1>4 DEF SweepQueue, Several
  <2>2. ASSUME Expired = {}, due = {} PROVE entry' = entry
    <3>1. Killed(Expired) = entry
      BY <2>2 DEF Killed, TypeOK
    <3> HIDE DEF due
    <3> QED BY <2>1, <2>2, <3>1, AttemptedNone DEF TypeOK
  <2> HIDE DEF due
  <2> QED BY <1>1, <2>1, <2>2, SchedulePersistMarks DEF Marks
<1>5. ASSUME NEW m \in Msgs, Ack(m) PROVE Marks
  <2>1. CASE m \in queued
    BY <1>1, <1>5, <2>1 DEF Ack, SchedulePersist, Marks
  <2>2. CASE m \notin queued
    <3>1. queued' = queued /\ entry' = entry /\ UNCHANGED writing
      BY <1>5, <2>2 DEF Ack, SchedulePersist
    <3> QED BY <1>1, <3>1 DEF Marks, Image, writing
  <2> QED BY <2>1, <2>2
<1>6. ASSUME NEW c \in Channels, ClearChannel(c) PROVE Marks
  <2> DEFINE gone == {m \in queued : entry[m].chan = c}
  <2>1. queued' = queued \ gone /\ entry' = entry /\ SchedulePersist(gone # {}, FALSE)
    BY <1>6 DEF ClearChannel
  <2>2. ~(gone # {}) => queued' = queued
    BY <2>1
  <2> HIDE DEF gone
  <2> QED BY <1>1, <2>1, <2>2, SchedulePersistMarks DEF Marks
<1>7. CASE StopBegin
  BY <1>1, <1>7, SchedulePersistMarks DEF StopBegin, Marks
<1> QED BY <1>2, <1>3, <1>4, <1>5, <1>6, <1>7

LEMMA ExactStep == TypeOK /\ KeepInv /\ ExactInv /\ [Next]_qvars => ExactInv'
<1> SUFFICES ASSUME TypeOK, KeepInv, ExactInv, [Next]_qvars PROVE ExactInv'
  OBVIOUS
<1>1. CASE Marks
  <2>1. CASE writer = "idle" /\ writer' = "mkdir" /\ snapKeys' = queued'
    BY <2>1 DEF ExactInv
  <2>2. CASE writer # "idle" /\ writer' = writer /\ pending' = TRUE
    BY <2>2 DEF ExactInv
  <2>3. CASE UNCHANGED <<writer, pending, snapKeys, snap, queued>> /\ Image' = Image
    BY <1>1, <2>3 DEF ExactInv, Marks
  <2> QED BY <1>1, <2>1, <2>2, <2>3 DEF Marks
<1>2. CASE Serialize
  <2>1. UNCHANGED <<queued, entry, pending, daemon>> /\ Running
        /\ writer = "mkdir" /\ writer' = "writing"
        /\ snap' = [m \in Msgs |-> IF m \in snapKeys THEN entry[m] ELSE NoEntry]
    BY <1>2 DEF Serialize, memory
  <2> QED BY <2>1 DEF ExactInv, Image
<1>3. CASE WriteLands \/ WriteFails
  <2>1. UNCHANGED <<queued, entry>> /\ Running /\ NextIteration
        /\ ((writer = "writing" /\ disk' = snap) \/ lastWrite' = "failed")
    BY <1>3 DEF WriteLands, WriteFails, memory
  <2>2. Image' = Image
    BY <2>1 DEF Image
  <2>3. CASE pending
    BY <2>1, <2>3 DEF NextIteration, ExactInv
  <2>4. CASE ~pending
    BY <2>1, <2>2, <2>4 DEF NextIteration, ExactInv
  <2> QED BY <2>3, <2>4
<1>4. CASE StopDone \/ Crash
  BY <1>4 DEF StopDone, Crash, ExactInv, Running
<1>5. CASE Start
  <2>1. writer' = writer /\ lastWrite' = "none" /\ writer = "idle"
    BY <1>5 DEF Start, writing, KeepInv
  <2> QED BY <2>1 DEF ExactInv
<1>6. CASE ClockStep \/ UNCHANGED qvars
  <2>1. UNCHANGED <<queued, entry, daemon, writer, pending, snapKeys, snap, disk, lastWrite>>
    BY <1>6 DEF ClockStep, WindowElapses, Ages, qvars, memory, writing, storage
  <2> QED BY <2>1 DEF ExactInv, Image, Running
<1> QED BY <1>1, <1>2, <1>3, <1>4, <1>5, <1>6, HandlerMarks DEF Next, WriterStep, LifeStep

LEMMA ExactCorrect == Spec => [](TypeOK /\ KeepInv /\ ExactInv)
<1>1. Init => ExactInv
  BY DEF Init, ExactInv, Running
<1>2. TypeOK /\ KeepInv /\ ExactInv /\ [Next]_qvars => ExactInv'
  BY ExactStep
<1> QED BY <1>1, <1>2, KeepCorrect, PTL DEF Spec

\* When no write is in flight and the last one succeeded, the file holds exactly
\* the queue in memory: folding the calls of schedule_persist loses nothing.
THEOREM CoalescingExact == Spec => []CoalescingLosesNothing
<1>1. ExactInv => CoalescingLosesNothing
  BY DEF ExactInv, CoalescingLosesNothing
<1> QED BY <1>1, ExactCorrect, PTL

\* A graceful stop whose last write succeeded leaves exactly the live messages on
\* disk, ready to be loaded.
THEOREM GracefulStop == Spec => GracefulStopKeepsBacklog
<1> DEFINE Keeps == daemon = "stopping" /\ daemon' = "stopped" /\ lastWrite = "ok"
                      => Recoverable = Live
<1>1. TypeOK /\ KeepInv /\ ExactInv /\ [Next]_qvars => [Keeps]_qvars
  <2> SUFFICES ASSUME TypeOK, KeepInv, ExactInv, [Next]_qvars,
                      daemon = "stopping", daemon' = "stopped", lastWrite = "ok"
               PROVE  Recoverable = Live
    OBVIOUS
  <2>1. StopDone
    BY StepCases DEF HandlerEffect, Serialize, WriteLands, WriteFails, Crash, Start, ClockStep,
                     WindowElapses, Ages, qvars, Running
  <2>2. disk = Image
    BY <2>1 DEF StopDone, ExactInv, Running
  <2>3. \A m \in Msgs : m \in queued <=> m \in OnDisk
    BY <2>2, EntriesAssumption, QueueAssumption DEF Image, OnDisk, NoEntry, KeepInv
  <2>4. \A m \in queued : disk[m] = entry[m]
    BY <2>2 DEF Image, TypeOK
  <2>5. queued \subseteq Msgs
    BY DEF TypeOK
  <2> QED BY <2>3, <2>4, <2>5 DEF Recoverable, Live, OnDisk
<1> QED BY <1>1, ExactCorrect, PTL DEF GracefulStopKeepsBacklog, Spec

--------------------------------------------------------------------------------
(* Oldest first.                                                                  *)
(*                                                                               *)
(* The order must hold of the entries in the Map, of the copied keys, of the      *)
(* serialized snapshot and of the file, since a restart takes them up again.  A   *)
(* copied key that has left the Map was acked, so it had been sent, or it was      *)
(* cleared with everything else of its channel.                                   *)

OrderIn(e, K, sent) ==
  \A m \in K, j \in K :
    j < m /\ e[m].chan = e[j].chan /\ e[m].deliveries > 0 /\ e[j].status # "dead" => j \in sent

DeliveredIn(e, sent) == \A m \in Msgs : e[m].status = "delivered" => m \in sent

\* Of the keys K, those that left the queue q had been sent, or nothing of their
\* channel is left in it.
LeftWhole(e, K, q, sent) ==
  \A j \in K, m \in K : m \in q /\ j \notin q /\ e[j].chan = e[m].chan => j \in sent

InSnap == {m \in Msgs : snap[m].chan # NoChannel}

OrderInv ==
  /\ OrderIn(entry, queued, offered) /\ DeliveredIn(entry, offered)
  /\ writer = "mkdir" =>
       OrderIn(entry, snapKeys, offered) /\ LeftWhole(entry, snapKeys, queued, offered)
  /\ writer = "writing" => OrderIn(snap, InSnap, offered)
  /\ OrderIn(disk, OnDisk, offered)

\* An attempt reaches every older entry of the channel that may still need one.
LEMMA AttemptOrder ==
  ASSUME NEW e \in [Msgs -> Entry], NEW q \in SUBSET Msgs, NEW K \in SUBSET Msgs, NEW C,
         NEW sent, OrderIn(e, K, sent), DeliveredIn(e, sent), LeftWhole(e, K, q, sent),
         NEW due, due = Deliverable(e, q, C)
  PROVE  /\ OrderIn(Attempted(e, due), K, sent \cup Sent(e, due))
         /\ DeliveredIn(Attempted(e, due), sent \cup Sent(e, due))
<1> DEFINE n == Attempted(e, due)
<1>1. ASSUME NEW m \in Msgs
      PROVE  /\ n[m].chan = e[m].chan
             /\ m \notin due => n[m] = e[m]
             /\ m \in due => /\ n[m].status \in {"delivered", "dead"}
                             /\ n[m].status = "delivered" => m \in Sent(e, due)
                             /\ n[m].status = "dead" => n[m].deliveries = e[m].deliveries
             /\ m \in due <=> m \in q /\ e[m].chan \in C /\ e[m].status # "dead"
                              /\ (e[m].status = "pending" \/ m \in windowOver)
  <2>1. e[m] \in Entry  OBVIOUS
  <2>2. n[m] = IF m \in due THEN Attempt(e[m]) ELSE e[m]  BY DEF Attempted
  <2>3. Attempt(e[m]).status = "dead" => Attempt(e[m]).deliveries = e[m].deliveries
    <3>1. CASE e[m].deliveries >= MaxDeliveries  BY <2>1, <3>1 DEF Attempt, Entry
    <3>2. CASE ~(e[m].deliveries >= MaxDeliveries)
      <4>1. Attempt(e[m]) = [e[m] EXCEPT !.status = "delivered", !.deliveries = @ + 1]
        BY <3>2 DEF Attempt
      <4>2. Attempt(e[m]).status = "delivered"  BY <2>1, <4>1 DEF Entry
      <4> QED  BY <4>2
    <3> QED  BY <3>1, <3>2
  <2>4. m \in due <=> m \in q /\ e[m].chan \in C /\ e[m].status # "dead"
                      /\ (e[m].status = "pending" \/ m \in windowOver)
    BY DEF Deliverable, Due
  <2>5. m \in Sent(e, due) <=> m \in due /\ Attempt(e[m]).status = "delivered"  BY DEF Sent
  <2> HIDE DEF n
  <2> QED  BY <2>1, <2>2, <2>3, <2>4, <2>5, AttemptType
<1> HIDE DEF n
<1>2. ASSUME NEW m \in K, NEW j \in K, j < m, n[m].chan = n[j].chan, n[m].deliveries > 0,
             n[j].status # "dead"
      PROVE  j \in sent \cup Sent(e, due)
  <2>1. m \in Msgs /\ j \in Msgs /\ e[m].chan = e[j].chan  BY <1>1, <1>2
  <2>2. e[j].status \in {"pending", "delivered", "dead"}  BY <2>1 DEF Entry, Status
  <2>3. CASE j \in due  BY <1>1, <1>2, <2>1, <2>3
  <2>4. CASE j \notin due
    <3>1. n[j] = e[j] /\ e[j].status # "dead"  BY <1>1, <1>2, <2>1, <2>4
    <3>2. CASE e[j].status = "delivered"  BY <2>1, <3>2 DEF DeliveredIn
    <3>3. CASE e[j].status = "pending" /\ m \in due
      <4>1. m \in q /\ e[j].chan \in C  BY <1>1, <2>1, <3>3
      <4>2. j \notin q  BY <1>1, <2>1, <2>4, <3>1, <3>3, <4>1
      <4> QED  BY <2>1, <4>1, <4>2 DEF LeftWhole
    <3>4. CASE m \notin due
      <4>1. e[m].deliveries > 0  BY <1>1, <1>2, <2>1, <3>4
      <4> QED  BY <1>2, <2>1, <3>1, <4>1 DEF OrderIn
    <3> QED  BY <2>2, <3>1, <3>2, <3>3, <3>4
  <2> QED  BY <2>3, <2>4
<1>3. OrderIn(n, K, sent \cup Sent(e, due))  BY <1>2 DEF OrderIn
<1>4. ASSUME NEW m \in Msgs, n[m].status = "delivered" PROVE m \in sent \cup Sent(e, due)
  BY <1>1, <1>4 DEF DeliveredIn
<1>5. DeliveredIn(n, sent \cup Sent(e, due))  BY <1>4 DEF DeliveredIn
<1> QED  BY <1>3, <1>5 DEF n

\* What was sent stays sent.
LEMMA OrderGrows ==
  ASSUME NEW e, NEW K, NEW old, NEW new, old \subseteq new, OrderIn(e, K, old)
  PROVE  OrderIn(e, K, new)
<1> QED  BY DEF OrderIn

\* Every handler attempts the due entries of some channels on a base e, on the queue
\* it leaves behind.
LEMMA OrderHandler ==
  ASSUME TypeOK, OrderInv, NEW e \in [Msgs -> Entry], NEW C, queued' \in SUBSET Msgs,
         OrderIn(e, queued', offered), DeliveredIn(e, offered),
         writer = "mkdir" =>
           OrderIn(e, snapKeys, offered) /\ LeftWhole(e, snapKeys, queued', offered),
         entry' = Attempted(e, Deliverable(e, queued', C)),
         offered' = offered \cup Sent(e, Deliverable(e, queued', C)), disk' = disk,
         \/ UNCHANGED <<writer, snapKeys, snap>>
         \/ writer = "idle" /\ writer' = "mkdir" /\ snapKeys' = queued'
  PROVE  OrderInv'
<1> DEFINE due == Deliverable(e, queued', C)
<1>1. LeftWhole(e, queued', queued', offered)  BY DEF LeftWhole
<1>2. OrderIn(entry', queued', offered') /\ DeliveredIn(entry', offered')
  <2>1. due = Deliverable(e, queued', C)  OBVIOUS
  <2> HIDE DEF due
  <2> QED  BY <1>1, <2>1, AttemptOrder
<1>3. offered \subseteq offered' /\ OnDisk' = OnDisk  BY DEF OnDisk
<1>4. OrderIn(disk', OnDisk', offered')  BY <1>3, OrderGrows DEF OrderInv
<1>5. ASSUME writer' = "writing" PROVE OrderIn(snap', InSnap', offered')
  <2>1. writer = "writing" /\ snap' = snap  BY <1>5
  <2>2. InSnap' = InSnap  BY <2>1 DEF InSnap
  <2> QED  BY <1>3, <2>1, <2>2, OrderGrows DEF OrderInv
<1>6. ASSUME writer' = "mkdir"
      PROVE  OrderIn(entry', snapKeys', offered') /\ LeftWhole(entry', snapKeys', queued', offered')
  <2>1. CASE snapKeys' = queued'  BY <1>2, <2>1 DEF LeftWhole
  <2>2. CASE UNCHANGED <<writer, snapKeys, snap>>
    <3>1. /\ OrderIn(e, snapKeys, offered) /\ LeftWhole(e, snapKeys, queued', offered)
          /\ snapKeys \in SUBSET Msgs
      BY <1>6, <2>2 DEF TypeOK
    <3>2. OrderIn(entry', snapKeys, offered')  BY <3>1, AttemptOrder
    <3>3. \A m \in Msgs : entry'[m].chan = e[m].chan  BY AttemptedType
    <3>4. LeftWhole(entry', snapKeys, queued', offered')
      BY <1>3, <3>1, <3>3 DEF LeftWhole
    <3> QED  BY <2>2, <3>2, <3>4
  <2> QED  BY <2>1, <2>2
<1>7. OrderIn(entry, queued, offered)' /\ DeliveredIn(entry, offered)'
  BY <1>2 DEF OrderIn, DeliveredIn
<1>8. OrderIn(disk, OnDisk, offered)'  BY <1>4 DEF OrderIn
<1>9. writer' = "writing" => OrderIn(snap, InSnap, offered)'  BY <1>5 DEF OrderIn
<1>10. writer' = "mkdir" =>
         OrderIn(entry, snapKeys, offered)' /\ LeftWhole(entry, snapKeys, queued, offered)'
  BY <1>6 DEF OrderIn, LeftWhole
<1> QED  BY <1>7, <1>8, <1>9, <1>10 DEF OrderInv

\* A handler that attempts nothing.
LEMMA OrderQuiet ==
  ASSUME TypeOK, OrderInv, queued' \in SUBSET queued, UNCHANGED <<entry, offered, disk>>,
         writer = "mkdir" => LeftWhole(entry, snapKeys, queued', offered),
         \/ UNCHANGED <<writer, snapKeys, snap>>
         \/ writer = "idle" /\ writer' = "mkdir" /\ snapKeys' = queued'
  PROVE  OrderInv'
<1>1. Deliverable(entry, queued', {}) = {}  BY DEF Deliverable, Due
<1>2. Attempted(entry, {}) = entry /\ Sent(entry, {}) = {}  BY DEF Attempted, Sent, TypeOK
<1>3. OrderIn(entry, queued', offered) /\ DeliveredIn(entry, offered)
  BY DEF OrderInv, OrderIn
<1>4. queued' \in SUBSET Msgs /\ entry \in [Msgs -> Entry]  BY DEF TypeOK
<1>5. writer = "mkdir" => OrderIn(entry, snapKeys, offered)  BY DEF OrderInv
<1>6. entry' = Attempted(entry, Deliverable(entry, queued', {}))  BY <1>1, <1>2
<1>7. offered' = offered \cup Sent(entry, Deliverable(entry, queued', {}))  BY <1>1, <1>2
<1> QED  BY <1>3, <1>4, <1>5, <1>6, <1>7, OrderHandler

LEMMA OrderFeed ==
  ASSUME TypeOK, KeepInv, OrderInv, NEW c \in Channels, NEW connected \in BOOLEAN,
         Feed(c, connected)
  PROVE  OrderInv'
<1> DEFINE e == Enqueued(c)
           C == IF connected THEN {c} ELSE {}
           due == IF connected THEN Deliverable(e, queued \cup {next}, {c}) ELSE {}
<1>1. /\ next \in Msgs /\ queued' = queued \cup {next}
      /\ entry' = Attempted(e, due) /\ offered' = offered \cup Sent(e, due) /\ disk' = disk
      /\ SchedulePersist(TRUE, due # {})
  BY DEF Feed, storage
<1>2. e \in [Msgs -> Entry]  BY <1>1, EnqueuedType DEF TypeOK
<1>3. /\ e[next].deliveries = 0 /\ e[next].status = "pending"
      /\ \A m \in Msgs : m # next => e[m] = entry[m]
  BY <1>1 DEF Enqueued, TypeOK
<1>4. due = Deliverable(e, queued', C)  BY <1>1 DEF Deliverable, Due
<1>5. queued' \in SUBSET Msgs  BY <1>1 DEF TypeOK
<1>6. \/ UNCHANGED <<writer, snapKeys, snap>>
      \/ writer = "idle" /\ writer' = "mkdir" /\ snapKeys' = queued'
  BY <1>1, SchedulePersistEffect
<1>7. /\ \A m \in queued : m < next /\ m # next
      /\ writer = "mkdir" => \A m \in snapKeys : m < next /\ m # next
      /\ snapKeys \subseteq Msgs /\ queued \subseteq Msgs
  BY <1>1, SMTT(30) DEF KeepInv, TypeOK, Msgs
<1> HIDE DEF e, due, C
<1>8. OrderIn(e, queued', offered)
  <2> SUFFICES ASSUME NEW m \in queued', NEW j \in queued', j < m, e[m].chan = e[j].chan,
                      e[m].deliveries > 0, e[j].status # "dead"
               PROVE  j \in offered
    BY DEF OrderIn
  <2>1. m # next  BY <1>3
  <2>2. m \in queued /\ m < next  BY <1>1, <1>7, <2>1
  <2>3. j # next  BY <1>1, <1>5, <2>2 DEF Msgs
  <2>4. j \in queued  BY <1>1, <2>3
  <2>5. e[m] = entry[m] /\ e[j] = entry[j]  BY <1>3, <1>7, <2>1, <2>2, <2>3, <2>4
  <2> QED  BY <2>2, <2>4, <2>5 DEF OrderInv, OrderIn
<1>9. DeliveredIn(e, offered)  BY <1>1, <1>3 DEF OrderInv, DeliveredIn
<1>10. ASSUME writer = "mkdir"
       PROVE  OrderIn(e, snapKeys, offered) /\ LeftWhole(e, snapKeys, queued', offered)
  <2>1. \A m \in snapKeys : e[m] = entry[m] /\ (m \in queued' <=> m \in queued)
    BY <1>1, <1>3, <1>7, <1>10
  <2>2. OrderIn(entry, snapKeys, offered) /\ LeftWhole(entry, snapKeys, queued, offered)
    BY <1>10 DEF OrderInv
  <2> QED  BY <2>1, <2>2 DEF OrderIn, LeftWhole
<1>11. /\ entry' = Attempted(e, Deliverable(e, queued', C))
       /\ offered' = offered \cup Sent(e, Deliverable(e, queued', C))
  BY <1>1, <1>4, Zenon
<1> QED  BY <1>1, <1>2, <1>5, <1>6, <1>8, <1>9, <1>10, <1>11, OrderHandler

LEMMA OrderDeliver ==
  ASSUME TypeOK, OrderInv, NEW C \in SUBSET Channels, Deliver(C)
  PROVE  OrderInv'
<1> DEFINE due == Deliverable(entry, queued, C)
<1>1. /\ queued' = queued /\ entry' = Attempted(entry, due)
      /\ offered' = offered \cup Sent(entry, due) /\ disk' = disk
      /\ SchedulePersist(due # {}, Several(due))
  BY DEF Deliver, storage
<1>2. \/ UNCHANGED <<writer, snapKeys, snap>>
      \/ writer = "idle" /\ writer' = "mkdir" /\ snapKeys' = queued'
  BY <1>1, SchedulePersistEffect DEF Several
<1>3. /\ OrderIn(entry, queued', offered) /\ DeliveredIn(entry, offered)
      /\ writer = "mkdir" =>
           OrderIn(entry, snapKeys, offered) /\ LeftWhole(entry, snapKeys, queued', offered)
  BY <1>1 DEF OrderInv
<1>4. queued' \in SUBSET Msgs /\ entry \in [Msgs -> Entry]  BY <1>1 DEF TypeOK
<1>5. /\ entry' = Attempted(entry, Deliverable(entry, queued', C))
      /\ offered' = offered \cup Sent(entry, Deliverable(entry, queued', C))
  BY <1>1
<1>6. disk' = disk  BY <1>1
<1> HIDE DEF due
<1> QED  BY <1>2, <1>3, <1>4, <1>5, <1>6, OrderHandler

LEMMA OrderSweep ==
  ASSUME TypeOK, OrderInv, NEW C \in SUBSET Channels, SweepQueue(C)
  PROVE  OrderInv'
<1> DEFINE e == Killed(Expired)
           due == Deliverable(e, queued, C)
<1>1. /\ queued' = queued /\ entry' = Attempted(e, due)
      /\ offered' = offered \cup Sent(e, due) /\ disk' = disk
      /\ SchedulePersist(Expired # {} \/ due # {},
                         Several(due) \/ (Expired # {} /\ due # {}))
  BY DEF SweepQueue, storage
<1>2. \/ UNCHANGED <<writer, snapKeys, snap>>
      \/ writer = "idle" /\ writer' = "mkdir" /\ snapKeys' = queued'
  BY <1>1, SchedulePersistEffect DEF Several
<1>3. e \in [Msgs -> Entry] /\ \A m \in Msgs : e[m].chan = entry[m].chan
  BY KilledType DEF TypeOK, Expired, Live
<1>4. \A m \in Msgs : /\ e[m].deliveries = entry[m].deliveries
                      /\ e[m].status # "dead" => entry[m].status = e[m].status
  BY DEF Killed, TypeOK, Entry
<1>5. /\ entry' = Attempted(e, Deliverable(e, queued', C))
      /\ offered' = offered \cup Sent(e, Deliverable(e, queued', C)) /\ disk' = disk
  BY <1>1
<1> HIDE DEF e, due
<1>6. queued' = queued /\ queued \subseteq Msgs /\ snapKeys \subseteq Msgs  BY <1>1 DEF TypeOK
<1>7. OrderIn(e, queued', offered) /\ DeliveredIn(e, offered)
  BY <1>3, <1>4, <1>6 DEF OrderInv, OrderIn, DeliveredIn
<1>8. writer = "mkdir" =>
        OrderIn(e, snapKeys, offered) /\ LeftWhole(e, snapKeys, queued', offered)
  BY <1>3, <1>4, <1>6 DEF OrderInv, OrderIn, LeftWhole
<1>9. queued' \in SUBSET Msgs  BY <1>6
<1> QED  BY <1>2, <1>3, <1>5, <1>7, <1>8, <1>9, OrderHandler

LEMMA OrderLeave ==
  ASSUME TypeOK, OrderInv,
         \/ \E m \in Msgs : Ack(m)
         \/ \E c \in Channels : ClearChannel(c)
         \/ StopBegin
  PROVE  OrderInv'
<1>1. ASSUME NEW m \in Msgs, Ack(m) PROVE OrderInv'
  <2>1. /\ m \in offered /\ queued' = queued \ {m} /\ UNCHANGED <<entry, offered, disk>>
        /\ SchedulePersist(m \in queued, FALSE)
    BY <1>1 DEF Ack, storage
  <2>2. writer = "mkdir" => LeftWhole(entry, snapKeys, queued', offered)
    BY <2>1 DEF OrderInv, LeftWhole
  <2>3. \/ UNCHANGED <<writer, snapKeys, snap>>
        \/ writer = "idle" /\ writer' = "mkdir" /\ snapKeys' = queued'
    BY <1>1 DEF Ack, SchedulePersist, writing
  <2> QED  BY <2>1, <2>2, <2>3, OrderQuiet
<1>2. ASSUME NEW c \in Channels, ClearChannel(c) PROVE OrderInv'
  <2> DEFINE gone == {m \in queued : entry[m].chan = c}
  <2>1. /\ queued' = queued \ gone /\ UNCHANGED <<entry, offered, disk>>
        /\ SchedulePersist(gone # {}, FALSE)
    BY <1>2 DEF ClearChannel, storage
  <2>2. writer = "mkdir" => LeftWhole(entry, snapKeys, queued', offered)
    BY <2>1 DEF OrderInv, LeftWhole
  <2>3. \/ UNCHANGED <<writer, snapKeys, snap>>
        \/ writer = "idle" /\ writer' = "mkdir" /\ snapKeys' = queued'
    BY <2>1, SchedulePersistEffect
  <2> QED  BY <2>1, <2>2, <2>3, OrderQuiet
<1>3. CASE StopBegin
  <2>1. queued' = queued /\ UNCHANGED <<entry, offered, disk>> /\ SchedulePersist(TRUE, FALSE)
    BY <1>3 DEF StopBegin, storage, history
  <2>2. writer = "mkdir" => LeftWhole(entry, snapKeys, queued', offered)
    BY <2>1 DEF OrderInv
  <2>3. \/ UNCHANGED <<writer, snapKeys, snap>>
        \/ writer = "idle" /\ writer' = "mkdir" /\ snapKeys' = queued'
    BY <2>1, SchedulePersistEffect
  <2> QED  BY <2>1, <2>2, <2>3, OrderQuiet
<1> QED  BY <1>1, <1>2, <1>3

LEMMA OrderSerialize ==
  ASSUME TypeOK, KeepInv, OrderInv, Serialize
  PROVE  OrderInv'
<1>1. /\ writer = "mkdir" /\ writer' = "writing" /\ UNCHANGED <<queued, entry, offered, disk>>
      /\ snap' = [m \in Msgs |-> IF m \in snapKeys THEN entry[m] ELSE NoEntry]
  BY DEF Serialize, memory, storage, history
<1>2. snapKeys \subseteq Msgs /\ \A m \in snapKeys : entry[m].chan # NoChannel
  BY <1>1, EntriesAssumption DEF KeepInv, TypeOK
<1>3. \A m \in Msgs : /\ m \in snapKeys => snap'[m] = entry[m]
                      /\ m \notin snapKeys => snap'[m].chan = NoChannel
  BY <1>1 DEF NoEntry
<1>4. InSnap' = snapKeys  BY <1>2, <1>3 DEF InSnap
<1>5. OrderIn(snap', InSnap', offered')  BY <1>1, <1>2, <1>3, <1>4 DEF OrderInv, OrderIn
<1>6. OrderIn(snap, InSnap, offered)'  BY <1>5 DEF OrderIn
<1>7. OnDisk' = OnDisk  BY <1>1 DEF OnDisk
<1>8. /\ OrderIn(entry, queued, offered)' /\ DeliveredIn(entry, offered)'
      /\ OrderIn(disk, OnDisk, offered)'
  BY <1>1, <1>7 DEF OrderInv, OrderIn, DeliveredIn
<1> QED  BY <1>1, <1>6, <1>8 DEF OrderInv

\* A write ends, and the loop goes round on what the Map holds now.
LEMMA OrderWriteEnds ==
  ASSUME TypeOK, OrderInv, WriteLands \/ WriteFails
  PROVE  OrderInv'
<1>1. UNCHANGED <<queued, entry, offered>> /\ NextIteration
  BY DEF WriteLands, WriteFails, memory, history
<1>2. OrderIn(disk', OnDisk', offered')
  <2>1. CASE WriteLands
    <3>1. writer = "writing" /\ disk' = snap /\ OnDisk' = InSnap
      BY <2>1 DEF WriteLands, OnDisk, InSnap
    <3> QED  BY <1>1, <3>1 DEF OrderInv
  <2>2. CASE WriteFails
    <3>1. disk' = disk /\ OnDisk' = OnDisk  BY <2>2 DEF WriteFails, OnDisk
    <3> QED  BY <1>1, <3>1 DEF OrderInv
  <2> QED  BY <2>1, <2>2
<1>3. OrderIn(entry', queued', offered') /\ DeliveredIn(entry', offered')
  BY <1>1 DEF OrderInv
<1>4. writer' # "writing" /\ (writer' = "mkdir" => snapKeys' = queued')
  BY <1>1 DEF NextIteration
<1>5. writer' = "mkdir" =>
        OrderIn(entry', snapKeys', offered') /\ LeftWhole(entry', snapKeys', queued', offered')
  BY <1>3, <1>4 DEF LeftWhole
<1>6. /\ OrderIn(entry, queued, offered)' /\ DeliveredIn(entry, offered)'
      /\ OrderIn(disk, OnDisk, offered)'
  BY <1>2, <1>3 DEF OrderIn, DeliveredIn
<1>7. writer' = "mkdir" =>
        OrderIn(entry, snapKeys, offered)' /\ LeftWhole(entry, snapKeys, queued, offered)'
  BY <1>5 DEF OrderIn, LeftWhole
<1> QED  BY <1>4, <1>6, <1>7 DEF OrderInv

\* A life ends, or the next one loads the file.
LEMMA OrderLives ==
  ASSUME TypeOK, KeepInv, OrderInv, StopDone \/ Crash \/ Start
  PROVE  OrderInv'
<1>1. disk' = disk /\ offered' = offered
  BY DEF StopDone, Crash, Start, storage, history
<1>2. OrderIn(disk, OnDisk, offered)'
  BY <1>1 DEF OrderInv, OrderIn, OnDisk
<1>3. writer' = "idle"
  BY DEF StopDone, Crash, Start, Forget, KeepInv, writing
<1>4. OrderIn(entry, queued, offered)' /\ DeliveredIn(entry, offered)'
  <2>1. CASE StopDone \/ Crash
    <3>1. queued' = {} /\ \A m \in Msgs : entry'[m].status = "pending"
      BY <2>1 DEF StopDone, Crash, Forget, Empty, NoEntry
    <3> QED  BY <3>1 DEF OrderIn, DeliveredIn
  <2>2. CASE Start
    <3>1. /\ queued' = Recoverable
          /\ entry' = [m \in Msgs |-> IF m \in Recoverable
                                      THEN [disk[m] EXCEPT !.status = "pending"] ELSE NoEntry]
      BY <2>2 DEF Start
    <3>2. \A m \in Msgs : entry'[m].status = "pending"
      BY <3>1 DEF NoEntry, TypeOK, Entry
    <3>3. \A m \in Recoverable : /\ m \in OnDisk /\ disk[m].status # "dead"
                                 /\ entry'[m].chan = disk[m].chan
                                 /\ entry'[m].deliveries = disk[m].deliveries
      BY <3>1 DEF Recoverable, OnDisk, TypeOK, Entry
    <3>4. OrderIn(entry', Recoverable, offered)
      BY <3>3 DEF OrderInv, OrderIn
    <3> QED  BY <1>1, <3>1, <3>2, <3>4 DEF OrderIn, DeliveredIn
  <2> QED  BY <2>1, <2>2
<1> QED  BY <1>2, <1>3, <1>4 DEF OrderInv

LEMMA OrderStep == TypeOK /\ KeepInv /\ OrderInv /\ [Next]_qvars => OrderInv'
<1> SUFFICES ASSUME TypeOK, KeepInv, OrderInv, [Next]_qvars PROVE OrderInv'
  OBVIOUS
<1>1. CASE ClockStep \/ UNCHANGED qvars
  <2>1. UNCHANGED <<queued, entry, writer, snapKeys, snap, disk, offered>>
    BY <1>1 DEF ClockStep, WindowElapses, Ages, qvars, memory, writing, storage, history
  <2>2. InSnap' = InSnap /\ OnDisk' = OnDisk  BY <2>1 DEF InSnap, OnDisk
  <2> QED  BY <2>1, <2>2 DEF OrderInv, OrderIn, DeliveredIn, LeftWhole
<1> QED  BY <1>1, OrderFeed, OrderDeliver, OrderSweep, OrderLeave, OrderSerialize,
            OrderWriteEnds, OrderLives DEF Next, WriterStep, LifeStep

\* Oldest first, across crashes, failed writes and forgotten acks: an entry counts an
\* attempt only when every older live entry of its channel has been sent to a shim.
THEOREM OldestFirst == Spec => []NoOvertaking
<1>1. Init => OrderInv
  BY DEF Init, OrderInv, OrderIn, DeliveredIn, OnDisk, Empty, NoEntry
<1>2. TypeOK /\ OrderInv => NoOvertaking
  BY DEF OrderInv, OrderIn, NoOvertaking, Live, TypeOK
<1>3. TypeOK /\ KeepInv /\ OrderInv /\ [Next]_qvars => OrderInv'  BY OrderStep
<1> QED  BY <1>1, <1>2, <1>3, KeepCorrect, PTL DEF Spec
================================================================================
