-------------------------- MODULE BrokerServer_proofs --------------------------
(* Proofs about the broker's server side, BrokerServer: the registrations stay in   *)
(* order, only what a CLI was handed is acked, no message crosses to another        *)
(* channel, and a live message leaves the queue only for one of three reasons.      *)
EXTENDS BrokerServer, FiniteSetTheorems, FunctionTheorems, SequenceTheorems, TLAPS

--------------------------------------------------------------------------------
(* The order of a backlog.                                                          *)

\* Oldest lists every message of a set, in ascending order: the rank of a message
\* among the set numbers it, and distinct messages have distinct ranks.
LEMMA OldestSorts ==
  ASSUME NEW S \in SUBSET Msgs
  PROVE  /\ Oldest(S) \in [1..Cardinality(S) -> S] /\ Cardinality(S) \in Nat
         /\ Range(Oldest(S)) = S
         /\ \A i, j \in 1..Cardinality(S) : i < j => Oldest(S)[i] < Oldest(S)[j]
<1> DEFINE n == Cardinality(S)
           Upto(x) == {y \in S : y <= x}
           rank == [x \in S |-> Cardinality(Upto(x))]
<1>1. IsFiniteSet(Msgs)  BY FS_Interval, EntriesAssumption DEF Msgs
<1>2. IsFiniteSet(S)  BY <1>1, FS_Subset
<1>3. n \in Nat  BY <1>2, FS_CardinalityType
<1>4. \A x \in S : x \in Int  BY DEF Msgs
<1>5. \A x \in S : Upto(x) \in SUBSET S  OBVIOUS
<1>6. \A x \in S : IsFiniteSet(Upto(x)) /\ Cardinality(Upto(x)) \in Nat /\ Cardinality(Upto(x)) <= n
  BY <1>2, <1>5, FS_Subset, FS_CardinalityType
<1>7. \A x \in S : Cardinality(Upto(x)) # 0
  <2> TAKE x \in S
  <2>1. x \in Upto(x)  BY <1>4
  <2> HIDE DEF Upto
  <2> QED  BY <2>1, <1>6, FS_EmptySet
<1>8. ASSUME NEW x \in S, NEW y \in S, x < y
      PROVE  Cardinality(Upto(x)) < Cardinality(Upto(y))
  <2>1. Upto(x) \in SUBSET Upto(y)  BY <1>4, <1>8
  <2>2. y \in Upto(y) /\ y \notin Upto(x)  BY <1>4, <1>8
  <2> HIDE DEF Upto
  <2>3. /\ Cardinality(Upto(x)) <= Cardinality(Upto(y))
        /\ Cardinality(Upto(y)) # Cardinality(Upto(x))
    BY <1>6, <2>1, <2>2, FS_Subset
  <2> QED  BY <1>6, <2>3
<1> HIDE DEF Upto
<1>9. rank \in [S -> 1..n]  BY <1>3, <1>6, <1>7
<1>10. \A x \in S : rank[x] = Cardinality(Upto(x))  OBVIOUS
<1> HIDE DEF rank
<1>11. \A x, y \in S : rank[x] = rank[y] => x = y
  <2> SUFFICES ASSUME NEW x \in S, NEW y \in S, rank[x] = rank[y] PROVE x = y
    OBVIOUS
  <2>1. ~(x < y) /\ ~(y < x)  BY <1>6, <1>8, <1>10
  <2> QED  BY <1>4, <2>1
<1>12. rank \in Injection(S, 1..n)  BY <1>9, <1>11, Fun_IsInj
<1>13. IsFiniteSet(1..n) /\ Cardinality(1..n) = n  BY <1>3, FS_Interval
<1>14. rank \in Surjection(S, 1..n)  BY <1>12, <1>13, FS_Injection
<1> DEFINE q == [i \in 1..n |-> CHOOSE x \in S : rank[x] = i]
<1>15. \A i \in 1..n : \E x \in S : rank[x] = i  BY <1>14 DEF Surjection
<1>16. \A i \in 1..n : q[i] \in S /\ rank[q[i]] = i  BY <1>15
<1>17. q \in [1..n -> S]  BY <1>16
<1> HIDE DEF q
<1>18. ASSUME NEW i \in 1..n, NEW j \in 1..n, i < j PROVE q[i] < q[j]
  <2>1. i \in Int /\ j \in Int /\ q[i] # q[j] /\ q[i] \in S /\ q[j] \in S  BY <1>3, <1>16, <1>18
  <2>2. ~(q[j] < q[i])
    <3> SUFFICES ASSUME q[j] < q[i] PROVE FALSE
      OBVIOUS
    <3>1. rank[q[j]] < rank[q[i]]  BY <1>8, <1>10, <2>1
    <3> QED  BY <1>16, <1>18, <2>1, <3>1
  <2> QED  BY <1>4, <2>1, <2>2
<1>19. \E p \in [1..n -> S] : \A i, j \in 1..n : i < j => p[i] < p[j]  BY <1>17, <1>18
<1>20. /\ Oldest(S) \in [1..n -> S]
       /\ \A i, j \in 1..n : i < j => Oldest(S)[i] < Oldest(S)[j]
  BY <1>19 DEF Oldest
<1> DEFINE o == Oldest(S)
<1> HIDE DEF o, n
<1>21. \A i, j \in 1..n : o[i] = o[j] => i = j
  <2> SUFFICES ASSUME NEW i \in 1..n, NEW j \in 1..n, o[i] = o[j] PROVE i = j
    OBVIOUS
  <2>1. i \in Int /\ j \in Int /\ o[i] \in Int /\ o[j] \in Int  BY <1>3, <1>4, <1>20 DEF o
  <2> QED  BY <1>20, <2>1 DEF o
<1>22. o \in Injection(1..n, S)  BY <1>20, <1>21, Fun_IsInj DEF o
<1>23. o \in Surjection(1..n, S)
  <2>1. Cardinality(1..n) = Cardinality(S)  BY <1>13 DEF n
  <2> QED  BY <1>2, <1>22, <2>1, FS_Injection
<1>24. Range(o) = S  BY <1>20, <1>23 DEF Range, Surjection, o
<1> QED  BY <1>3, <1>20, <1>24 DEF o, n

\* What the ends of a pipe do to the messages in it.
LEMMA HeadTail ==
  ASSUME NEW S, NEW s \in Seq(S), s # <<>>
  PROVE  /\ Head(s) \in S /\ Head(s) \in Range(s)
         /\ Tail(s) \in Seq(S) /\ Range(Tail(s)) \subseteq Range(s)
<1>1. Head(s) = s[1] /\ 1 \in DOMAIN s /\ Head(s) \in S /\ Tail(s) \in Seq(S)  OBVIOUS
<1>2. \A i \in 1..Len(Tail(s)) : Tail(s)[i] = s[i + 1] /\ i + 1 \in 1..Len(s)  OBVIOUS
<1>3. Range(Tail(s)) = {Tail(s)[i] : i \in 1..Len(Tail(s))} /\ Range(s) = {s[i] : i \in 1..Len(s)}
  BY <1>1, RangeEquality
<1> QED  BY <1>1, <1>2, <1>3 DEF Range

LEMMA Appending ==
  ASSUME NEW S, NEW s \in Seq(S), NEW x \in S
  PROVE  Append(s, x) \in Seq(S) /\ Range(Append(s, x)) = Range(s) \cup {x}
<1>1. Append(s, x) \in Seq(S)  OBVIOUS
<1>2. /\ Range(Append(s, x)) = {Append(s, x)[i] : i \in 1..Len(Append(s, x))}
      /\ Range(s) = {s[i] : i \in 1..Len(s)}
  BY <1>1, RangeEquality
<1>3. /\ Len(Append(s, x)) = Len(s) + 1 /\ Len(s) \in Nat /\ Append(s, x)[Len(s) + 1] = x
      /\ \A i \in 1..Len(s) : Append(s, x)[i] = s[i]
  OBVIOUS
<1> QED  BY <1>1, <1>2, <1>3

--------------------------------------------------------------------------------
(* The inductive invariant, in parts that each read few variables.                  *)

QueueType == next \in 1..(MaxMsgs + 1) /\ entry \in [Msgs -> Entry] /\ file \in [Msgs -> Entry]
RouteType == /\ ownership \in [Channels -> Bots \cup {NoBot}]
             /\ owner \in [Channels -> Conns \cup {NoConn}]
             /\ latest \in [Channels -> Conns \cup {NoConn}]
Slot == [chan: Channels \cup {NoChannel}, server: BOOLEAN, client: BOOLEAN,
         reg: Channels \cup {NoChannel}]
SlotType == conn \in [Conns -> Slot]
Session == [phase: {"off", "starting", "open", "waiting"}, chan: Channels \cup {NoChannel},
            conn: Conns \cup {NoConn}, toAck: SUBSET Msgs]
SessionType == shim \in [Shims -> Session]
BoundType == daemon \in {"up", "down"} /\ crashes \in 0..MaxCrashes /\ launches \in 0..MaxLaunches
HistoryType == emitted \subseteq Channels \X Msgs /\ acked \subseteq Msgs
Pipes == up \in [Conns -> Seq(Msgs \cup {Register})] /\ down \in [Conns -> Seq(Msgs)]

\* An end is open for one channel, and only that one can be registered on it.
Slots == \A k \in Conns :
  /\ conn[k].reg \in {NoChannel, conn[k].chan}
  /\ conn[k].server \/ conn[k].client => conn[k].chan \in Channels
  /\ ~conn[k].client => down[k] = <<>>

\* A shim that is open has the client end of a connection for its channel to itself.
Sessions ==
  /\ \A s \in Shims :
       /\ shim[s].phase = "open" => /\ shim[s].conn \in Conns
                                    /\ conn[shim[s].conn].client
                                    /\ conn[shim[s].conn].chan = shim[s].chan
       /\ shim[s].phase # "open" => shim[s].conn = NoConn
       /\ shim[s].phase # "off" => shim[s].chan \in Channels
  /\ \A s, t \in Shims : /\ shim[s].phase = "open" /\ shim[t].phase = "open"
                         /\ shim[s].conn = shim[t].conn
                         => s = t

\* Where a message of a channel can be: in the Map, in the file, on its way to a shim,
\* or handed to a CLI.
Placed == {p \in Channels \X Msgs :
  \/ entry[p[2]].chan = p[1] \/ file[p[2]].chan = p[1] \/ p \in emitted
  \/ \E k \in Conns : conn[k].chan = p[1] /\ p[2] \in Range(down[k])}

\* All the places of a message agree on its channel, and none is taken before the
\* message is fed.
OneChannel == /\ \A p \in Placed : p[2] < next
              /\ \A p, q \in Placed : p[2] = q[2] => p = q

\* An ack, due, under way or done, is for a message a CLI was handed.
Acks == /\ \A k \in Conns : \A m \in Range(up[k]) : m # Register => Reached(m)
        /\ \A s \in Shims : \A m \in shim[s].toAck : Reached(m)
        /\ AckedWasEmitted

DownDaemon == daemon = "down" => entry = Empty /\ \A k \in Conns : ~conn[k].server

Registered == OwnersAreOpen /\ NewestRegistrationServes

Types == /\ QueueType /\ RouteType /\ SlotType /\ SessionType /\ BoundType /\ HistoryType
         /\ Pipes
SInv == Types /\ Slots /\ Sessions /\ OneChannel /\ Acks /\ DownDaemon /\ Registered

LEMMA TypesSuffice == Types => TypeOK
<1> SUFFICES ASSUME Types PROVE TypeOK
  OBVIOUS
<1>1. \A k \in Conns : Range(down[k]) \subseteq Msgs /\ Range(up[k]) \subseteq Msgs \cup {0}
  BY RangeOfSeq DEF Types, Pipes, Register
<1> QED  BY <1>1 DEF Types, QueueType, RouteType, SlotType, Slot, SessionType, Session,
                     BoundType, HistoryType, TypeOK

\* A step keeps every part whose variables it leaves alone.
LEMMA Frames ==
  /\ QueueType /\ UNCHANGED <<next, entry, file>> => QueueType'
  /\ RouteType /\ UNCHANGED <<ownership, owner, latest>> => RouteType'
  /\ SlotType /\ UNCHANGED conn => SlotType'
  /\ SessionType /\ UNCHANGED shim => SessionType'
  /\ BoundType /\ UNCHANGED bounds => BoundType'
  /\ HistoryType /\ UNCHANGED <<emitted, acked>> => HistoryType'
  /\ Pipes /\ UNCHANGED <<up, down>> => Pipes'
  /\ Slots /\ UNCHANGED <<conn, down>> => Slots'
  /\ Sessions /\ UNCHANGED <<shim, conn>> => Sessions'
  /\ OneChannel /\ UNCHANGED <<next, entry, file, emitted, conn, down>> => OneChannel'
  /\ Acks /\ UNCHANGED <<up, shim, acked, emitted>> => Acks'
  /\ DownDaemon /\ UNCHANGED <<daemon, entry, conn>> => DownDaemon'
  /\ DownDaemon /\ daemon' = "up" => DownDaemon'
  /\ Registered /\ UNCHANGED <<latest, owner, conn>> => Registered'
<1>1. QueueType /\ UNCHANGED <<next, entry, file>> => QueueType'  BY DEF QueueType
<1>2. RouteType /\ UNCHANGED <<ownership, owner, latest>> => RouteType'  BY DEF RouteType
<1>3. SlotType /\ UNCHANGED conn => SlotType'  BY DEF SlotType
<1>4. SessionType /\ UNCHANGED shim => SessionType'  BY DEF SessionType
<1>5. BoundType /\ UNCHANGED bounds => BoundType'  BY DEF BoundType, bounds
<1>6. HistoryType /\ UNCHANGED <<emitted, acked>> => HistoryType'  BY DEF HistoryType
<1>7. Pipes /\ UNCHANGED <<up, down>> => Pipes'  BY DEF Pipes
<1>8. Slots /\ UNCHANGED <<conn, down>> => Slots'  BY DEF Slots
<1>9. Sessions /\ UNCHANGED <<shim, conn>> => Sessions'  BY DEF Sessions
<1>10. ASSUME OneChannel, UNCHANGED <<next, entry, file, emitted, conn, down>>
       PROVE  OneChannel'
  <2>1. Placed' = Placed  BY <1>10 DEF Placed
  <2> QED  BY <1>10, <2>1 DEF OneChannel
<1>11. Acks /\ UNCHANGED <<up, shim, acked, emitted>> => Acks'
  BY DEF Acks, Reached, AckedWasEmitted
<1>12. DownDaemon /\ UNCHANGED <<daemon, entry, conn>> => DownDaemon'  BY DEF DownDaemon
<1>13. daemon' = "up" => DownDaemon'  BY DEF DownDaemon
<1>14. Registered /\ UNCHANGED <<latest, owner, conn>> => Registered'
  BY DEF Registered, OwnersAreOpen, NewestRegistrationServes
<1> QED  BY <1>1, <1>2, <1>3, <1>4, <1>5, <1>6, <1>7, <1>8, <1>9, <1>10, <1>11, <1>12, <1>13,
            <1>14

LEMMA NoEntryType == NoEntry \in Entry /\ Empty \in [Msgs -> Entry] /\ NoEntry.chan = NoChannel
  BY EntriesAssumption DEF Empty, NoEntry, Entry, Status

LEMMA InvInit == Init => SInv
<1> SUFFICES ASSUME Init PROVE SInv
  OBVIOUS
<1>1. Types
  <2>1. FreeConn \in Slot /\ DeadShim \in Session  BY DEF FreeConn, Slot, DeadShim, Session
  <2>2. next \in 1..(MaxMsgs + 1)  BY EntriesAssumption DEF Init
  <2>3. daemon = "up" /\ crashes \in 0..MaxCrashes /\ launches \in 0..MaxLaunches
    BY ServerAssumption DEF Init
  <2> QED  BY <2>1, <2>2, <2>3, NoEntryType
           DEF Init, Types, QueueType, RouteType, SlotType, SessionType, BoundType, HistoryType,
               Pipes
<1>2. Slots /\ Sessions  BY DEF Init, Slots, Sessions, FreeConn, DeadShim
<1>3. Placed = {}  BY EntriesAssumption DEF Init, Placed, Empty, NoEntry, Range
<1>4. OneChannel  BY <1>3 DEF OneChannel
<1>5. Acks  BY DEF Init, Acks, AckedWasEmitted, DeadShim, Range
<1>6. DownDaemon /\ Registered
  BY DEF Init, DownDaemon, Registered, OwnersAreOpen, NewestRegistrationServes
<1> QED  BY <1>1, <1>2, <1>4, <1>5, <1>6 DEF SInv

\* The places of the messages may only be taken over from one another.
LEMMA PlacesShrink ==
  ASSUME OneChannel, next' = next,
         \A m \in Msgs : entry'[m].chan \in {entry[m].chan, file[m].chan, NoChannel},
         \A m \in Msgs : file'[m].chan \in {entry[m].chan, file[m].chan, NoChannel},
         \A p \in emitted' : p \in emitted \/ p \in Placed,
         \A k \in Conns, m \in Msgs :
           conn'[k].chan \in Channels /\ m \in Range(down'[k]) => <<conn'[k].chan, m>> \in Placed
  PROVE  OneChannel'
<1>1. ASSUME NEW c \in Channels, NEW m \in Msgs, <<c, m>> \in Placed' PROVE <<c, m>> \in Placed
  <2>1. \/ entry'[m].chan = c \/ file'[m].chan = c \/ <<c, m>> \in emitted'
        \/ \E k \in Conns : conn'[k].chan = c /\ m \in Range(down'[k])
    BY <1>1 DEF Placed
  <2>2. entry[m].chan = c \/ file[m].chan = c \/ <<c, m>> \in emitted => <<c, m>> \in Placed
    BY DEF Placed
  <2> QED  BY <2>1, <2>2, EntriesAssumption
<1>2. Placed' \subseteq Placed
  <2> SUFFICES ASSUME NEW p \in Placed' PROVE p \in Placed
    OBVIOUS
  <2>1. PICK c \in Channels, m \in Msgs : p = <<c, m>>  BY DEF Placed
  <2> QED  BY <1>1, <2>1
<1> QED  BY <1>2 DEF OneChannel

--------------------------------------------------------------------------------
(* Deliveries.                                                                      *)

LEMMA AttemptEntry ==
  ASSUME NEW x \in Entry
  PROVE  Attempt(x) \in Entry /\ Attempt(x).chan = x.chan
<1>1. x.deliveries \in 0..MaxDeliveries /\ MaxDeliveries \in Nat
  BY EntriesAssumption DEF Entry
<1>2. CASE x.deliveries >= MaxDeliveries
  BY <1>2 DEF Attempt, Entry, Status
<1>3. CASE ~(x.deliveries >= MaxDeliveries)
  <2>1. Attempt(x) = [x EXCEPT !.status = "delivered", !.deliveries = @ + 1]
    BY <1>3 DEF Attempt
  <2>2. x.deliveries + 1 \in 0..MaxDeliveries
    BY <1>1, <1>3
  <2> QED  BY <2>1, <2>2 DEF Entry, Status
<1> QED  BY <1>2, <1>3

\* A delivery keeps the channel of every entry, and sends a message only down the
\* connection that its channel is routed to.
LEMMA Delivery ==
  ASSUME Pipes, NEW e \in [Msgs -> Entry], NEW route, NEW stale, DeliverTo(e, route, stale)
  PROVE  /\ entry' \in [Msgs -> Entry] /\ \A m \in Msgs : entry'[m].chan = e[m].chan
         /\ down' \in [Conns -> Seq(Msgs)]
         /\ \A k \in Conns : ~conn[k].client => down'[k] = down[k]
         /\ \A k \in Conns, m \in Msgs : m \in Range(down'[k]) =>
              m \in Range(down[k]) \/ (e[m].chan \in Channels /\ route[e[m].chan] = k)
<1> DEFINE due == Due(e, {m \in Msgs : e[m].chan # NoChannel},
                      {c \in Channels : route[c] # NoConn}, stale)
           For(k) == {m \in Sent(e, due) : route[e[m].chan] = k}
<1>1. entry' = Attempted(e, due)  BY DEF DeliverTo
<1>2. down' = [k \in Conns |-> IF conn[k].client THEN down[k] \o Oldest(For(k)) ELSE down[k]]
  BY DEF DeliverTo
<1>3. \A m \in due : m \in Msgs /\ e[m].chan \in Channels  BY DEF Due
<1> HIDE DEF due
<1>4. \A k \in Conns : For(k) \in SUBSET Msgs  BY <1>3 DEF Sent
<1>5. \A k \in Conns : \A m \in For(k) : e[m].chan \in Channels /\ route[e[m].chan] = k
  BY <1>3 DEF Sent
<1> HIDE DEF For
<1>6. \A k \in Conns : Oldest(For(k)) \in Seq(Msgs) /\ Range(Oldest(For(k))) = For(k)
  <2> TAKE k \in Conns
  <2>1. /\ Oldest(For(k)) \in [1..Cardinality(For(k)) -> For(k)]
        /\ Cardinality(For(k)) \in Nat /\ Range(Oldest(For(k))) = For(k)
    BY <1>4, OldestSorts
  <2> QED  BY <1>4, <2>1
<1>7. ASSUME NEW k \in Conns
      PROVE  /\ down'[k] \in Seq(Msgs) /\ (~conn[k].client => down'[k] = down[k])
             /\ Range(down'[k]) \subseteq Range(down[k]) \cup For(k)
  <2>1. CASE conn[k].client
    <3>1. down'[k] = down[k] \o Oldest(For(k)) /\ down[k] \in Seq(Msgs)
      BY <1>2, <2>1 DEF Pipes
    <3>2. Range(down'[k]) = Range(down[k]) \cup For(k)
      BY <1>6, <3>1, RangeConcatenation
    <3> QED  BY <1>6, <2>1, <3>1, <3>2
  <2>2. CASE ~conn[k].client  BY <1>2, <2>2 DEF Pipes
  <2> QED  BY <2>1, <2>2
<1>8. down' \in [Conns -> Seq(Msgs)]
  <2>1. DOMAIN down' = Conns /\ down' = [k \in Conns |-> down'[k]]  BY <1>2
  <2> QED  BY <1>7, <2>1
<1>9. entry' \in [Msgs -> Entry] /\ \A m \in Msgs : entry'[m].chan = e[m].chan
  BY <1>1, AttemptEntry DEF Attempted
<1> QED  BY <1>5, <1>7, <1>8, <1>9

--------------------------------------------------------------------------------
(* Every step preserves the invariant.                                              *)

LEMMA InvFeed ==
  ASSUME SInv, NEW c \in Channels, Feed(c)
  PROVE  SInv'
<1> DEFINE e == [entry EXCEPT ![next] = [chan |-> c, status |-> "pending", deliveries |-> 0]]
           route == [d \in Channels |-> IF d = c THEN owner[c] ELSE NoConn]
<1>1. /\ next \in Msgs /\ next' = next + 1 /\ daemon = "up"
      /\ UNCHANGED <<file, ownership, owner, conn, up, shim, bounds, emitted, acked, latest>>
  BY DEF Feed
<1>2. PICK stale \in SUBSET Stale : DeliverTo(e, route, stale)  BY DEF Feed
<1>3. e \in [Msgs -> Entry] /\ Pipes
  <2>1. [chan |-> c, status |-> "pending", deliveries |-> 0] \in Entry
    BY EntriesAssumption DEF Entry, Status
  <2> QED  BY <2>1 DEF SInv, Types, QueueType
<1>4. e[next].chan = c /\ \A m \in Msgs : m # next => e[m] = entry[m]
  BY <1>1 DEF SInv, Types, QueueType
<1>5. \A d \in Channels : route[d] # NoConn => d = c /\ route[d] = owner[c]  OBVIOUS
<1> HIDE DEF e, route
<1>6. /\ entry' \in [Msgs -> Entry] /\ \A m \in Msgs : entry'[m].chan = e[m].chan
      /\ down' \in [Conns -> Seq(Msgs)]
      /\ \A k \in Conns : ~conn[k].client => down'[k] = down[k]
      /\ \A k \in Conns, m \in Msgs : m \in Range(down'[k]) =>
           m \in Range(down[k]) \/ (e[m].chan \in Channels /\ route[e[m].chan] = k)
  BY <1>2, <1>3, Delivery
<1>7. ASSUME NEW d \in Channels, NEW m \in Msgs, <<d, m>> \in Placed'
      PROVE  <<d, m>> \in Placed \/ (d = c /\ m = next)
  <2>1. \/ entry'[m].chan = d \/ file[m].chan = d \/ <<d, m>> \in emitted
        \/ \E k \in Conns : conn[k].chan = d /\ m \in Range(down'[k])
    BY <1>1, <1>7 DEF Placed
  <2>2. CASE entry'[m].chan = d
    BY <1>4, <1>6, <2>2 DEF Placed
  <2>3. CASE file[m].chan = d \/ <<d, m>> \in emitted  BY <2>3 DEF Placed
  <2>4. ASSUME NEW k \in Conns, conn[k].chan = d, m \in Range(down'[k])
        PROVE  <<d, m>> \in Placed \/ (d = c /\ m = next)
    <3>1. CASE m \in Range(down[k])  BY <2>4, <3>1 DEF Placed
    <3>2. CASE e[m].chan \in Channels /\ route[e[m].chan] = k
      <4>1. e[m].chan = c /\ k = owner[c]  BY <1>5, <3>2, ServerAssumption
      <4>2. conn[k].reg = c  BY <4>1, <2>4, ServerAssumption DEF SInv, Registered, OwnersAreOpen
      <4>3. conn[k].chan = c  BY <4>2, EntriesAssumption DEF SInv, Slots
      <4> QED  BY <1>4, <2>4, <4>1, <4>3 DEF Placed
    <3> QED  BY <1>6, <2>4, <3>1, <3>2
  <2> QED  BY <2>1, <2>2, <2>3, <2>4
<1>8. OneChannel'
  <2>1. /\ \A p \in Placed : p[2] < next
        /\ \A p, q \in Placed : p[2] = q[2] => p = q
    BY DEF SInv, OneChannel
  <2>2. \A p \in Placed' : p \in Placed \/ p = <<c, next>>
    <3> SUFFICES ASSUME NEW p \in Placed' PROVE p \in Placed \/ p = <<c, next>>
      OBVIOUS
    <3>1. PICK d \in Channels, m \in Msgs : p = <<d, m>>  BY DEF Placed
    <3> QED  BY <1>7, <3>1
  <2>3. next \in Int /\ \A p \in Placed : p[2] \in Int
    BY <1>1 DEF Placed, Msgs
  <2>4. \A p \in Placed' : p[2] < next'  BY <1>1, <2>1, <2>2, <2>3
  <2>5. ASSUME NEW p \in Placed', NEW q \in Placed', p[2] = q[2] PROVE p = q
    BY <2>1, <2>2, <2>3, <2>5
  <2> QED  BY <2>4, <2>5 DEF OneChannel
<1>9. QueueType'  BY <1>1, <1>6, EntriesAssumption DEF SInv, Types, QueueType, Msgs
<1>10. Pipes'  BY <1>1, <1>6 DEF SInv, Types, Pipes
<1>11. Slots'  BY <1>1, <1>6 DEF SInv, Slots
<1>12. daemon' = "up"  BY <1>1 DEF bounds
<1> QED  BY <1>1, <1>8, <1>9, <1>10, <1>11, <1>12, Frames DEF SInv, Types

LEMMA InvSweep ==
  ASSUME SInv, NEW old, Sweep(old)
  PROVE  SInv'
<1> DEFINE e == [m \in Msgs |-> IF m \in Live /\ m <= old
                                THEN [entry[m] EXCEPT !.status = "dead"] ELSE entry[m]]
<1>1. /\ daemon = "up"
      /\ UNCHANGED <<next, file, ownership, owner, conn, up, shim, bounds, emitted, acked, latest>>
  BY DEF Sweep
<1>2. PICK stale \in SUBSET Stale : DeliverTo(e, owner, stale)  BY DEF Sweep
<1>3. e \in [Msgs -> Entry] /\ Pipes /\ \A m \in Msgs : e[m].chan = entry[m].chan
  BY DEF SInv, Types, QueueType, Entry, Status
<1> HIDE DEF e
<1>4. /\ entry' \in [Msgs -> Entry] /\ \A m \in Msgs : entry'[m].chan = entry[m].chan
      /\ down' \in [Conns -> Seq(Msgs)]
      /\ \A k \in Conns : ~conn[k].client => down'[k] = down[k]
      /\ \A k \in Conns, m \in Msgs : m \in Range(down'[k]) =>
           m \in Range(down[k]) \/ (entry[m].chan \in Channels /\ owner[entry[m].chan] = k)
  BY <1>2, <1>3, Delivery
<1>5. ASSUME NEW k \in Conns, NEW m \in Msgs, conn'[k].chan \in Channels, m \in Range(down'[k])
      PROVE  <<conn'[k].chan, m>> \in Placed
  <2>1. conn'[k] = conn[k]  BY <1>1
  <2>2. CASE m \in Range(down[k])  BY <1>5, <2>1, <2>2 DEF Placed
  <2>3. CASE entry[m].chan \in Channels /\ owner[entry[m].chan] = k
    <3>1. conn[k].reg = entry[m].chan
      BY <2>3, ServerAssumption DEF SInv, Registered, OwnersAreOpen
    <3>2. conn[k].chan = entry[m].chan  BY <2>3, <3>1, EntriesAssumption DEF SInv, Slots
    <3> QED  BY <2>1, <2>3, <3>2 DEF Placed
  <2> QED  BY <1>4, <1>5, <2>2, <2>3
<1>6. OneChannel'
  <2>1. \A m \in Msgs : /\ entry'[m].chan \in {entry[m].chan, file[m].chan, NoChannel}
                        /\ file'[m].chan \in {entry[m].chan, file[m].chan, NoChannel}
    BY <1>1, <1>4
  <2>2. OneChannel /\ next' = next /\ \A p \in emitted' : p \in emitted \/ p \in Placed
    BY <1>1 DEF SInv
  <2> QED  BY <1>5, <2>1, <2>2, PlacesShrink
<1>7. QueueType'  BY <1>1, <1>4 DEF SInv, Types, QueueType
<1>8. Pipes'  BY <1>1, <1>4 DEF SInv, Types, Pipes
<1>9. Slots'  BY <1>1, <1>4 DEF SInv, Slots
<1>10. daemon' = "up"  BY <1>1 DEF bounds
<1> QED  BY <1>1, <1>6, <1>7, <1>8, <1>9, <1>10, Frames DEF SInv, Types

LEMMA InvRecvRegister ==
  ASSUME SInv, NEW k \in Conns, RecvRegister(k)
  PROVE  SInv'
<1> DEFINE c == conn[k].chan
           route == [d \in Channels |-> IF d = c THEN k ELSE NoConn]
<1>1. /\ daemon = "up" /\ conn[k].server /\ up[k] # <<>>
      /\ up' = [up EXCEPT ![k] = Tail(@)] /\ conn' = [conn EXCEPT ![k].reg = c]
      /\ owner' = [owner EXCEPT ![c] = k] /\ latest' = [latest EXCEPT ![c] = k]
      /\ UNCHANGED <<next, file, ownership, shim, bounds, emitted, acked>>
  BY DEF RecvRegister
<1>2. PICK stale \in SUBSET Stale : DeliverTo(entry, route, stale)  BY DEF RecvRegister
<1>3. c \in Channels  BY <1>1 DEF SInv, Slots
<1>4. entry \in [Msgs -> Entry] /\ Pipes  BY DEF SInv, Types, QueueType
<1>5. \A d \in Channels : route[d] = k => d = c  BY ServerAssumption
<1>6. \A j \in Conns, d \in Channels : route[d] = j => j = k  BY ServerAssumption
<1> HIDE DEF route
<1>7. /\ entry' \in [Msgs -> Entry] /\ \A m \in Msgs : entry'[m].chan = entry[m].chan
      /\ down' \in [Conns -> Seq(Msgs)]
      /\ \A j \in Conns : ~conn[j].client => down'[j] = down[j]
      /\ \A j \in Conns, m \in Msgs : m \in Range(down'[j]) =>
           m \in Range(down[j]) \/ (entry[m].chan \in Channels /\ route[entry[m].chan] = j)
  BY <1>2, <1>4, Delivery
<1>8. conn \in [Conns -> Slot]  BY DEF SInv, Types, SlotType
<1>9. SlotType' /\ \A j \in Conns : /\ conn'[j].chan = conn[j].chan
                                    /\ conn'[j].server = conn[j].server
                                    /\ conn'[j].client = conn[j].client
                                    /\ conn'[j].reg = IF j = k THEN c ELSE conn[j].reg
  <2>1. conn' = [conn EXCEPT ![k] = [conn[k] EXCEPT !.reg = c]]  BY <1>1
  <2>2. conn[k] \in Slot  BY <1>8
  <2>3. [conn[k] EXCEPT !.reg = c] \in Slot  BY <1>3, <2>2 DEF Slot
  <2> DEFINE new == [conn[k] EXCEPT !.reg = c]
  <2>4. /\ new.chan = conn[k].chan /\ new.server = conn[k].server /\ new.client = conn[k].client
        /\ new.reg = c
    BY <2>2 DEF Slot
  <2> HIDE DEF new, c
  <2>5. SlotType'  BY <1>8, <2>1, <2>3 DEF SlotType, new
  <2>6. conn'[k] = new /\ \A j \in Conns : j # k => conn'[j] = conn[j]  BY <1>8, <2>1 DEF new
  <2> QED  BY <2>4, <2>5, <2>6
<1>10. ASSUME NEW j \in Conns, NEW m \in Msgs, conn'[j].chan \in Channels, m \in Range(down'[j])
       PROVE  <<conn'[j].chan, m>> \in Placed
  <2>1. conn'[j].chan = conn[j].chan  BY <1>9
  <2>2. CASE m \in Range(down[j])  BY <1>10, <2>1, <2>2 DEF Placed
  <2>3. CASE entry[m].chan \in Channels /\ route[entry[m].chan] = j
    <3>1. j = k /\ entry[m].chan = c  BY <1>5, <1>6, <2>3
    <3> QED  BY <1>3, <2>1, <3>1 DEF Placed
  <2> QED  BY <1>7, <1>10, <2>2, <2>3
<1>11. OneChannel'
  <2>1. \A m \in Msgs : /\ entry'[m].chan \in {entry[m].chan, file[m].chan, NoChannel}
                        /\ file'[m].chan \in {entry[m].chan, file[m].chan, NoChannel}
    BY <1>1, <1>7
  <2>2. OneChannel /\ next' = next /\ \A p \in emitted' : p \in emitted \/ p \in Placed
    BY <1>1 DEF SInv
  <2> QED  BY <1>10, <2>1, <2>2, PlacesShrink
<1>12. QueueType'  BY <1>1, <1>7 DEF SInv, Types, QueueType
<1>13. RouteType'  BY <1>1, <1>3 DEF SInv, Types, RouteType
<1>14. /\ up' \in [Conns -> Seq(Msgs \cup {Register})]
       /\ \A j \in Conns : Range(up'[j]) \subseteq Range(up[j])
  <2>1. up \in [Conns -> Seq(Msgs \cup {Register})]  BY <1>4 DEF Pipes
  <2>2. Tail(up[k]) \in Seq(Msgs \cup {Register}) /\ Range(Tail(up[k])) \subseteq Range(up[k])
    BY <1>1, <2>1, HeadTail
  <2> QED  BY <1>1, <2>1, <2>2
<1>15. Pipes'  BY <1>7, <1>14 DEF Pipes
<1>16. Slots'  BY <1>7, <1>9 DEF SInv, Slots
<1>17. Sessions'  BY <1>1, <1>9 DEF SInv, Sessions
<1>18. Acks'  BY <1>1, <1>14 DEF SInv, Acks, Reached, AckedWasEmitted
<1>19. Registered'
  <2>1. owner \in [Channels -> Conns \cup {NoConn}] /\ latest \in [Channels -> Conns \cup {NoConn}]
    BY DEF SInv, Types, RouteType
  <2>2. \A d \in Channels : /\ owner'[d] = IF d = c THEN k ELSE owner[d]
                            /\ latest'[d] = IF d = c THEN k ELSE latest[d]
    BY <1>1, <2>1
  <2>3. conn[k].reg \in {NoChannel, c}  BY DEF SInv, Slots
  <2> HIDE DEF c
  <2>4. OwnersAreOpen'
    BY <1>1, <1>3, <1>9, <2>1, <2>2, <2>3, EntriesAssumption DEF SInv, Registered, OwnersAreOpen
  <2>5. NewestRegistrationServes'
    BY <1>1, <1>3, <1>9, <2>1, <2>2, <2>3 DEF SInv, Registered, NewestRegistrationServes
  <2> QED  BY <2>4, <2>5 DEF Registered
<1>20. daemon' = "up"  BY <1>1 DEF bounds
<1> QED  BY <1>1, <1>9, <1>11, <1>12, <1>13, <1>15, <1>16, <1>17, <1>18, <1>19, <1>20, Frames
         DEF SInv, Types

\* Reading the head of an up pipe.
LEMMA ReadUp ==
  ASSUME Pipes, Acks, NEW k \in Conns, up[k] # <<>>, up' = [up EXCEPT ![k] = Tail(@)]
  PROVE  /\ up' \in [Conns -> Seq(Msgs \cup {Register})]
         /\ \A j \in Conns : Range(up'[j]) \subseteq Range(up[j])
         /\ Head(up[k]) \in Msgs \cup {Register}
         /\ Head(up[k]) # Register => Reached(Head(up[k]))
<1>1. up \in [Conns -> Seq(Msgs \cup {Register})]  BY DEF Pipes
<1>2. /\ Head(up[k]) \in Msgs \cup {Register} /\ Head(up[k]) \in Range(up[k])
      /\ Tail(up[k]) \in Seq(Msgs \cup {Register}) /\ Range(Tail(up[k])) \subseteq Range(up[k])
  BY <1>1, HeadTail
<1>3. Head(up[k]) # Register => Reached(Head(up[k]))  BY <1>2 DEF Acks
<1> QED  BY <1>1, <1>2, <1>3

LEMMA InvRecvAck ==
  ASSUME SInv, NEW k \in Conns, RecvAck(k)
  PROVE  SInv'
<1> DEFINE m == Head(up[k])
<1>1. /\ daemon = "up" /\ up[k] # <<>> /\ m # Register
      /\ up' = [up EXCEPT ![k] = Tail(@)] /\ entry' = [entry EXCEPT ![m] = NoEntry]
      /\ acked' = acked \cup ({m} \cap Queued)
      /\ UNCHANGED <<next, file, ownership, owner, conn, down, shim, bounds, emitted, latest>>
  BY DEF RecvAck
<1>2. /\ up' \in [Conns -> Seq(Msgs \cup {Register})]
      /\ \A j \in Conns : Range(up'[j]) \subseteq Range(up[j])
      /\ m \in Msgs /\ Reached(m)
  BY <1>1, ReadUp DEF SInv, Types
<1> HIDE DEF m
<1>3. entry \in [Msgs -> Entry]  BY DEF SInv, Types, QueueType
<1>4. QueueType'  BY <1>1, <1>3, NoEntryType DEF SInv, Types, QueueType
<1>5. OneChannel'
  <2>1. \A j \in Msgs : /\ entry'[j].chan \in {entry[j].chan, file[j].chan, NoChannel}
                        /\ file'[j].chan \in {entry[j].chan, file[j].chan, NoChannel}
    BY <1>1, <1>3, NoEntryType
  <2>2. OneChannel /\ next' = next /\ \A p \in emitted' : p \in emitted \/ p \in Placed
    BY <1>1 DEF SInv
  <2>3. \A j \in Conns, i \in Msgs :
          conn'[j].chan \in Channels /\ i \in Range(down'[j]) => <<conn'[j].chan, i>> \in Placed
    BY <1>1 DEF Placed
  <2> QED  BY <2>1, <2>2, <2>3, PlacesShrink
<1>6. Pipes'  BY <1>1, <1>2 DEF SInv, Types, Pipes
<1>7. HistoryType'  BY <1>1, <1>2 DEF SInv, Types, HistoryType
<1>8. Acks'  BY <1>1, <1>2 DEF SInv, Acks, Reached, AckedWasEmitted
<1>9. daemon' = "up"  BY <1>1 DEF bounds
<1> QED  BY <1>1, <1>4, <1>5, <1>6, <1>7, <1>8, <1>9, Frames DEF SInv, Types

LEMMA FreeFields ==
  /\ FreeConn.chan = NoChannel /\ FreeConn.reg = NoChannel
  /\ FreeConn.server = FALSE /\ FreeConn.client = FALSE
  BY DEF FreeConn

\* One end of a connection closes.
LEMMA ClosedSlot ==
  ASSUME NEW x \in Slot
  PROVE  /\ x.server => /\ Closed([x EXCEPT !.client = FALSE]) \in Slot
                        /\ Closed([x EXCEPT !.client = FALSE]) = [x EXCEPT !.client = FALSE]
         /\ Closed([x EXCEPT !.client = FALSE]) \in Slot
         /\ ~Closed([x EXCEPT !.client = FALSE]).client
         /\ Closed([x EXCEPT !.client = FALSE]).server = x.server
         /\ ~x.server => Closed([x EXCEPT !.client = FALSE]) = FreeConn
         /\ Closed([x EXCEPT !.server = FALSE]) \in Slot
         /\ ~Closed([x EXCEPT !.server = FALSE]).server
         /\ Closed([x EXCEPT !.server = FALSE]).client = x.client
         /\ x.client => Closed([x EXCEPT !.server = FALSE]) = [x EXCEPT !.server = FALSE]
         /\ ~x.client => Closed([x EXCEPT !.server = FALSE]) = FreeConn
         /\ FreeConn \in Slot
  BY DEF Closed, Slot, FreeConn

LEMMA InvOnClose ==
  ASSUME SInv, NEW k \in Conns, OnClose(k)
  PROVE  SInv'
<1>1. /\ daemon = "up" /\ conn[k].server /\ ~conn[k].client
      /\ conn' = [conn EXCEPT ![k] = Closed([@ EXCEPT !.server = FALSE])]
      /\ owner' = [c \in Channels |-> IF owner[c] = k /\ conn[k].reg = c THEN NoConn ELSE owner[c]]
      /\ UNCHANGED <<next, entry, file, ownership, up, down, shim, bounds, emitted, acked, latest>>
  BY DEF OnClose, queue
<1>2. conn \in [Conns -> Slot] /\ owner \in [Channels -> Conns \cup {NoConn}]
  BY DEF SInv, Types, SlotType, RouteType
<1>3. conn' = [conn EXCEPT ![k] = FreeConn]  BY <1>1, <1>2, ClosedSlot
<1>4. conn'[k] = FreeConn /\ \A j \in Conns : j # k => conn'[j] = conn[j]  BY <1>2, <1>3
<1>5. SlotType'  BY <1>2, <1>3, ClosedSlot DEF SlotType
<1>6. RouteType'  BY <1>1, <1>2 DEF SInv, Types, RouteType
<1>7. Slots'
  <2> SUFFICES ASSUME NEW j \in Conns
               PROVE  /\ conn'[j].reg \in {NoChannel, conn'[j].chan}
                      /\ conn'[j].server \/ conn'[j].client => conn'[j].chan \in Channels
                      /\ ~conn'[j].client => down'[j] = <<>>
    BY DEF Slots
  <2>1. /\ down'[j] = down[j] /\ conn[j].reg \in {NoChannel, conn[j].chan}
        /\ conn[j].server \/ conn[j].client => conn[j].chan \in Channels
        /\ ~conn[j].client => down[j] = <<>>
    BY <1>1 DEF SInv, Slots
  <2>2. CASE j = k  BY <1>1, <1>4, <2>1, <2>2, FreeFields
  <2>3. CASE j # k  BY <1>4, <2>1, <2>3
  <2> QED  BY <2>2, <2>3
<1>8. Sessions'
  <2>1. \A s \in Shims : shim[s].phase = "open" => shim[s].conn # k  BY <1>1 DEF SInv, Sessions
  <2> QED  BY <1>1, <1>4, <2>1 DEF SInv, Sessions
<1>9. OneChannel'
  <2>1. \A m \in Msgs : /\ entry'[m].chan \in {entry[m].chan, file[m].chan, NoChannel}
                        /\ file'[m].chan \in {entry[m].chan, file[m].chan, NoChannel}
    BY <1>1
  <2>2. OneChannel /\ next' = next /\ \A p \in emitted' : p \in emitted \/ p \in Placed
    BY <1>1 DEF SInv
  <2>3. \A j \in Conns, i \in Msgs :
          conn'[j].chan \in Channels /\ i \in Range(down'[j]) => <<conn'[j].chan, i>> \in Placed
    <3> SUFFICES ASSUME NEW j \in Conns, NEW i \in Msgs, conn'[j].chan \in Channels,
                        i \in Range(down'[j])
                 PROVE  <<conn'[j].chan, i>> \in Placed
      OBVIOUS
    <3>1. j # k /\ down'[j] = down[j]  BY <1>1, <1>4, FreeFields, EntriesAssumption
    <3>2. conn'[j] = conn[j]  BY <1>4, <3>1
    <3> QED  BY <3>1, <3>2 DEF Placed
  <2> QED  BY <2>1, <2>2, <2>3, PlacesShrink
<1>10. Registered'
  <2>1. \A c \in Channels : owner'[c] = IF owner[c] = k /\ conn[k].reg = c THEN NoConn ELSE owner[c]
    BY <1>1
  <2>2. OwnersAreOpen'
    BY <1>2, <1>4, <2>1, ServerAssumption DEF SInv, Registered, OwnersAreOpen
  <2>3. latest \in [Channels -> Conns \cup {NoConn}] /\ latest' = latest
    BY <1>1 DEF SInv, Types, RouteType
  <2>4. NewestRegistrationServes'
    BY <1>1, <1>2, <1>4, <2>1, <2>3 DEF SInv, Registered, NewestRegistrationServes, FreeConn
  <2> QED  BY <2>2, <2>4 DEF Registered
<1>11. daemon' = "up"  BY <1>1 DEF bounds
<1> QED  BY <1>1, <1>5, <1>6, <1>7, <1>8, <1>9, <1>10, <1>11, Frames DEF SInv, Types

LEMMA InvFacade ==
  ASSUME SInv, NEW c \in Channels,
         \/ \E b \in Bots : RegisterChannel(c, b)
         \/ ReleaseChannel(c)
         \/ DeregisterChannel(c)
  PROVE  SInv'
<1>1. /\ daemon = "up" /\ ownership' \in [Channels -> Bots \cup {NoBot}]
      /\ UNCHANGED <<next, file, owner, conn, up, down, shim, bounds, emitted, acked, latest>>
  BY DEF RegisterChannel, ReleaseChannel, DeregisterChannel, queue, links, SInv, Types, RouteType
<1>2. /\ entry' \in [Msgs -> Entry]
      /\ \A m \in Msgs : entry'[m] = entry[m] \/ entry'[m] = NoEntry
  BY NoEntryType DEF RegisterChannel, ReleaseChannel, DeregisterChannel, queue, SInv, Types,
                     QueueType
<1>3. QueueType' /\ RouteType'  BY <1>1, <1>2 DEF SInv, Types, QueueType, RouteType
<1>4. OneChannel'
  <2>1. \A m \in Msgs : /\ entry'[m].chan \in {entry[m].chan, file[m].chan, NoChannel}
                        /\ file'[m].chan \in {entry[m].chan, file[m].chan, NoChannel}
    BY <1>1, <1>2, NoEntryType
  <2>2. OneChannel /\ next' = next /\ \A p \in emitted' : p \in emitted \/ p \in Placed
    BY <1>1 DEF SInv
  <2>3. \A j \in Conns, i \in Msgs :
          conn'[j].chan \in Channels /\ i \in Range(down'[j]) => <<conn'[j].chan, i>> \in Placed
    BY <1>1 DEF Placed
  <2> QED  BY <2>1, <2>2, <2>3, PlacesShrink
<1>5. daemon' = "up"  BY <1>1 DEF bounds
<1> QED  BY <1>1, <1>3, <1>4, <1>5, Frames DEF SInv, Types

LEMMA InvLaunch ==
  ASSUME SInv, NEW s \in Shims, NEW c \in Channels, Launch(s, c)
  PROVE  SInv'
<1> DEFINE new == [DeadShim EXCEPT !.phase = "starting", !.chan = c]
<1>1. /\ shim[s].phase = "off" /\ launches < MaxLaunches /\ launches' = launches + 1
      /\ shim' = [shim EXCEPT ![s] = new]
      /\ UNCHANGED <<next, entry, file, ownership, owner, latest, conn, up, down, daemon, crashes,
                     emitted, acked>>
  BY DEF Launch, queue, links
<1>2. /\ new \in Session /\ new.phase = "starting" /\ new.chan = c /\ new.conn = NoConn
      /\ new.toAck = {}
  BY DEF DeadShim, Session
<1>3. shim \in [Shims -> Session]  BY DEF SInv, Types, SessionType
<1> HIDE DEF new
<1>4. shim'[s] = new /\ \A t \in Shims : t # s => shim'[t] = shim[t]  BY <1>1, <1>3
<1>5. SessionType'  BY <1>1, <1>2, <1>3 DEF SessionType
<1>6. Sessions'  BY <1>1, <1>2, <1>4 DEF SInv, Sessions
<1>7. Acks'  BY <1>1, <1>2, <1>4 DEF SInv, Acks, Reached, AckedWasEmitted
<1>8. BoundType'  BY <1>1, ServerAssumption DEF SInv, Types, BoundType
<1> QED  BY <1>1, <1>5, <1>6, <1>7, <1>8, Frames DEF SInv, Types

LEMMA InvConnect ==
  ASSUME SInv, NEW s \in Shims, NEW k \in Conns, Connect(s, k)
  PROVE  SInv'
<1> DEFINE new == [chan |-> shim[s].chan, server |-> TRUE, client |-> TRUE, reg |-> NoChannel]
<1>0. PICK early \in SUBSET shim[s].toAck :
        /\ up' = [up EXCEPT ![k] = Append(Oldest(early), Register)]
        /\ shim' = [shim EXCEPT ![s].phase = "open", ![s].conn = k, ![s].toAck = @ \ early]
  BY DEF Connect
<1> DEFINE mine == [shim[s] EXCEPT !.phase = "open", !.conn = k, !.toAck = shim[s].toAck \ early]
           sent == Append(Oldest(early), Register)
<1>1. /\ shim[s].phase \in {"starting", "waiting"} /\ daemon = "up" /\ conn[k] = FreeConn
      /\ conn' = [conn EXCEPT ![k] = new]
      /\ up' = [up EXCEPT ![k] = sent] /\ down' = [down EXCEPT ![k] = <<>>]
      /\ UNCHANGED <<next, entry, file, ownership, owner, latest, bounds, emitted, acked>>
  BY <1>0 DEF Connect, queue
<1>2. shim \in [Shims -> Session] /\ conn \in [Conns -> Slot]
  BY DEF SInv, Types, SessionType, SlotType
<1>3. shim' = [shim EXCEPT ![s] = mine]  BY <1>0, <1>2
<1>4. shim[s] \in Session /\ shim[s].phase # "off"  BY <1>1, <1>2
<1>5. shim[s].chan \in Channels  BY <1>4 DEF SInv, Sessions
<1>6. /\ mine \in Session /\ mine.phase = "open" /\ mine.conn = k /\ mine.chan = shim[s].chan
      /\ mine.toAck \subseteq shim[s].toAck
  BY <1>4 DEF Session
<1>7. /\ new \in Slot /\ new.chan = shim[s].chan /\ new.server /\ new.client
      /\ new.reg = NoChannel
  BY <1>5 DEF Slot
<1>21. sent \in Seq(Msgs \cup {Register}) /\ Range(sent) \subseteq shim[s].toAck \cup {Register}
  <2>1. early \in SUBSET Msgs  BY <1>4 DEF Session
  <2>2. /\ Oldest(early) \in [1..Cardinality(early) -> early] /\ Cardinality(early) \in Nat
        /\ Range(Oldest(early)) = early
    BY <2>1, OldestSorts
  <2>3. Oldest(early) \in Seq(Msgs \cup {Register})  BY <2>1, <2>2
  <2>4. Register \in Msgs \cup {Register}  OBVIOUS
  <2>5. sent \in Seq(Msgs \cup {Register}) /\ Range(sent) = Range(Oldest(early)) \cup {Register}
    <3> HIDE DEF Register
    <3> QED  BY <2>3, <2>4, Appending
  <2> QED  BY <2>2, <2>5
<1> HIDE DEF new, mine, sent
<1>8. conn'[k] = new /\ \A j \in Conns : j # k => conn'[j] = conn[j]  BY <1>1, <1>2
<1>9. shim'[s] = mine /\ \A t \in Shims : t # s => shim'[t] = shim[t]  BY <1>2, <1>3
<1>10. /\ up \in [Conns -> Seq(Msgs \cup {Register})] /\ down \in [Conns -> Seq(Msgs)]
  BY DEF SInv, Types, Pipes
<1>11. /\ up'[k] = sent /\ down'[k] = <<>>
       /\ \A j \in Conns : j # k => up'[j] = up[j] /\ down'[j] = down[j]
  BY <1>1, <1>10
<1>12. Pipes'
  <2>1. <<>> \in Seq(Msgs)  OBVIOUS
  <2> QED  BY <1>1, <1>10, <1>21, <2>1 DEF Pipes
<1>13. SlotType' /\ SessionType'  BY <1>1, <1>2, <1>3, <1>6, <1>7 DEF SlotType, SessionType
<1>14. Slots'
  <2> SUFFICES ASSUME NEW j \in Conns
               PROVE  /\ conn'[j].reg \in {NoChannel, conn'[j].chan}
                      /\ conn'[j].server \/ conn'[j].client => conn'[j].chan \in Channels
                      /\ ~conn'[j].client => down'[j] = <<>>
    BY DEF Slots
  <2>1. CASE j = k  BY <1>5, <1>7, <1>8, <1>11, <2>1
  <2>2. CASE j # k  BY <1>8, <1>11, <2>2 DEF SInv, Slots
  <2> QED  BY <2>1, <2>2
<1>15. \A t \in Shims : shim[t].phase = "open" => shim[t].conn # k
  BY <1>1, FreeFields DEF SInv, Sessions
<1>16. Sessions'
  BY <1>5, <1>6, <1>7, <1>8, <1>9, <1>15 DEF SInv, Sessions
<1>17. OneChannel'
  <2>1. \A m \in Msgs : /\ entry'[m].chan \in {entry[m].chan, file[m].chan, NoChannel}
                        /\ file'[m].chan \in {entry[m].chan, file[m].chan, NoChannel}
    BY <1>1
  <2>2. OneChannel /\ next' = next /\ \A p \in emitted' : p \in emitted \/ p \in Placed
    BY <1>1 DEF SInv
  <2>3. ASSUME NEW j \in Conns, NEW i \in Msgs, conn'[j].chan \in Channels, i \in Range(down'[j])
        PROVE  <<conn'[j].chan, i>> \in Placed
    <3>1. Range(<<>>) = {}  BY DEF Range
    <3>2. j # k  BY <1>11, <2>3, <3>1
    <3>3. conn'[j] = conn[j] /\ down'[j] = down[j]  BY <1>8, <1>11, <3>2
    <3> QED  BY <2>3, <3>3 DEF Placed
  <2> QED  BY <2>1, <2>2, <2>3, PlacesShrink
<1>18. Acks'
  <2>1. \A m \in shim[s].toAck : Reached(m)  BY DEF SInv, Acks, Reached
  <2>2. \A j \in Conns : \A m \in Range(up'[j]) : m # Register => Reached(m)
    BY <1>11, <1>21, <2>1 DEF SInv, Acks
  <2>3. \A t \in Shims : shim'[t].toAck \subseteq shim[t].toAck  BY <1>6, <1>9
  <2> QED  BY <1>1, <2>2, <2>3 DEF SInv, Acks, Reached, AckedWasEmitted
<1>19. Registered'
  <2>1. \A c \in Channels : owner[c] # k
    BY <1>1, FreeFields, ServerAssumption DEF SInv, Registered, OwnersAreOpen
  <2>2. owner \in [Channels -> Conns \cup {NoConn}] /\ latest \in [Channels -> Conns \cup {NoConn}]
    BY DEF SInv, Types, RouteType
  <2>3. OwnersAreOpen'
    BY <1>1, <1>8, <2>1, <2>2 DEF SInv, Registered, OwnersAreOpen
  <2>4. NewestRegistrationServes'
    BY <1>1, <1>7, <1>8, <2>2, EntriesAssumption DEF SInv, Registered, NewestRegistrationServes
  <2> QED  BY <2>3, <2>4 DEF Registered
<1>20. daemon' = "up"  BY <1>1 DEF bounds
<1> QED  BY <1>1, <1>12, <1>13, <1>14, <1>16, <1>17, <1>18, <1>19, <1>20, Frames DEF SInv, Types

LEMMA InvEmit ==
  ASSUME SInv, NEW s \in Shims, NEW ok \in BOOLEAN, Emit(s, ok)
  PROVE  SInv'
<1> DEFINE k == shim[s].conn
           m == Head(down[k])
           mine == [shim[s] EXCEPT !.toAck = IF ok THEN shim[s].toAck \cup {m} ELSE shim[s].toAck]
<1>1. /\ shim[s].phase = "open" /\ down[k] # <<>> /\ down' = [down EXCEPT ![k] = Tail(@)]
      /\ emitted' = IF ok THEN emitted \cup {<<shim[s].chan, m>>} ELSE emitted
      /\ UNCHANGED <<next, entry, file, ownership, owner, latest, conn, up, bounds, acked>>
  BY DEF Emit, queue
<1>2. shim \in [Shims -> Session] /\ down \in [Conns -> Seq(Msgs)]
  BY DEF SInv, Types, SessionType, Pipes
<1>3. shim' = [shim EXCEPT ![s] = mine]  BY <1>2 DEF Emit
<1>4. k \in Conns /\ conn[k].client /\ conn[k].chan = shim[s].chan /\ shim[s].chan \in Channels
  BY <1>1 DEF SInv, Sessions
<1>5. /\ m \in Msgs /\ m \in Range(down[k])
      /\ Tail(down[k]) \in Seq(Msgs) /\ Range(Tail(down[k])) \subseteq Range(down[k])
  BY <1>1, <1>2, <1>4, HeadTail
<1>6. /\ mine \in Session /\ mine.phase = shim[s].phase /\ mine.conn = k
      /\ mine.chan = shim[s].chan /\ mine.toAck \subseteq shim[s].toAck \cup (IF ok THEN {m} ELSE {})
  <2>1. shim[s] \in Session  BY <1>2
  <2> HIDE DEF m
  <2> QED  BY <1>5, <2>1 DEF Session
<1> HIDE DEF mine, m
<1>7. shim'[s] = mine /\ \A t \in Shims : t # s => shim'[t] = shim[t]  BY <1>2, <1>3
<1>8. down'[k] = Tail(down[k]) /\ \A j \in Conns : j # k => down'[j] = down[j]
  BY <1>1, <1>2, <1>4
<1>9. <<shim[s].chan, m>> \in Placed  BY <1>4, <1>5 DEF Placed
<1>10. SessionType'  BY <1>2, <1>3, <1>6 DEF SessionType
<1>11. Pipes'
  <2>1. down' \in [Conns -> Seq(Msgs)]  BY <1>1, <1>2, <1>5
  <2> QED  BY <1>1, <2>1 DEF SInv, Types, Pipes
<1>12. HistoryType'  BY <1>1, <1>4, <1>5 DEF SInv, Types, HistoryType
<1>13. Slots'  BY <1>1, <1>4, <1>8 DEF SInv, Slots
<1>14. Sessions'  BY <1>1, <1>6, <1>7 DEF SInv, Sessions
<1>15. OneChannel'
  <2>1. \A i \in Msgs : /\ entry'[i].chan \in {entry[i].chan, file[i].chan, NoChannel}
                        /\ file'[i].chan \in {entry[i].chan, file[i].chan, NoChannel}
    BY <1>1
  <2>2. OneChannel /\ next' = next /\ \A p \in emitted' : p \in emitted \/ p \in Placed
    BY <1>1, <1>9 DEF SInv
  <2>3. ASSUME NEW j \in Conns, NEW i \in Msgs, conn'[j].chan \in Channels, i \in Range(down'[j])
        PROVE  <<conn'[j].chan, i>> \in Placed
    <3>1. conn'[j] = conn[j] /\ i \in Range(down[j])  BY <1>1, <1>5, <1>8, <2>3
    <3> QED  BY <2>3, <3>1 DEF Placed
  <2> QED  BY <2>1, <2>2, <2>3, PlacesShrink
<1>16. Acks'
  <2>1. emitted \subseteq emitted' /\ (ok => <<shim[s].chan, m>> \in emitted')  BY <1>1
  <2>2. \A i : Reached(i) => \E c \in Channels : <<c, i>> \in emitted'
    BY <2>1 DEF Reached
  <2>3. ok => \E c \in Channels : <<c, m>> \in emitted'  BY <1>4, <2>1
  <2>4. \A t \in Shims : \A i \in shim'[t].toAck : i \in shim[t].toAck \/ (ok /\ i = m)
    BY <1>6, <1>7
  <2>5. \A t \in Shims : \A i \in shim'[t].toAck : \E c \in Channels : <<c, i>> \in emitted'
    BY <2>2, <2>3, <2>4 DEF SInv, Acks
  <2>6. /\ \A j \in Conns : \A i \in Range(up'[j]) :
             i # Register => \E c \in Channels : <<c, i>> \in emitted'
        /\ \A i \in acked' : \E c \in Channels : <<c, i>> \in emitted'
    BY <1>1, <2>2 DEF SInv, Acks, AckedWasEmitted
  <2> QED  BY <2>5, <2>6 DEF Acks, Reached, AckedWasEmitted
<1>17. daemon' = daemon  BY <1>1 DEF bounds
<1> QED  BY <1>1, <1>10, <1>11, <1>12, <1>13, <1>14, <1>15, <1>16, <1>17, Frames DEF SInv, Types

LEMMA InvSendAck ==
  ASSUME SInv, NEW s \in Shims, NEW m \in Msgs, SendAck(s, m)
  PROVE  SInv'
<1> DEFINE k == shim[s].conn
           mine == [shim[s] EXCEPT !.toAck = shim[s].toAck \ {m}]
<1>1. /\ m \in shim[s].toAck
      /\ up' = IF shim[s].phase = "open" /\ conn[k].server
               THEN [up EXCEPT ![k] = Append(@, m)] ELSE up
      /\ UNCHANGED <<next, entry, file, ownership, owner, latest, conn, down, bounds, emitted, acked>>
  BY DEF SendAck, queue
<1>2. shim \in [Shims -> Session] /\ up \in [Conns -> Seq(Msgs \cup {Register})]
  BY DEF SInv, Types, SessionType, Pipes
<1>3. shim' = [shim EXCEPT ![s] = mine]  BY <1>2 DEF SendAck
<1>4. /\ mine \in Session /\ mine.phase = shim[s].phase /\ mine.conn = k
      /\ mine.chan = shim[s].chan /\ mine.toAck \subseteq shim[s].toAck
  <2>1. shim[s] \in Session  BY <1>2
  <2> QED  BY <2>1 DEF Session
<1> HIDE DEF mine
<1>5. shim'[s] = mine /\ \A t \in Shims : t # s => shim'[t] = shim[t]  BY <1>2, <1>3
<1>6. /\ up' \in [Conns -> Seq(Msgs \cup {Register})]
      /\ \A j \in Conns : Range(up'[j]) \subseteq Range(up[j]) \cup {m}
  <2>1. CASE shim[s].phase = "open" /\ conn[k].server
    <3>1. k \in Conns /\ up' = [up EXCEPT ![k] = Append(up[k], m)]
      BY <1>1, <2>1 DEF SInv, Sessions
    <3>2. /\ Append(up[k], m) \in Seq(Msgs \cup {Register})
          /\ Range(Append(up[k], m)) = Range(up[k]) \cup {m}
      <4>1. up[k] \in Seq(Msgs \cup {Register}) /\ m \in Msgs \cup {Register}  BY <1>2, <3>1
      <4> HIDE DEF k
      <4> QED  BY <4>1, Appending
    <3> HIDE DEF k
    <3> QED  BY <1>2, <3>1, <3>2
  <2>2. CASE ~(shim[s].phase = "open" /\ conn[k].server)  BY <1>1, <1>2, <2>2
  <2> QED  BY <2>1, <2>2
<1>7. SessionType'  BY <1>2, <1>3, <1>4 DEF SessionType
<1>8. Pipes'  BY <1>1, <1>6 DEF SInv, Types, Pipes
<1>9. Sessions'  BY <1>1, <1>4, <1>5 DEF SInv, Sessions
<1>10. Acks'
  <2>1. Reached(m)  BY <1>1 DEF SInv, Acks
  <2> QED  BY <1>1, <1>4, <1>5, <1>6, <2>1 DEF SInv, Acks, Reached, AckedWasEmitted
<1>11. daemon' = daemon  BY <1>1 DEF bounds
<1> QED  BY <1>1, <1>7, <1>8, <1>9, <1>10, <1>11, Frames DEF SInv, Types

\* A shim loses its connection, if it has one, and goes on as mine.
LEMMA InvLeave ==
  ASSUME SInv, NEW s \in Shims, NEW k, k = shim[s].conn, NEW mine \in Session,
         shim' = [shim EXCEPT ![s] = mine],
         mine.phase # "open", mine.conn = NoConn, mine.toAck \subseteq shim[s].toAck,
         mine.phase # "off" => mine.chan \in Channels,
         \/ k = NoConn /\ UNCHANGED <<conn, down>>
         \/ /\ k \in Conns /\ shim[s].phase = "open"
            /\ conn' = [conn EXCEPT ![k] = Closed([@ EXCEPT !.client = FALSE])]
            /\ down' = [down EXCEPT ![k] = <<>>],
         UNCHANGED <<next, entry, file, ownership, owner, latest, up, bounds, emitted, acked>>
  PROVE  SInv'
<1>1. /\ shim \in [Shims -> Session] /\ conn \in [Conns -> Slot]
      /\ down \in [Conns -> Seq(Msgs)]
  BY DEF SInv, Types, SessionType, SlotType, Pipes
<1>2. shim'[s] = mine /\ \A t \in Shims : t # s => shim'[t] = shim[t]  BY <1>1
<1>3. SessionType'  BY <1>1 DEF SessionType
<1>4. Acks'  BY <1>2 DEF SInv, Acks, Reached, AckedWasEmitted
<1>5. daemon' = daemon  BY DEF bounds
<1>6. CASE k = NoConn /\ UNCHANGED <<conn, down>>
  <2>1. Sessions'  BY <1>2, <1>6 DEF SInv, Sessions
  <2> QED  BY <1>3, <1>4, <1>5, <1>6, <2>1, Frames DEF SInv, Types
<1>7. CASE /\ k \in Conns /\ shim[s].phase = "open"
           /\ conn' = [conn EXCEPT ![k] = Closed([@ EXCEPT !.client = FALSE])]
           /\ down' = [down EXCEPT ![k] = <<>>]
  <2> DEFINE shut == Closed([conn[k] EXCEPT !.client = FALSE])
  <2>1. conn[k] \in Slot  BY <1>1, <1>7
  <2>2. /\ shut \in Slot /\ shut.client = FALSE /\ shut.server = conn[k].server
        /\ conn[k].server => shut.chan = conn[k].chan /\ shut.reg = conn[k].reg
        /\ ~conn[k].server => shut = FreeConn
    <3>1. [conn[k] EXCEPT !.client = FALSE].chan = conn[k].chan
          /\ [conn[k] EXCEPT !.client = FALSE].reg = conn[k].reg
      BY <2>1 DEF Slot
    <3>2. shut \in Slot /\ shut.client \in BOOLEAN /\ ~shut.client  BY <2>1, ClosedSlot DEF Slot
    <3> QED  BY <2>1, <3>1, <3>2, ClosedSlot
  <2>3. conn' = [conn EXCEPT ![k] = shut]  BY <1>1, <1>7
  <2> HIDE DEF shut
  <2>4. conn'[k] = shut /\ \A j \in Conns : j # k => conn'[j] = conn[j]  BY <1>1, <1>7, <2>3
  <2>5. down'[k] = <<>> /\ \A j \in Conns : j # k => down'[j] = down[j]  BY <1>1, <1>7
  <2>6. SlotType'  BY <1>1, <2>2, <2>3 DEF SlotType
  <2>7. Pipes'
    <3>1. <<>> \in Seq(Msgs)  OBVIOUS
    <3> QED  BY <1>1, <1>7, <3>1 DEF SInv, Types, Pipes
  <2>8. Slots'
    <3> SUFFICES ASSUME NEW j \in Conns
                 PROVE  /\ conn'[j].reg \in {NoChannel, conn'[j].chan}
                        /\ conn'[j].server \/ conn'[j].client => conn'[j].chan \in Channels
                        /\ ~conn'[j].client => down'[j] = <<>>
      BY DEF Slots
    <3>1. /\ conn[j].reg \in {NoChannel, conn[j].chan}
          /\ conn[j].server \/ conn[j].client => conn[j].chan \in Channels
          /\ ~conn[j].client => down[j] = <<>>
      BY DEF SInv, Slots
    <3>2. CASE j = k  BY <2>2, <2>4, <2>5, <3>1, <3>2, FreeFields
    <3>3. CASE j # k  BY <2>4, <2>5, <3>1, <3>3
    <3> QED  BY <3>2, <3>3
  <2>9. Sessions'
    <3>1. \A t \in Shims : t # s /\ shim[t].phase = "open" => shim[t].conn # k
      BY <1>7 DEF SInv, Sessions
    <3> QED  BY <1>2, <2>4, <3>1 DEF SInv, Sessions
  <2>10. OneChannel'
    <3>1. \A m \in Msgs : /\ entry'[m].chan \in {entry[m].chan, file[m].chan, NoChannel}
                          /\ file'[m].chan \in {entry[m].chan, file[m].chan, NoChannel}
      OBVIOUS
    <3>2. OneChannel /\ next' = next /\ \A p \in emitted' : p \in emitted \/ p \in Placed
      BY DEF SInv
    <3>3. ASSUME NEW j \in Conns, NEW i \in Msgs, conn'[j].chan \in Channels, i \in Range(down'[j])
          PROVE  <<conn'[j].chan, i>> \in Placed
      <4>1. Range(<<>>) = {}  BY DEF Range
      <4>2. j # k  BY <2>5, <3>3, <4>1
      <4>3. conn'[j] = conn[j] /\ down'[j] = down[j]  BY <2>4, <2>5, <4>2
      <4> QED  BY <3>3, <4>3 DEF Placed
    <3> QED  BY <3>1, <3>2, <3>3, PlacesShrink
  <2>11. DownDaemon'  BY <1>5, <2>2, <2>4 DEF SInv, DownDaemon
  <2>12. Registered'
    <3>1. owner \in [Channels -> Conns \cup {NoConn}] /\ latest \in [Channels -> Conns \cup {NoConn}]
      BY DEF SInv, Types, RouteType
    <3>2. \A j \in Conns : /\ conn'[j].server = conn[j].server
                           /\ conn[j].server => conn'[j].reg = conn[j].reg
      BY <1>7, <2>2, <2>4
    <3>3. OwnersAreOpen'  BY <3>1, <3>2 DEF SInv, Registered, OwnersAreOpen
    <3>4. NewestRegistrationServes'  BY <3>1, <3>2 DEF SInv, Registered, NewestRegistrationServes
    <3> QED  BY <3>3, <3>4 DEF Registered
  <2> QED  BY <1>3, <1>4, <1>5, <2>6, <2>7, <2>8, <2>9, <2>10, <2>11, <2>12, Frames DEF SInv, Types
<1> QED  BY <1>6, <1>7

LEMMA InvShimLeaves ==
  ASSUME SInv, NEW s \in Shims, ShimClose(s) \/ ShimDies(s)
  PROVE  SInv'
<1> DEFINE k == shim[s].conn
<1>1. shim \in [Shims -> Session] /\ shim[s] \in Session
  BY DEF SInv, Types, SessionType
<1>2. CASE ShimClose(s)
  <2> DEFINE mine == [shim[s] EXCEPT !.phase = "waiting", !.conn = NoConn]
  <2>1. /\ shim[s].phase = "open"
        /\ conn' = [conn EXCEPT ![k] = Closed([@ EXCEPT !.client = FALSE])]
        /\ down' = [down EXCEPT ![k] = <<>>]
        /\ UNCHANGED <<next, entry, file, ownership, owner, latest, up, bounds, emitted, acked>>
    BY <1>2 DEF ShimClose, queue
  <2>2. shim' = [shim EXCEPT ![s] = mine]  BY <1>1, <1>2 DEF ShimClose
  <2>3. /\ mine \in Session /\ mine.phase = "waiting" /\ mine.conn = NoConn
        /\ mine.chan = shim[s].chan /\ mine.toAck = shim[s].toAck
    BY <1>1 DEF Session
  <2>4. k \in Conns /\ shim[s].chan \in Channels  BY <2>1 DEF SInv, Sessions
  <2> HIDE DEF mine
  <2> QED  BY <2>1, <2>2, <2>3, <2>4, InvLeave
<1>3. CASE ShimDies(s)
  <2>1. /\ shim' = [shim EXCEPT ![s] = DeadShim]
        /\ IF k = NoConn THEN UNCHANGED <<conn, down>>
           ELSE /\ conn' = [conn EXCEPT ![k] = Closed([@ EXCEPT !.client = FALSE])]
                /\ down' = [down EXCEPT ![k] = <<>>]
        /\ UNCHANGED <<next, entry, file, ownership, owner, latest, up, bounds, emitted, acked>>
    BY <1>3 DEF ShimDies, queue
  <2>2. /\ DeadShim \in Session /\ DeadShim.phase = "off" /\ DeadShim.conn = NoConn
        /\ DeadShim.toAck \subseteq shim[s].toAck
    BY DEF DeadShim, Session
  <2>3. k # NoConn => k \in Conns /\ shim[s].phase = "open"  BY DEF SInv, Sessions
  <2> QED  BY <2>1, <2>2, <2>3, InvLeave
<1> QED  BY <1>2, <1>3

LEMMA InvPersist ==
  ASSUME SInv, Persist
  PROVE  SInv'
<1>1. /\ daemon = "up" /\ file' = entry
      /\ UNCHANGED <<next, entry, ownership, owner, latest, conn, up, down, shim, bounds, emitted,
                     acked>>
  BY DEF Persist, queue, links
<1>2. QueueType'  BY <1>1 DEF SInv, Types, QueueType
<1>3. OneChannel'
  <2>1. \A m \in Msgs : /\ entry'[m].chan \in {entry[m].chan, file[m].chan, NoChannel}
                        /\ file'[m].chan \in {entry[m].chan, file[m].chan, NoChannel}
    BY <1>1
  <2>2. OneChannel /\ next' = next /\ \A p \in emitted' : p \in emitted \/ p \in Placed
    BY <1>1 DEF SInv
  <2>3. \A j \in Conns, i \in Msgs :
          conn'[j].chan \in Channels /\ i \in Range(down'[j]) => <<conn'[j].chan, i>> \in Placed
    BY <1>1 DEF Placed
  <2> QED  BY <2>1, <2>2, <2>3, PlacesShrink
<1>4. daemon' = daemon  BY <1>1 DEF bounds
<1> QED  BY <1>1, <1>2, <1>3, <1>4, Frames DEF SInv, Types

LEMMA InvCrash ==
  ASSUME SInv, Crash
  PROVE  SInv'
<1> DEFINE cut(j) == Closed([conn[j] EXCEPT !.server = FALSE])
<1>1. /\ crashes < MaxCrashes /\ daemon' = "down" /\ crashes' = crashes + 1 /\ entry' = Empty
      /\ ownership' = [c \in Channels |-> NoBot] /\ owner' = [c \in Channels |-> NoConn]
      /\ latest' = [c \in Channels |-> NoConn]
      /\ conn' = [j \in Conns |-> cut(j)] /\ up' = [j \in Conns |-> <<>>]
      /\ UNCHANGED <<next, file, down, shim, launches, emitted, acked>>
  BY DEF Crash
<1>2. conn \in [Conns -> Slot]  BY DEF SInv, Types, SlotType
<1>3. ASSUME NEW j \in Conns
      PROVE  /\ cut(j) \in Slot /\ cut(j).server = FALSE /\ cut(j).client = conn[j].client
             /\ conn[j].client => cut(j).chan = conn[j].chan /\ cut(j).reg = conn[j].reg
             /\ ~conn[j].client => cut(j) = FreeConn
  <2>1. conn[j] \in Slot  BY <1>2
  <2>2. /\ [conn[j] EXCEPT !.server = FALSE].chan = conn[j].chan
        /\ [conn[j] EXCEPT !.server = FALSE].reg = conn[j].reg
    BY <2>1 DEF Slot
  <2>3. cut(j) \in Slot /\ cut(j).server \in BOOLEAN /\ ~cut(j).server
    BY <2>1, ClosedSlot DEF Slot
  <2> QED  BY <2>1, <2>2, <2>3, ClosedSlot
<1>4. \A j \in Conns : conn'[j] = cut(j)  BY <1>1
<1> HIDE DEF cut
<1>5. QueueType' /\ RouteType'  BY <1>1, NoEntryType DEF SInv, Types, QueueType, RouteType
<1>6. SlotType'  BY <1>1, <1>3 DEF SlotType
<1>7. BoundType'  BY <1>1, ServerAssumption DEF SInv, Types, BoundType
<1>8. Pipes'
  <2>1. <<>> \in Seq(Msgs \cup {Register})  OBVIOUS
  <2> QED  BY <1>1, <2>1 DEF SInv, Types, Pipes
<1>9. Slots'
  <2> SUFFICES ASSUME NEW j \in Conns
               PROVE  /\ conn'[j].reg \in {NoChannel, conn'[j].chan}
                      /\ conn'[j].server \/ conn'[j].client => conn'[j].chan \in Channels
                      /\ ~conn'[j].client => down'[j] = <<>>
    BY DEF Slots
  <2>1. /\ down'[j] = down[j] /\ conn[j].reg \in {NoChannel, conn[j].chan}
        /\ conn[j].server \/ conn[j].client => conn[j].chan \in Channels
        /\ ~conn[j].client => down[j] = <<>>
    BY <1>1 DEF SInv, Slots
  <2>2. CASE conn[j].client  BY <1>3, <1>4, <2>1, <2>2
  <2>3. CASE ~conn[j].client  BY <1>3, <1>4, <2>1, <2>3, FreeFields
  <2> QED  BY <2>2, <2>3
<1>10. Sessions'
  <2>1. \A j \in Conns : conn[j].client => conn'[j].client /\ conn'[j].chan = conn[j].chan
    BY <1>3, <1>4
  <2> QED  BY <1>1, <2>1 DEF SInv, Sessions
<1>11. OneChannel'
  <2>1. \A m \in Msgs : /\ entry'[m].chan \in {entry[m].chan, file[m].chan, NoChannel}
                        /\ file'[m].chan \in {entry[m].chan, file[m].chan, NoChannel}
    BY <1>1, NoEntryType DEF Empty
  <2>2. OneChannel /\ next' = next /\ \A p \in emitted' : p \in emitted \/ p \in Placed
    BY <1>1 DEF SInv
  <2>3. ASSUME NEW j \in Conns, NEW i \in Msgs, conn'[j].chan \in Channels, i \in Range(down'[j])
        PROVE  <<conn'[j].chan, i>> \in Placed
    <3>1. conn[j].client  BY <1>3, <1>4, <2>3, FreeFields, EntriesAssumption
    <3>2. conn'[j].chan = conn[j].chan /\ i \in Range(down[j])  BY <1>1, <1>3, <1>4, <2>3, <3>1
    <3> QED  BY <2>3, <3>2 DEF Placed
  <2> QED  BY <2>1, <2>2, <2>3, PlacesShrink
<1>12. Acks'
  <2>1. \A j \in Conns : up'[j] = <<>>  BY <1>1
  <2>2. Range(<<>>) = {}  BY DEF Range
  <2> QED  BY <1>1, <2>1, <2>2 DEF SInv, Acks, Reached, AckedWasEmitted
<1>13. DownDaemon'  BY <1>1, <1>3, <1>4 DEF DownDaemon
<1>14. Registered'  BY <1>1 DEF Registered, OwnersAreOpen, NewestRegistrationServes
<1> QED  BY <1>1, <1>5, <1>6, <1>7, <1>8, <1>9, <1>10, <1>11, <1>12, <1>13, <1>14, Frames
         DEF SInv, Types

LEMMA InvStart ==
  ASSUME SInv, Start
  PROVE  SInv'
<1>1. /\ daemon = "down" /\ daemon' = "up"
      /\ entry' = [m \in Msgs |-> IF file[m].status = "dead" THEN NoEntry
                                  ELSE [file[m] EXCEPT !.status = "pending"]]
      /\ UNCHANGED <<next, file, ownership, owner, latest, conn, up, down, shim, crashes, launches,
                     emitted, acked>>
  BY DEF Start, links
<1>2. file \in [Msgs -> Entry]  BY DEF SInv, Types, QueueType
<1>3. /\ entry' \in [Msgs -> Entry]
      /\ \A m \in Msgs : entry'[m].chan \in {file[m].chan, NoChannel}
  <2> SUFFICES ASSUME NEW m \in Msgs
               PROVE  entry'[m] \in Entry /\ entry'[m].chan \in {file[m].chan, NoChannel}
    BY <1>1
  <2>1. file[m] \in Entry  BY <1>2
  <2>2. [file[m] EXCEPT !.status = "pending"] \in Entry
        /\ [file[m] EXCEPT !.status = "pending"].chan = file[m].chan
    BY <2>1 DEF Entry, Status
  <2> QED  BY <1>1, <2>2, NoEntryType
<1>4. QueueType'  BY <1>1, <1>3 DEF SInv, Types, QueueType
<1>5. BoundType'  BY <1>1 DEF SInv, Types, BoundType
<1>6. OneChannel'
  <2>1. \A m \in Msgs : /\ entry'[m].chan \in {entry[m].chan, file[m].chan, NoChannel}
                        /\ file'[m].chan \in {entry[m].chan, file[m].chan, NoChannel}
    BY <1>1, <1>3
  <2>2. OneChannel /\ next' = next /\ \A p \in emitted' : p \in emitted \/ p \in Placed
    BY <1>1 DEF SInv
  <2>3. \A j \in Conns, i \in Msgs :
          conn'[j].chan \in Channels /\ i \in Range(down'[j]) => <<conn'[j].chan, i>> \in Placed
    BY <1>1 DEF Placed
  <2> QED  BY <2>1, <2>2, <2>3, PlacesShrink
<1> QED  BY <1>1, <1>4, <1>5, <1>6, Frames DEF SInv, Types

LEMMA InvStep == SInv /\ [Next]_svars => SInv'
<1> SUFFICES ASSUME SInv, [Next]_svars PROVE SInv'
  OBVIOUS
<1>1. CASE FacadeStep  BY <1>1, InvFeed, InvFacade DEF FacadeStep
<1>2. CASE ServerStep  BY <1>2, InvSweep, InvRecvRegister, InvRecvAck, InvOnClose DEF ServerStep
<1>3. CASE ShimStep
  BY <1>3, InvLaunch, InvConnect, InvEmit, InvSendAck, InvShimLeaves DEF ShimStep
<1>4. CASE DaemonStep  BY <1>4, InvPersist, InvCrash, InvStart DEF DaemonStep
<1>5. CASE UNCHANGED svars  BY <1>5, Frames DEF svars, queue, links, bounds, SInv, Types
<1> QED  BY <1>1, <1>2, <1>3, <1>4, <1>5 DEF Next

LEMMA InvCorrect == Spec => []SInv
<1>1. SInv /\ [Next]_svars => SInv'  BY InvStep
<1> QED  BY InvInit, <1>1, PTL DEF Spec

--------------------------------------------------------------------------------
(* What the server promises.                                                        *)

\* Registrations stay in order, whatever the interleaving of connections, late closes,
\* slot reuse and crashes: deliveries go to open connections, and the newest
\* registration of a channel is the one that is served.
THEOREM RegistrationsInOrder == Spec => []ConnectionsInOrder
<1>1. SInv => ConnectionsInOrder  BY TypesSuffice DEF SInv, Registered, ConnectionsInOrder
<1> QED  BY <1>1, InvCorrect, PTL

\* An ack removes only a message that some CLI was handed.
THEOREM AcksAreEarned == Spec => []AckedWasEmitted
<1>1. SInv => AckedWasEmitted  BY DEF SInv, Acks
<1> QED  BY <1>1, InvCorrect, PTL

\* No message crosses to another channel's session.
THEOREM ChannelsStayApart == Spec => []NoCrossChannel
<1>1. ASSUME SInv PROVE NoCrossChannel
  <2>1. ASSUME NEW k \in Conns, NEW m \in Msgs, m \in Range(down[k]), m \in Queued
        PROVE  conn[k].chan = entry[m].chan
    <3>1. Range(<<>>) = {}  BY DEF Range
    <3>2. conn[k].client  BY <1>1, <2>1, <3>1 DEF SInv, Slots
    <3>3. conn[k].chan \in Channels /\ entry[m].chan \in Channels
      BY <1>1, <2>1, <3>2 DEF SInv, Slots, Types, QueueType, Entry, Queued
    <3>4. <<conn[k].chan, m>> \in Placed /\ <<entry[m].chan, m>> \in Placed
      BY <2>1, <3>3 DEF Placed
    <3> QED  BY <1>1, <3>4 DEF SInv, OneChannel
  <2>2. ASSUME NEW c \in Channels, NEW d \in Channels, NEW m \in Msgs,
               <<c, m>> \in emitted, <<d, m>> \in emitted
        PROVE  c = d
    <3>1. <<c, m>> \in Placed /\ <<d, m>> \in Placed  BY <2>2 DEF Placed
    <3> QED  BY <1>1, <3>1 DEF SInv, OneChannel
  <2> QED  BY <2>1, <2>2 DEF NoCrossChannel
<1> QED  BY <1>1, InvCorrect, PTL

Accounted ==
  \A m \in Live : daemon' = "up" /\ m \notin Live' =>
    \/ Reached(m)
    \/ m \in Queued' /\ entry'[m].status = "dead"
    \/ ownership'[entry[m].chan] = NoBot

\* An entry that stays in the Map is live or dead.
LEMMA StaysOrDies ==
  ASSUME \A m \in Live : entry'[m].chan # NoChannel
  PROVE  Accounted
  BY DEF Accounted, Live, Queued

LEMMA AccountedStep == SInv /\ [Next]_svars => Accounted
<1> SUFFICES ASSUME SInv, [Next]_svars PROVE Accounted
  OBVIOUS
<1>1. entry \in [Msgs -> Entry] /\ Pipes /\ Acks  BY DEF SInv, Types, QueueType
<1>2. \A m \in Live : m \in Msgs /\ entry[m].chan # NoChannel  BY DEF Live, Queued
<1>3. CASE entry' = entry  BY <1>2, <1>3, StaysOrDies
<1>4. ASSUME NEW c \in Channels, Feed(c) PROVE Accounted
  <2> DEFINE e == [entry EXCEPT ![next] = [chan |-> c, status |-> "pending", deliveries |-> 0]]
             route == [d \in Channels |-> IF d = c THEN owner[c] ELSE NoConn]
  <2>1. PICK stale \in SUBSET Stale : DeliverTo(e, route, stale)  BY <1>4 DEF Feed
  <2>2. e \in [Msgs -> Entry] /\ \A m \in Msgs : e[m].chan = c \/ e[m] = entry[m]
    <3>1. [chan |-> c, status |-> "pending", deliveries |-> 0] \in Entry
      BY EntriesAssumption DEF Entry, Status
    <3> QED  BY <1>1, <3>1
  <2> HIDE DEF e, route
  <2>3. \A m \in Msgs : entry'[m].chan = e[m].chan  BY <1>1, <2>1, <2>2, Delivery
  <2> QED  BY <1>2, <2>2, <2>3, StaysOrDies, EntriesAssumption
<1>5. ASSUME NEW old, Sweep(old) PROVE Accounted
  <2> DEFINE e == [m \in Msgs |-> IF m \in Live /\ m <= old
                                  THEN [entry[m] EXCEPT !.status = "dead"] ELSE entry[m]]
  <2>1. PICK stale \in SUBSET Stale : DeliverTo(e, owner, stale)  BY <1>5 DEF Sweep
  <2>2. e \in [Msgs -> Entry] /\ \A m \in Msgs : e[m].chan = entry[m].chan
    BY <1>1 DEF Entry, Status
  <2> HIDE DEF e
  <2>3. \A m \in Msgs : entry'[m].chan = e[m].chan  BY <1>1, <2>1, <2>2, Delivery
  <2> QED  BY <1>2, <2>2, <2>3, StaysOrDies
<1>6. ASSUME NEW k \in Conns, RecvRegister(k) PROVE Accounted
  <2> DEFINE route == [d \in Channels |-> IF d = conn[k].chan THEN k ELSE NoConn]
  <2>1. PICK stale \in SUBSET Stale : DeliverTo(entry, route, stale)  BY <1>6 DEF RecvRegister
  <2> HIDE DEF route
  <2>2. \A m \in Msgs : entry'[m].chan = entry[m].chan  BY <1>1, <2>1, Delivery
  <2> QED  BY <1>2, <2>2, StaysOrDies
<1>7. ASSUME NEW k \in Conns, RecvAck(k) PROVE Accounted
  <2>1. /\ up[k] # <<>> /\ Head(up[k]) # Register /\ up' = [up EXCEPT ![k] = Tail(@)]
        /\ entry' = [entry EXCEPT ![Head(up[k])] = NoEntry]
    BY <1>7 DEF RecvAck
  <2>2. Reached(Head(up[k]))  BY <1>1, <2>1, ReadUp
  <2>3. \A m \in Msgs : m # Head(up[k]) => entry'[m] = entry[m]  BY <1>1, <2>1
  <2> QED  BY <1>2, <2>2, <2>3 DEF Accounted, Live, Queued
<1>8. ASSUME NEW c \in Channels, ReleaseChannel(c) PROVE Accounted
  <2>1. /\ ownership' = [ownership EXCEPT ![c] = NoBot]
        /\ entry' = [m \in Msgs |-> IF entry[m].chan = c THEN NoEntry ELSE entry[m]]
    BY <1>8 DEF ReleaseChannel
  <2>2. ownership'[c] = NoBot  BY <2>1 DEF SInv, Types, RouteType
  <2>3. \A m \in Msgs : entry[m].chan # c => entry'[m] = entry[m]  BY <2>1
  <2> QED  BY <1>2, <2>2, <2>3 DEF Accounted, Live, Queued
<1>9. CASE Crash  BY <1>9 DEF Crash, Accounted
<1>10. CASE Start
  <2>1. entry = Empty  BY <1>10 DEF Start, SInv, DownDaemon
  <2>2. Live = {}  BY <2>1, NoEntryType DEF Live, Queued, Empty
  <2> QED  BY <2>2 DEF Accounted
<1>11. \/ entry' = entry
       \/ \E c \in Channels : Feed(c) \/ ReleaseChannel(c)
       \/ \E old \in 0..MaxMsgs : Sweep(old)
       \/ \E k \in Conns : RecvRegister(k) \/ RecvAck(k)
       \/ Crash \/ Start
  <2>1. CASE FacadeStep  BY <2>1 DEF FacadeStep, RegisterChannel, DeregisterChannel, queue
  <2>2. CASE ServerStep  BY <2>2 DEF ServerStep, OnClose, queue
  <2>3. CASE ShimStep
    BY <2>3 DEF ShimStep, Launch, Connect, Emit, SendAck, ShimClose, ShimDies, queue
  <2>4. CASE DaemonStep  BY <2>4 DEF DaemonStep, Persist, queue
  <2>5. CASE UNCHANGED svars  BY <2>5 DEF svars, queue
  <2> QED  BY <2>1, <2>2, <2>3, <2>4, <2>5 DEF Next
<1> QED  BY <1>3, <1>4, <1>5, <1>6, <1>7, <1>8, <1>9, <1>10, <1>11

\* While the daemon lives, a live message leaves the queue only because a CLI was handed
\* it, it was dead-lettered, or its channel was released.
THEOREM NothingDroppedSilently == Spec => NeverSilentlyDropped
<1>1. SInv /\ [Next]_svars => [Accounted]_svars  BY AccountedStep
<1>2. NeverSilentlyDropped <=> [][Accounted]_svars
  BY PTL DEF NeverSilentlyDropped, Accounted
<1> QED  BY <1>1, <1>2, InvCorrect, PTL DEF Spec
================================================================================
