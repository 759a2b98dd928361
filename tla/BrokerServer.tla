------------------------------ MODULE BrokerServer ------------------------------
(* The inbound half of the broker: the facade (broker/index.ts), the socket server *)
(* (broker/server.ts) and the shims of the sessions (shim/discord-shim.ts).        *)
(*                                                                                 *)
(* A connection is a slot k with two ends and two FIFO pipes.  What is in a pipe    *)
(* when its writer closes can still be read; what is written to an end whose        *)
(* reader is gone is lost.  The queue is kept at the granularity of its handlers:   *)
(* a write of the file is one step that may happen at any time (BrokerQueue opens   *)
(* it up), and the redelivery window and the age limit are choices of the sweep.    *)
EXTENDS QueueEntries, Sequences, FiniteSets, Functions

CONSTANTS
  Bots, NoBot,     \* pool bots that can own a channel
  Shims,           \* shim processes
  Conns, NoConn,   \* connection slots
  MaxCrashes,      \* bound on daemon crashes
  MaxLaunches      \* bound on sessions launched

ASSUME ServerAssumption ==
  /\ NoBot \notin Bots /\ NoConn \notin Conns
  /\ MaxCrashes \in Nat /\ MaxLaunches \in Nat

VARIABLES
  next, entry,     \* the queue in memory; NoEntry when the entry is not in the Map
  file,            \* the queue file
  ownership,       \* facade: the bot that owns each channel
  owner,           \* server: the connection that last registered for each channel
  conn,            \* connection slots
  up, down,        \* pipes shim -> daemon and daemon -> shim
  shim,            \* shim processes
  daemon, crashes, launches,
  emitted,         \* history: <<shim channel, message>> handed to a CLI
  acked,           \* history: messages an ack removed
  latest           \* history: the connection that registered last for each channel

queue  == <<next, entry>>
links  == <<conn, up, down>>
bounds == <<daemon, crashes, launches>>
svars  == <<queue, file, ownership, owner, links, shim, bounds, emitted, acked, latest>>

Queued == {m \in Msgs : entry[m].chan # NoChannel}
Live   == {m \in Queued : entry[m].status # "dead"}
FreeConn == [chan |-> NoChannel, server |-> FALSE, client |-> FALSE, reg |-> NoChannel]
DeadShim == [phase |-> "off", chan |-> NoChannel, conn |-> NoConn, toAck |-> {}]

TypeOK ==
  /\ next \in 1..(MaxMsgs + 1) /\ entry \in [Msgs -> Entry] /\ file \in [Msgs -> Entry]
  /\ ownership \in [Channels -> Bots \cup {NoBot}]
  /\ owner \in [Channels -> Conns \cup {NoConn}] /\ latest \in [Channels -> Conns \cup {NoConn}]
  /\ conn \in [Conns -> [chan: Channels \cup {NoChannel}, server: BOOLEAN, client: BOOLEAN,
                         reg: Channels \cup {NoChannel}]]
  /\ \A k \in Conns : Range(down[k]) \subseteq Msgs /\ Range(up[k]) \subseteq Msgs \cup {0}
  /\ shim \in [Shims -> [phase: {"off", "starting", "open", "waiting"},
                         chan: Channels \cup {NoChannel}, conn: Conns \cup {NoConn},
                         toAck: SUBSET Msgs]]
  /\ daemon \in {"up", "down"} /\ crashes \in 0..MaxCrashes /\ launches \in 0..MaxLaunches
  /\ emitted \subseteq Channels \X Msgs /\ acked \subseteq Msgs

Init ==
  /\ next = 1 /\ entry = Empty /\ file = Empty
  /\ ownership = [c \in Channels |-> NoBot] /\ owner = [c \in Channels |-> NoConn]
  /\ conn = [k \in Conns |-> FreeConn]
  /\ up = [k \in Conns |-> <<>>] /\ down = [k \in Conns |-> <<>>]
  /\ shim = [s \in Shims |-> DeadShim]
  /\ daemon = "up" /\ crashes = 0 /\ launches = 0
  /\ emitted = {} /\ acked = {} /\ latest = [c \in Channels |-> NoConn]

--------------------------------------------------------------------------------
(* Delivery.                                                                      *)

Register == 0  \* the register envelope on an up pipe; an ack is its message

\* The messages of S in the order of their numbers, the order deliverable_for sorts by.
Oldest(S) == CHOOSE q \in [1..Cardinality(S) -> S] :
               \A i, j \in 1..Cardinality(S) : i < j => q[i] < q[j]

\* Mutant: the backlog of every channel goes to whatever connection is served.
DeliverToAnyChannel(e, route, stale) ==
  LET due  == Due(e, {m \in Msgs : e[m].chan # NoChannel}, Channels, stale)
      Served == {route[c] : c \in Channels} \ {NoConn}
      all  == Oldest(IF Served = {} THEN {} ELSE Sent(e, due))
  IN /\ entry' = IF Served = {} THEN e ELSE Attempted(e, due)
     /\ down' = [k \in Conns |-> IF k \in Served /\ conn[k].client
                                THEN down[k] \o all ELSE down[k]]

\* deliver_backlog: every due entry of each channel that route maps to a
\* connection is attempted, oldest first; a send to an end that closed is lost.
DeliverTo(e, route, stale) ==
  LET due  == Due(e, {m \in Msgs : e[m].chan # NoChannel},
                  {c \in Channels : route[c] # NoConn}, stale)
      For(k) == Oldest({m \in Sent(e, due) : route[e[m].chan] = k})
  IN /\ entry' = Attempted(e, due)
     /\ down' = [k \in Conns |-> IF conn[k].client THEN down[k] \o For(k) ELSE down[k]]

Stale == {m \in Live : entry[m].status = "delivered"}

\* feed, with notify_channel.
Feed(c) ==
  /\ daemon = "up" /\ next \in Msgs /\ ownership[c] # NoBot
  /\ next' = next + 1
  /\ \E stale \in SUBSET Stale :
       DeliverTo([entry EXCEPT ![next] = [chan |-> c, status |-> "pending", deliveries |-> 0]],
                 [d \in Channels |-> IF d = c THEN owner[c] ELSE NoConn], stale)
  /\ UNCHANGED <<file, ownership, owner, conn, up, shim, bounds, emitted, acked, latest>>

\* sweep: entries up to old are over the age limit, whatever their attempts; then
\* every connected channel gets what is due.
Sweep(old) ==
  /\ daemon = "up"
  /\ \E stale \in SUBSET Stale :
       DeliverTo([m \in Msgs |-> IF m \in Live /\ m <= old
                                 THEN [entry[m] EXCEPT !.status = "dead"] ELSE entry[m]],
                 owner, stale)
  /\ UNCHANGED <<next, file, ownership, owner, conn, up, shim, bounds, emitted, acked, latest>>

\* handle_register, for the channel the envelope names: the newest registration
\* wins and gets the backlog.
RecvRegister(k) ==
  LET c == conn[k].chan
  IN /\ daemon = "up" /\ conn[k].server /\ up[k] # <<>> /\ Head(up[k]) = Register
     /\ up' = [up EXCEPT ![k] = Tail(@)]
     /\ conn' = [conn EXCEPT ![k].reg = c]
     /\ owner' = [owner EXCEPT ![c] = k]
     /\ latest' = [latest EXCEPT ![c] = k]
     /\ \E stale \in SUBSET Stale :
          DeliverTo(entry, [d \in Channels |-> IF d = c THEN k ELSE NoConn], stale)
     /\ UNCHANGED <<next, file, ownership, shim, bounds, emitted, acked>>

\* handle_envelope on an ack: remove the entry, whatever connection it came on.
RecvAck(k) ==
  /\ daemon = "up" /\ conn[k].server /\ up[k] # <<>> /\ Head(up[k]) # Register
  /\ up' = [up EXCEPT ![k] = Tail(@)]
  /\ entry' = [entry EXCEPT ![Head(up[k])] = NoEntry]
  /\ acked' = acked \cup ({Head(up[k])} \cap Queued)
  /\ UNCHANGED <<next, file, ownership, owner, conn, down, shim, bounds, emitted, latest>>

\* Once both ends are closed the slot is free again.
Closed(ends) ==
  IF ~ends.server /\ ~ends.client THEN FreeConn ELSE ends

\* Mutant: a close clears the channel's owner without asking whose it is.
OnCloseAnyOwner(k) ==
  /\ daemon = "up" /\ conn[k].server /\ ~conn[k].client /\ up[k] = <<>>
  /\ conn' = [conn EXCEPT ![k] = Closed([@ EXCEPT !.server = FALSE])]
  /\ owner' = [c \in Channels |-> IF conn[k].reg = c THEN NoConn ELSE owner[c]]
  /\ UNCHANGED <<queue, file, ownership, up, down, shim, bounds, emitted, acked, latest>>

\* on_close: everything the shim wrote was read; only the owner itself is removed.
OnClose(k) ==
  /\ daemon = "up" /\ conn[k].server /\ ~conn[k].client /\ up[k] = <<>>
  /\ conn' = [conn EXCEPT ![k] = Closed([@ EXCEPT !.server = FALSE])]
  /\ owner' = [c \in Channels |-> IF owner[c] = k /\ conn[k].reg = c THEN NoConn ELSE owner[c]]
  /\ UNCHANGED <<queue, file, ownership, up, down, shim, bounds, emitted, acked, latest>>

--------------------------------------------------------------------------------
(* The facade, called by the pool.                                                *)

RegisterChannel(c, b) ==
  /\ daemon = "up" /\ ownership' = [ownership EXCEPT ![c] = b]
  /\ UNCHANGED <<queue, file, owner, links, shim, bounds, emitted, acked, latest>>

\* release_channel drops the backlog, deregister_channel keeps it.
ReleaseChannel(c) ==
  /\ daemon = "up" /\ ownership' = [ownership EXCEPT ![c] = NoBot]
  /\ entry' = [m \in Msgs |-> IF entry[m].chan = c THEN NoEntry ELSE entry[m]]
  /\ UNCHANGED <<next, file, owner, links, shim, bounds, emitted, acked, latest>>

DeregisterChannel(c) ==
  /\ daemon = "up" /\ ownership[c] # NoBot
  /\ ownership' = [ownership EXCEPT ![c] = NoBot]
  /\ UNCHANGED <<queue, file, owner, links, shim, bounds, emitted, acked, latest>>

--------------------------------------------------------------------------------
(* The shim.                                                                      *)

\* The CLI starts the shim for its channel; it connects after the registration
\* grace.
Launch(s, c) ==
  /\ shim[s].phase = "off" /\ ownership[c] # NoBot /\ launches < MaxLaunches
  /\ launches' = launches + 1
  /\ shim' = [shim EXCEPT ![s] = [DeadShim EXCEPT !.phase = "starting", !.chan = c]]
  /\ UNCHANGED <<queue, file, ownership, owner, links, daemon, crashes, emitted, acked, latest>>

\* open, at first or from the reconnect timer: the register envelope goes out.  The
\* grace and the backoff leave the server time to read the register envelope of a
\* connection that was closed before. Acks written while the socket was connecting are
\* buffered and go out first.
Connect(s, k) ==
  /\ shim[s].phase \in {"starting", "waiting"} /\ daemon = "up" /\ conn[k] = FreeConn
  /\ \A j \in Conns : conn[j].chan = shim[s].chan /\ ~conn[j].client
                      => Register \notin Range(up[j])
  /\ conn' = [conn EXCEPT ![k] = [chan |-> shim[s].chan, server |-> TRUE, client |-> TRUE,
                                 reg |-> NoChannel]]
  /\ down' = [down EXCEPT ![k] = <<>>]
  /\ \E early \in SUBSET shim[s].toAck :
       /\ up' = [up EXCEPT ![k] = Append(Oldest(early), Register)]
       /\ shim' = [shim EXCEPT ![s].phase = "open", ![s].conn = k, ![s].toAck = @ \ early]
  /\ UNCHANGED <<queue, file, ownership, owner, bounds, emitted, acked, latest>>

\* Mutant: the ack is sent whether or not the notification went through.
EmitAckAlways(s, ok) ==
  LET k == shim[s].conn
      m == Head(down[k])
  IN /\ shim[s].phase = "open" /\ down[k] # <<>>
     /\ down' = [down EXCEPT ![k] = Tail(@)]
     /\ emitted' = IF ok THEN emitted \cup {<<shim[s].chan, m>>} ELSE emitted
     /\ shim' = [shim EXCEPT ![s].toAck = @ \cup {m}]
     /\ UNCHANGED <<queue, file, ownership, owner, conn, up, bounds, acked, latest>>

\* on_inbound: the notification goes to the CLI; only if that worked is an ack due.
Emit(s, ok) ==
  LET k == shim[s].conn
      m == Head(down[k])
  IN /\ shim[s].phase = "open" /\ down[k] # <<>>
     /\ down' = [down EXCEPT ![k] = Tail(@)]
     /\ emitted' = IF ok THEN emitted \cup {<<shim[s].chan, m>>} ELSE emitted
     /\ shim' = [shim EXCEPT ![s].toAck = IF ok THEN @ \cup {m} ELSE @]
     /\ UNCHANGED <<queue, file, ownership, owner, conn, up, bounds, acked, latest>>

\* The ack goes out on whatever socket the shim has by then; without one, and on one
\* that never connects, it is lost.
SendAck(s, m) ==
  /\ m \in shim[s].toAck
  /\ shim' = [shim EXCEPT ![s].toAck = @ \ {m}]
  /\ up' = IF shim[s].phase = "open" /\ conn[shim[s].conn].server
           THEN [up EXCEPT ![shim[s].conn] = Append(@, m)] ELSE up
  /\ UNCHANGED <<queue, file, ownership, owner, conn, down, bounds, emitted, acked, latest>>

\* The shim's end closes: the daemon closed and everything was read, or the socket
\* failed.
ShimClose(s) ==
  LET k == shim[s].conn
  IN /\ shim[s].phase = "open"
     /\ conn[k].server \/ down[k] = <<>>
     /\ conn' = [conn EXCEPT ![k] = Closed([@ EXCEPT !.client = FALSE])]
     /\ down' = [down EXCEPT ![k] = <<>>]
     /\ shim' = [shim EXCEPT ![s].phase = "waiting", ![s].conn = NoConn]
     /\ UNCHANGED <<queue, file, ownership, owner, up, bounds, emitted, acked, latest>>

\* The session is killed, or its CLI closes the shim's stdin.
ShimDies(s) ==
  LET k == shim[s].conn
  IN /\ shim[s].phase # "off"
     /\ shim' = [shim EXCEPT ![s] = DeadShim]
     /\ IF k = NoConn THEN UNCHANGED <<conn, down>>
        ELSE /\ conn' = [conn EXCEPT ![k] = Closed([@ EXCEPT !.client = FALSE])]
             /\ down' = [down EXCEPT ![k] = <<>>]
     /\ UNCHANGED <<queue, file, ownership, owner, up, bounds, emitted, acked, latest>>

--------------------------------------------------------------------------------
(* The daemon process.                                                            *)

\* A write of the queue file lands.
Persist ==
  /\ daemon = "up" /\ file' = entry /\ file # entry
  /\ UNCHANGED <<queue, ownership, owner, links, shim, bounds, emitted, acked, latest>>

\* The kernel closes the daemon's ends; what it had sent can still be read.
Crash ==
  /\ daemon = "up" /\ crashes < MaxCrashes
  /\ daemon' = "down" /\ crashes' = crashes + 1
  /\ entry' = Empty
  /\ ownership' = [c \in Channels |-> NoBot] /\ owner' = [c \in Channels |-> NoConn]
  /\ latest' = [c \in Channels |-> NoConn]
  /\ conn' = [k \in Conns |-> Closed([conn[k] EXCEPT !.server = FALSE])]
  /\ up' = [k \in Conns |-> <<>>]
  /\ UNCHANGED <<next, file, down, shim, launches, emitted, acked>>

\* start: load, then listen.
Start ==
  /\ daemon = "down" /\ daemon' = "up"
  /\ entry' = [m \in Msgs |-> IF file[m].status = "dead" THEN NoEntry
                              ELSE [file[m] EXCEPT !.status = "pending"]]
  /\ UNCHANGED <<next, file, ownership, owner, links, shim, crashes, launches, emitted, acked,
                 latest>>

FacadeStep ==
  \E c \in Channels : \/ Feed(c) \/ ReleaseChannel(c) \/ DeregisterChannel(c)
                      \/ \E b \in Bots : RegisterChannel(c, b)
ServerStep ==
  \/ \E old \in 0..MaxMsgs : old < next /\ Sweep(old)
  \/ \E k \in Conns : RecvRegister(k) \/ RecvAck(k) \/ OnClose(k)
ShimStep ==
  \E s \in Shims :
    \/ \E c \in Channels : Launch(s, c)
    \/ \E k \in Conns : Connect(s, k)
    \/ \E ok \in BOOLEAN : Emit(s, ok)
    \/ \E m \in Msgs : SendAck(s, m)
    \/ ShimClose(s) \/ ShimDies(s)
DaemonStep == Persist \/ Crash \/ Start

Next == FacadeStep \/ ServerStep \/ ShimStep \/ DaemonStep
Spec == Init /\ [][Next]_svars

\* The sweep timer runs; a shim that runs keeps connecting, reading, acking and
\* noticing a closed socket; the server keeps reading; launchd restarts the daemon.
Fairness ==
  /\ WF_svars(Sweep(0)) /\ WF_svars(Start)
  /\ \A k \in Conns : WF_svars(RecvRegister(k) \/ RecvAck(k) \/ OnClose(k))
  /\ \A s \in Shims : /\ WF_svars(\E k \in Conns : Connect(s, k))
                       /\ WF_svars(\E ok \in BOOLEAN : Emit(s, ok))
                       /\ WF_svars(\E m \in Msgs : SendAck(s, m))
                       /\ WF_svars(ShimClose(s) /\ ~conn[shim[s].conn].server)
FairSpec == Spec /\ Fairness

--------------------------------------------------------------------------------
(* Properties.                                                                    *)

Reached(m) == \E c \in Channels : <<c, m>> \in emitted

\* An ack never removes a message no CLI was handed: the shim acks after the
\* notification, whatever sockets drop and reconnect in between.
AckedWasEmitted == \A m \in acked : Reached(m)

\* A session only ever gets messages of its own channel: through reconnections,
\* slot reuse, releases and restarts no message crosses to another channel's shim.
NoCrossChannel ==
  /\ \A k \in Conns, m \in Msgs :
       m \in Range(down[k]) /\ m \in Queued => conn[k].chan = entry[m].chan
  /\ \A c, d \in Channels, m \in Msgs : <<c, m>> \in emitted /\ <<d, m>> \in emitted => c = d

\* The newest registration wins and keeps winning: while the connection that
\* registered last for a channel is open, it is the one that gets deliveries, even
\* when the close of an older one arrives late.
NewestRegistrationServes ==
  \A c \in Channels : LET k == latest[c] IN
    k # NoConn /\ conn[k].server /\ conn[k].reg = c => owner[c] = k

\* Deliveries only go to connections the server holds open.
OwnersAreOpen == \A c \in Channels : owner[c] # NoConn =>
  conn[owner[c]].server /\ conn[owner[c]].reg = c

\* The registrations are in order: typed, of open connections, the newest one served.
ConnectionsInOrder == TypeOK /\ OwnersAreOpen /\ NewestRegistrationServes

\* While the daemon lives, a live message leaves the queue only because a session
\* got it, it was dead-lettered, or its channel was released.
NeverSilentlyDropped ==
  [][\A m \in Live : daemon' = "up" /\ m \notin Live' =>
       \/ Reached(m)
       \/ m \in Queued' /\ entry'[m].status = "dead"
       \/ ownership'[entry[m].chan] = NoBot]_svars

\* Once a shim stays connected, the backlog drains without the age limit: every live
\* message is acked, cleared or runs out of attempts.
ConnectedBacklogDrains ==
  <>[](\E s \in Shims : shim[s].phase = "open")
    => \A m \in Msgs : (m \in Live) ~> (m \notin Live)
================================================================================
