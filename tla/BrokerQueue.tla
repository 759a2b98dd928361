------------------------------ MODULE BrokerQueue ------------------------------
(* The broker's durable inbound queue, packages/daemon/src/broker/queue.ts.      *)
(*                                                                               *)
(* Messages are numbered in the order they are fed, so the number is at once the *)
(* queue id and the enqueue stamp that deliverable_for sorts on.  The two wall   *)
(* clocks the queue reads become sets: windowOver (the redelivery window has     *)
(* passed since the last attempt) and aged (older than dead_letter_after_ms).    *)
(* The persistence loop is modelled at its await points: the keys are copied     *)
(* when an iteration starts, the fields are read after mkdir, the rename lands   *)
(* or fails.  offered, settled and landed are history.                            *)
EXTENDS QueueEntries

CONSTANT MaxStarts  \* bound on the number of daemon starts

ASSUME QueueAssumption == MaxStarts \in Nat

VARIABLES
  next,        \* number of the next message
  queued,      \* keys of the entries Map
  entry,       \* the entry objects; an object outlives its removal from the Map
  windowOver,  \* messages whose redelivery window has elapsed
  aged,        \* messages older than dead_letter_after_ms
  writer,      \* where the persist loop is suspended
  pending,     \* write_pending
  snapKeys,    \* entries copied by persist_now, not serialized yet
  snap,        \* serialized contents of the temp file
  disk,        \* contents of the queue file
  lastWrite,   \* outcome of the last write of this daemon life
  daemon,      \* the daemon process
  starts,      \* daemon starts so far
  offered,     \* history: messages sent to a shim at least once
  settled,     \* history: messages acked, dead-lettered or cleared, not loaded again since
  landed       \* history: messages some completed write contained

memory  == <<queued, entry, windowOver>>
writing == <<writer, pending, snapKeys, snap>>
storage == <<disk, lastWrite, landed>>
history == <<offered, settled>>
qvars   == <<next, memory, aged, writing, storage, daemon, starts, history>>

Running == daemon \in {"up", "stopping"}
OnDisk  == {m \in Msgs : disk[m].chan # NoChannel}
Recoverable == {m \in OnDisk : disk[m].status # "dead"}
Live    == {m \in queued : entry[m].status # "dead"}

TypeOK ==
  /\ next \in 1..(MaxMsgs + 1)
  /\ queued \subseteq Msgs /\ windowOver \subseteq Msgs /\ aged \subseteq Msgs
  /\ entry \in [Msgs -> Entry]
  /\ writer \in {"idle", "mkdir", "writing"} /\ pending \in BOOLEAN
  /\ snapKeys \subseteq Msgs /\ snap \in [Msgs -> Entry] /\ disk \in [Msgs -> Entry]
  /\ lastWrite \in {"none", "ok", "failed"}
  /\ daemon \in {"up", "stopping", "stopped", "crashed"}
  /\ starts \in 0..MaxStarts
  /\ offered \subseteq Msgs /\ settled \subseteq Msgs /\ landed \subseteq Msgs

Init ==
  /\ next = 1
  /\ queued = {} /\ entry = Empty /\ windowOver = {} /\ aged = {}
  /\ writer = "idle" /\ pending = FALSE /\ snapKeys = {} /\ snap = Empty
  /\ disk = Empty /\ lastWrite = "none" /\ landed = {}
  /\ daemon = "stopped" /\ starts = 0
  /\ offered = {} /\ settled = {}

--------------------------------------------------------------------------------
(* Persistence.                                                                  *)

\* Mutant: a call made while a write is in flight is forgotten.
SchedulePersistNoFollowUp(once, again) ==
  \/ (~once \/ writer # "idle") /\ UNCHANGED writing
  \/ once /\ writer = "idle"
     /\ writer' = "mkdir" /\ snapKeys' = queued' /\ pending' = FALSE
     /\ UNCHANGED snap

\* schedule_persist, called once when once holds and at least twice when again
\* holds: the first call starts the loop, which copies the keys synchronously; a
\* call made while the loop runs only asks for a follow-up write.
SchedulePersist(once, again) ==
  \/ ~once /\ UNCHANGED writing
  \/ once /\ writer = "idle"
     /\ writer' = "mkdir" /\ snapKeys' = queued' /\ pending' = again
     /\ UNCHANGED snap
  \/ once /\ writer # "idle"
     /\ pending' = TRUE /\ UNCHANGED <<writer, snapKeys, snap>>

\* JSON.stringify runs after the mkdir await: it writes the copied keys with the
\* fields the objects have by now.
Serialize ==
  /\ Running /\ writer = "mkdir"
  /\ writer' = "writing"
  /\ snap' = [m \in Msgs |-> IF m \in snapKeys THEN entry[m] ELSE NoEntry]
  /\ UNCHANGED <<next, memory, aged, pending, snapKeys, storage, daemon, starts, history>>

\* The end of an iteration of run_persist_loop: repeat while a follow-up is asked.
NextIteration ==
  \/ /\ pending
     /\ writer' = "mkdir" /\ snapKeys' = queued /\ pending' = FALSE /\ UNCHANGED snap
  \/ /\ ~pending
     /\ writer' = "idle" /\ snapKeys' = {} /\ snap' = Empty /\ UNCHANGED pending

WriteLands ==
  /\ Running /\ writer = "writing"
  /\ disk' = snap /\ lastWrite' = "ok"
  /\ landed' = landed \cup {m \in Msgs : snap[m].chan # NoChannel}
  /\ NextIteration
  /\ UNCHANGED <<next, memory, aged, daemon, starts, history>>

\* Mutant: the file is written in place, a failure leaves it empty.
WriteFailsTorn ==
  /\ Running /\ writer # "idle"
  /\ disk' = Empty /\ lastWrite' = "failed"
  /\ NextIteration
  /\ UNCHANGED <<next, memory, aged, landed, daemon, starts, history>>

\* mkdir, writeFile or rename throws: the loop logs and goes on.
WriteFails ==
  /\ Running /\ writer # "idle"
  /\ lastWrite' = "failed"
  /\ NextIteration
  /\ UNCHANGED <<next, memory, aged, disk, landed, daemon, starts, history>>

--------------------------------------------------------------------------------
(* Queue operations, at the granularity of the synchronous handler that calls    *)
(* them.                                                                         *)

\* deliverable_for every channel of C, on entries e with keys q.
Deliverable(e, q, C) == Due(e, q, C, windowOver)

Several(S) == \E a, b \in S : a # b

Enqueued(c) == [entry EXCEPT ![next] = [chan |-> c, status |-> "pending", deliveries |-> 0]]

\* Mutant: only the new message is handed out, not the backlog before it.
FeedNewOnly(c, connected) ==
  LET e   == Enqueued(c)
      due == IF connected THEN {next} ELSE {}
  IN /\ Running /\ next \in Msgs
     /\ next' = next + 1
     /\ queued' = queued \cup {next}
     /\ entry' = Attempted(e, due)
     /\ settled' = settled \cup Refused(e, due)
     /\ offered' = offered \cup Sent(e, due)
     /\ windowOver' = windowOver \ Sent(e, due)
     /\ SchedulePersist(TRUE, due # {})
     /\ UNCHANGED <<aged, storage, daemon, starts>>

\* feed: enqueue, then notify_channel attempts the backlog of the channel when a
\* shim is connected.
Feed(c, connected) ==
  LET e   == Enqueued(c)
      due == IF connected THEN Deliverable(e, queued \cup {next}, {c}) ELSE {}
  IN /\ Running /\ next \in Msgs
     /\ next' = next + 1
     /\ queued' = queued \cup {next}
     /\ entry' = Attempted(e, due)
     /\ settled' = settled \cup Refused(e, due)
     /\ offered' = offered \cup Sent(e, due)
     /\ windowOver' = windowOver \ Sent(e, due)
     /\ SchedulePersist(TRUE, due # {})
     /\ UNCHANGED <<aged, storage, daemon, starts>>

\* deliver_backlog of the channels in C.
Deliver(C) ==
  LET due == Deliverable(entry, queued, C)
  IN /\ Running
     /\ entry' = Attempted(entry, due)
     /\ settled' = settled \cup Refused(entry, due)
     /\ offered' = offered \cup Sent(entry, due)
     /\ windowOver' = windowOver \ Sent(entry, due)
     /\ UNCHANGED queued
     /\ SchedulePersist(due # {}, Several(due))
     /\ UNCHANGED <<next, aged, storage, daemon, starts>>

\* Mutant: the age pass spares entries that were never attempted.
ExpiredAttempted == {m \in Live : m \in aged /\ entry[m].deliveries > 0}


Expired == {m \in Live : m \in aged}
Killed(S) == [m \in Msgs |-> IF m \in S THEN [entry[m] EXCEPT !.status = "dead"] ELSE entry[m]]

\* sweep: the age pass over every entry, then redelivery on the channels in C.
SweepQueue(C) ==
  LET e   == Killed(Expired)
      due == Deliverable(e, queued, C)
  IN /\ Running
     /\ entry' = Attempted(e, due)
     /\ settled' = settled \cup Expired \cup Refused(e, due)
     /\ offered' = offered \cup Sent(e, due)
     /\ windowOver' = windowOver \ Sent(e, due)
     /\ UNCHANGED queued
     /\ SchedulePersist(Expired # {} \/ due # {},
                        Several(due) \/ (Expired # {} /\ due # {}))
     /\ UNCHANGED <<next, aged, storage, daemon, starts>>

\* ack: idempotent, removes the entry whatever its status.  Ids are only known to
\* shims that were sent the message, in this daemon life or an earlier one.
Ack(m) ==
  /\ Running /\ m \in offered
  /\ queued' = queued \ {m}
  /\ settled' = settled \cup (queued \cap {m})
  /\ SchedulePersist(m \in queued, FALSE)
  /\ UNCHANGED <<next, entry, windowOver, aged, storage, daemon, starts, offered>>

\* clear_channel, called by release_channel.
ClearChannel(c) ==
  LET gone == {m \in queued : entry[m].chan = c}
  IN /\ Running
     /\ queued' = queued \ gone
     /\ settled' = settled \cup gone
     /\ SchedulePersist(gone # {}, FALSE)
     /\ UNCHANGED <<next, entry, windowOver, aged, storage, daemon, starts, offered>>

--------------------------------------------------------------------------------
(* The clocks and the daemon process.                                            *)

WindowElapses(m) ==
  /\ m \in Live /\ m \notin windowOver /\ entry[m].status = "delivered"
  /\ windowOver' = windowOver \cup {m}
  /\ UNCHANGED <<next, queued, entry, aged, writing, storage, daemon, starts, history>>

\* Messages age in the order they were enqueued.
Ages(m) ==
  /\ m < next /\ m \notin aged /\ \A j \in Msgs : j < m => j \in aged
  /\ aged' = aged \cup {m}
  /\ UNCHANGED <<next, memory, writing, storage, daemon, starts, history>>

\* A life may end only while another start is left, so the bound never strands
\* the queue.
MayEnd == starts < MaxStarts

\* DiscordBroker.stop: flush schedules a write and waits for the loop to drain.
StopBegin ==
  /\ daemon = "up" /\ MayEnd
  /\ daemon' = "stopping"
  /\ UNCHANGED queued
  /\ SchedulePersist(TRUE, FALSE)
  /\ UNCHANGED <<next, entry, windowOver, aged, storage, starts, history>>

Forget == queued' = {} /\ entry' = Empty /\ windowOver' = {}
          /\ writer' = "idle" /\ pending' = FALSE /\ snapKeys' = {} /\ snap' = Empty

\* Mutant: stop does not wait for the write loop.
StopNoWait ==
  /\ daemon = "stopping"
  /\ daemon' = "stopped" /\ Forget
  /\ UNCHANGED <<next, aged, storage, starts, history>>


StopDone ==
  /\ daemon = "stopping" /\ writer = "idle"
  /\ daemon' = "stopped" /\ Forget
  /\ UNCHANGED <<next, aged, storage, starts, history>>

Crash ==
  /\ Running /\ MayEnd
  /\ daemon' = "crashed" /\ Forget
  /\ UNCHANGED <<next, aged, storage, starts, history>>

\* Mutant: load keeps only pending entries.
StartPendingOnly ==
  LET kept == {m \in OnDisk : disk[m].status = "pending"}
  IN /\ ~Running /\ starts < MaxStarts
     /\ daemon' = "up" /\ starts' = starts + 1
     /\ queued' = kept
     /\ entry' = [m \in Msgs |-> IF m \in kept THEN disk[m] ELSE NoEntry]
     /\ lastWrite' = "none"
     /\ settled' = settled \ kept
     /\ UNCHANGED <<next, windowOver, aged, writing, disk, landed, offered>>

\* load: dead entries are dropped, every other one is pending again.
Start ==
  /\ ~Running /\ starts < MaxStarts
  /\ daemon' = "up" /\ starts' = starts + 1
  /\ queued' = Recoverable
  /\ entry' = [m \in Msgs |-> IF m \in Recoverable
                              THEN [disk[m] EXCEPT !.status = "pending"] ELSE NoEntry]
  /\ lastWrite' = "none"
  /\ settled' = settled \ Recoverable
  /\ UNCHANGED <<next, windowOver, aged, writing, disk, landed, offered>>

WriterStep == Serialize \/ WriteLands \/ WriteFails
ClockStep  == \E m \in Msgs : WindowElapses(m) \/ Ages(m)
LifeStep   == StopBegin \/ StopDone \/ Crash \/ Start

\* Every behaviour the server above the queue can drive it through.
Next ==
  \/ \E c \in Channels, connected \in BOOLEAN : Feed(c, connected)
  \/ \E C \in SUBSET Channels : Deliver(C) \/ SweepQueue(C)
  \/ \E m \in Msgs : Ack(m)
  \/ \E c \in Channels : ClearChannel(c)
  \/ WriterStep \/ ClockStep \/ LifeStep

Spec == Init /\ [][Next]_qvars

\* setInterval keeps sweeping while the daemon runs, time passes, a write that
\* started ends, and launchd starts a daemon that is down.
Fairness ==
  /\ WF_qvars(SweepQueue({}))
  /\ WF_qvars(Serialize) /\ WF_qvars(WriteLands \/ WriteFails)
  /\ \A m \in Msgs : WF_qvars(Ages(m))
  /\ WF_qvars(Start) /\ WF_qvars(StopDone)
FairSpec == Spec /\ Fairness

--------------------------------------------------------------------------------
(* Properties.                                                                   *)

Image == [m \in Msgs |-> IF m \in queued THEN entry[m] ELSE NoEntry]

\* queue.ts promises that "coalescing loses nothing": when no write is in flight
\* and the last one succeeded, the file holds exactly the queue in memory.
CoalescingLosesNothing ==
  Running /\ writer = "idle" /\ lastWrite = "ok" => disk = Image

\* A message that a completed write has contained is never dropped silently: it
\* is live in the queue (or on disk while the daemon is down), or it was acked,
\* dead-lettered or cleared.  This holds across crashes and failed writes.
LandedIsKept ==
  \A m \in landed :
    \/ m \in settled
    \/ Running /\ m \in Live
    \/ ~Running /\ m \in Recoverable

\* README and queue.ts: an event is persisted before any delivery attempt.
PersistedBeforeDelivery == offered \subseteq landed

\* The attempt budget: an entry is dead only once every attempt of its budget
\* was made, or because it aged out; no shortcut drops the last attempt.
DeadOnlyWhenSpent ==
  \A m \in queued : entry[m].status = "dead" =>
    entry[m].deliveries = MaxDeliveries \/ m \in aged

\* Oldest first: while an entry counts an attempt, every older live entry of its
\* channel has been sent to a shim, in this daemon life or an earlier one.  (Not: it
\* counts an attempt too.  An ack that removed it may be forgotten by a crash while
\* the write that kept the younger entry's count was already under way.)
NoOvertaking ==
  \A m \in queued, j \in Live :
    j < m /\ entry[j].chan = entry[m].chan /\ entry[m].deliveries > 0 => j \in offered

\* A graceful stop whose last write succeeded leaves every live message on disk,
\* ready to be loaded, and no message it had settled.
GracefulStopKeepsBacklog ==
  [][daemon = "stopping" /\ daemon' = "stopped" /\ lastWrite = "ok"
       => Recoverable = Live]_qvars

\* Within a daemon life a settled message stays settled: only a restart may bring
\* one back.
SettledStaysSettled ==
  [][Running /\ Running' => \A m \in Msgs :
       m < next /\ m \notin Live => m \notin Live']_qvars

\* Where the abstract mailbox has each message.
Box == [m \in Msgs |->
  IF m >= next THEN "unsent"
  ELSE IF m \in (IF Running THEN Live ELSE Recoverable) THEN "held"
  ELSE IF m \in settled THEN "settled" ELSE "lost"]

\* The queue implements the abstract mailbox: at-least-once for whatever a write
\* has contained, whatever the interleaving of handlers, writes and crashes.
Mailbox == INSTANCE DurableMailbox WITH box <- Box, durable <- landed
ImplementsMailbox == Mailbox!MailboxSpec

\* The age backstop: with the sweep running, no message stays in the queue for
\* ever, even if no shim ever connects.
EventuallySettled == \A m \in Msgs : (m \in Live) ~> (m \notin Live)
================================================================================
