------------------------------ MODULE QueueEntries ------------------------------
(* The entries of the broker's inbound queue, packages/daemon/src/broker/queue.ts, *)
(* and the operations on their fields.                                             *)
(*                                                                                 *)
(* Messages are numbered in the order they are fed, so the number is at once the   *)
(* queue id and the enqueue stamp that deliverable_for sorts on.                   *)
EXTENDS Naturals

CONSTANTS
  Channels,      \* Discord channels on the broker transport
  NoChannel,     \* chan of a slot that holds nothing
  MaxMsgs,       \* bound on the messages fed in a behaviour
  MaxDeliveries  \* max_deliveries

ASSUME EntriesAssumption ==
  /\ NoChannel \notin Channels
  /\ MaxMsgs \in Nat
  /\ MaxDeliveries \in Nat

Msgs    == 1..MaxMsgs
Status  == {"pending", "delivered", "dead"}
Entry   == [chan: Channels \cup {NoChannel}, status: Status, deliveries: 0..MaxDeliveries]
NoEntry == [chan |-> NoChannel, status |-> "pending", deliveries |-> 0]
Empty   == [m \in Msgs |-> NoEntry]

\* Mutant: a delivered entry is never offered again.
DueOnce(e, q, C, stale) ==
  {m \in q : e[m].chan \in C /\ e[m].status = "pending"}

\* deliverable_for every channel of C, on entries e with keys q, when the
\* redelivery window of the entries in stale has elapsed.
Due(e, q, C, stale) ==
  {m \in q : /\ e[m].chan \in C
             /\ e[m].status # "dead"
             /\ e[m].status = "pending" \/ m \in stale}

\* Mutant: the budget is tested after it is consumed.
AttemptThenTest(x) ==
  IF x.deliveries + 1 >= MaxDeliveries
  THEN [x EXCEPT !.status = "dead"]
  ELSE [x EXCEPT !.status = "delivered", !.deliveries = @ + 1]

\* mark_delivered on one entry: the budget is tested before it is consumed.
Attempt(x) ==
  IF x.deliveries >= MaxDeliveries
  THEN [x EXCEPT !.status = "dead"]
  ELSE [x EXCEPT !.status = "delivered", !.deliveries = @ + 1]

Attempted(e, S) == [m \in Msgs |-> IF m \in S THEN Attempt(e[m]) ELSE e[m]]

\* The attempts that end in a send, not in a dead letter.
Sent(e, S) == {m \in S : Attempt(e[m]).status = "delivered"}

\* The attempts the budget refuses: dead letters.
Refused(e, S) == {m \in S : Attempt(e[m]).status = "dead"}
================================================================================
