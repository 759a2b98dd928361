---------------------------- MODULE DurableMailbox -----------------------------
(* What the broker's inbound queue promises of each message, without its          *)
(* timers, its attempt counts or its file: packages/daemon/src/broker/README.md,  *)
(* "Durable, at-least-once delivery".                                             *)
(*                                                                               *)
(* A posted message is held until it is settled (acked, dead-lettered or          *)
(* cleared).  A write makes some of the held messages durable.  A crash loses     *)
(* only messages that were never durable, and may bring back durable ones whose   *)
(* settlement was not written: at least once, never lost.                         *)
CONSTANT Msgs

VARIABLES
  box,      \* where each message is
  durable   \* messages a completed write has contained

mvars == <<box, durable>>

MailboxInit ==
  /\ box = [m \in Msgs |-> "unsent"]
  /\ durable = {}

\* A new message is held.  Handing out the backlog on that occasion may settle
\* (dead-letter) any held message, the new one included.
Post(m, S) ==
  /\ box[m] = "unsent" /\ \A j \in S : j = m \/ box[j] = "held"
  /\ box' = [j \in Msgs |-> IF j \in S THEN "settled" ELSE IF j = m THEN "held" ELSE box[j]]
  /\ UNCHANGED durable

Settle(S) ==
  /\ \A m \in S : box[m] = "held"
  /\ box' = [m \in Msgs |-> IF m \in S THEN "settled" ELSE box[m]]
  /\ UNCHANGED durable

\* A write of a snapshot: what it holds was posted.
Persist(S) ==
  /\ \A m \in S : box[m] # "unsent"
  /\ durable' = durable \cup S
  /\ UNCHANGED box

\* The process goes down and will find S again: every durable message it held,
\* and possibly durable ones it had settled.
GoDown(S) ==
  /\ S \subseteq {m \in durable : box[m] \in {"held", "settled"}}
  /\ {m \in durable : box[m] = "held"} \subseteq S
  /\ box' = [m \in Msgs |-> IF m \in S THEN "held"
                            ELSE IF box[m] = "held" THEN "lost" ELSE box[m]]
  /\ UNCHANGED durable

MailboxNext ==
  \/ \E m \in Msgs, S \in SUBSET Msgs : Post(m, S)
  \/ \E S \in SUBSET Msgs : Settle(S) \/ Persist(S) \/ GoDown(S)

MailboxSpec == MailboxInit /\ [][MailboxNext]_mvars
================================================================================
