------------------------------- MODULE ReviewLease ------------------------------
(* The per-PR review lease, packages/daemon/src/review-lease.ts: one lease per pull *)
(* request, in memory, with lazy expiry.  The lease of one PR is a record; expiry   *)
(* is a step of the module that uses it.  owner is history: the flow the lease was  *)
(* granted to last.                                                                  *)

CONSTANTS
  Sessions,  \* review session ids, each a fresh UUID
  NoSession  \* session_id is absent

ASSUME LeaseAssumption == NoSession \notin Sessions

Holders == {"daemon-cron", "daemon-webhook", "tidus-manual", "daemon-staging"}
Leases  == [holder: Holders, session: Sessions \cup {NoSession}, owner: Sessions]
NoLease == [holder |-> "nobody", session |-> NoSession, owner |-> NoSession]

\* acquire succeeds: nobody holds the lease, or the same holder does, and not in a
\* different session.
Granted(lease, h, s) ==
  \/ lease = NoLease
  \/ lease.holder = h /\ (NoSession \in {s, lease.session} \/ s = lease.session)

\* The lease after a successful acquire: a live one keeps its holder and session.
Acquired(lease, h, s, owner) ==
  IF lease = NoLease THEN [holder |-> h, session |-> s, owner |-> owner]
  ELSE [lease EXCEPT !.owner = owner]

\* holds, which assert_can_merge asks.
Holds(lease, h, s) ==
  /\ lease.holder = h
  /\ NoSession \in {s, lease.session} \/ s = lease.session

\* release: only the holder's name is compared, not the session.
Released(lease, h) == IF lease.holder = h THEN NoLease ELSE lease
================================================================================
