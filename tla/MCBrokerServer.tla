----------------------------- MODULE MCBrokerServer ----------------------------
(* BrokerServer for TLC: symmetric channels, bots, shims and connection slots.     *)
EXTENDS BrokerServer, TLC

Interchangeable ==
  Permutations(Channels) \cup Permutations(Bots) \cup Permutations(Shims) \cup Permutations(Conns)
================================================================================
