----------------------------- MODULE MCBrokerQueue -----------------------------
(* A small instance of BrokerQueue for TLC: one channel.  Channels meet only in the    *)
(* file, which every write replaces as a whole; the theorems cover any number of them. *)
EXTENDS BrokerQueue

OneChannel == {"general"}
================================================================================
