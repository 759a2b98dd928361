------------------------------ MODULE MCBotPool ------------------------------
(* Two bots, so that a third party must evict, and two channels, one of      *)
(* them with the broker transport. The bots are interchangeable.             *)
EXTENDS BotPool, TLC

Sym == Permutations(Bots)
=============================================================================
