-------------------------------- MODULE MCPrCron --------------------------------
(* PrCron for TLC.  No guard reads the history variables: the safety run identifies  *)
(* states that differ only in those its invariants do not name.                      *)
EXTENDS PrCron

WithoutHistory ==
  <<github, store, review, [poll EXCEPT !.promised = FALSE], drained, ciRunning>>
================================================================================
