--------------------------- MODULE MCRelayHandler ---------------------------
(* Two relays, one that limits, sniffs and relays UDP and one that does none. *)
EXTENDS RelayHandler

Limits == [l \in Label |-> IF l \in Raw THEN 1 ELSE 0]
=============================================================================
