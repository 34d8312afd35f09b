------------------------------ MODULE MCPubSub ------------------------------
(* An instance of PubSub for TLC: two keys that come and go, one subscriber.  *)
EXTENDS PubSub

CONSTANTS k1, k2, v1, s1
=============================================================================
