---------------------------- MODULE MCWsClient ----------------------------
(* Instances of WsClient for TLC. *)
EXTENDS WsClient, TLC

CONSTANTS k1, k2, k3, r1, n1, ta, tb

MCSocks == {k1, k2, k3}
MCMsgs == {r1, n1}
MCReqs == {r1}
MCTokens == {ta, tb}
MCStale == {tb}
===========================================================================
