-------------------------- MODULE MCSessionManager --------------------------
(* The instances of SessionManager that TLC checks. *)
EXTENDS SessionManager, TLC

CONSTANTS c1, c2, s1, s2, s3, w1, w2, w3

MCChars == {c1}
MCChars2 == {c1, c2}
MCSids2 == {s1, s2}
MCSids == {s1, s2, s3}
MCConns == {w1, w2}
MCConns3 == {w1, w2, w3}

AllFaults == {"refuse", "eof", "reset"}
ReadFaults == {"refuse", "eof"}
=============================================================================
