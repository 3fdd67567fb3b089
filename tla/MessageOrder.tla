---------------------------- MODULE MessageOrder ----------------------------
(***************************************************************************)
(* What the browser's WebSocket client promises about the messages handed  *)
(* to send(), without sockets, the auth gate or the outbox: each message   *)
(* enters the line once and at its end, and messages leave it from the     *)
(* front, by being served or by being lost with their connection.  So none *)
(* overtakes another, and none comes back after it has left.  WsClient     *)
(* implements this specification.                                          *)
(***************************************************************************)
CONSTANT Msgs

VARIABLES
    entered,  \* the messages handed over so far
    line,     \* those of them that have not left
    ahead     \* the pairs of messages in the line, the first ahead of the second

vars == <<entered, line, ahead>>

Init ==
    /\ entered = {}
    /\ line = {}
    /\ ahead = {}

(* A new message takes its place behind all others. *)
Enter(m) ==
    /\ m \notin entered
    /\ entered' = entered \cup {m}
    /\ line' = line \cup {m}
    /\ ahead' = ahead \cup (line \X {m})

(* Messages leave: with a message, all that are ahead of it. *)
Leave(S) ==
    /\ \A p \in ahead : p[2] \in S => p[1] \in S
    /\ line' = line \ S
    /\ ahead' = ahead \cap (line' \X line')
    /\ UNCHANGED entered

Next ==
    \/ \E m \in Msgs : Enter(m)
    \/ \E S \in SUBSET line : Leave(S)

Spec == Init /\ [][Next]_vars
=============================================================================
