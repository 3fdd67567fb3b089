------------------------------ MODULE ClientNet -----------------------------
(***************************************************************************)
(* The WebSocket client (frontend/src/ws/client.ts) as its user sees it:   *)
(* n.link, a socket is open; n.awaiting, the auth gate is shut; n.outbox,  *)
(* what waits to be sent; n.up, what is under way.  The operators are what *)
(* its calls and callbacks make of a state n.  Controller is built from    *)
(* them, and ClientLink is the specification they add up to.               *)
(***************************************************************************)
EXTENDS Sequences

(* send() of anything but auth. *)
Sent(n, m) ==
    IF n.link /\ ~n.awaiting THEN [n EXCEPT !.up = Append(@, m)]
                             ELSE [n EXCEPT !.outbox = Append(@, m)]

(* startAuth on an open socket; a is the auth message. *)
AuthStarted(n, a) == [n EXCEPT !.awaiting = TRUE, !.up = Append(@, a)]

(* flushOutbox on an open socket. *)
Flushed(n) == [n EXCEPT !.up = @ \o n.outbox, !.outbox = <<>>]

(* setAuthToken of a token, if on, or of none. *)
WithToken(n, on, a) ==
    IF on /\ n.link /\ ~n.awaiting THEN AuthStarted(n, a) ELSE n

(* onopen: with a token auth goes first and the outbox waits for it. *)
Opened(n, on, a) ==
    LET o == [n EXCEPT !.link = TRUE]
    IN  IF on THEN AuthStarted(o, a) ELSE Flushed(o)

(* handleRaw of auth ok. *)
Granted(n) == IF n.awaiting THEN Flushed([n EXCEPT !.awaiting = FALSE]) ELSE n

(* No open socket, and q in the outbox: at first, and after onclose. *)
Unlinked(q) == [link |-> FALSE, awaiting |-> FALSE, outbox |-> q, up |-> <<>>]
=============================================================================
