----------------------------- MODULE ClientLink -----------------------------
(***************************************************************************)
(* The WebSocket client that Controller is modelled over: one link that    *)
(* opens and closes, an auth gate, an outbox, and promises that an answer, *)
(* a timeout or the end of the link settles.  There are no sockets, timers *)
(* or reconnections here.  WsClient implements this specification as long  *)
(* as the reconnect button is not pressed while a socket is connecting.    *)
(***************************************************************************)
EXTENDS ClientNet

CONSTANTS
    Msgs,     \* messages the user interface sends
    Reqs,     \* those sent with request()
    Tokens,   \* login tokens
    Null      \* no token

VARIABLES
    net,      \* the client, as in ClientNet
    down,     \* what the gateway has sent on the link
    waits,    \* the requests whose promise is pending
    token     \* the token in use

vars == <<net, down, waits, token>>

Auth(t) == [type |-> "auth", body |-> t]
App(m) == [type |-> "app", body |-> m]

Init ==
    /\ net = Unlinked(<<>>)
    /\ down = <<>>
    /\ waits = {}
    /\ token \in Tokens \cup {Null}

Opens ==
    /\ ~net.link
    /\ net' = Opened(net, token # Null, Auth(token))
    /\ UNCHANGED <<down, waits, token>>

(* The link, or an attempt at one, ends: every promise is rejected, what   *)
(* was under way is lost, what waited still waits.                         *)
Closes ==
    /\ net' = Unlinked(net.outbox)
    /\ down' = <<>>
    /\ waits' = {}
    /\ UNCHANGED token

SetsToken(t) ==
    /\ token' = t
    /\ net' = WithToken(net, t # Null, Auth(t))
    /\ UNCHANGED <<down, waits>>

Sends(m) ==
    /\ net' = Sent(net, App(m))
    /\ waits' = waits \cup ({m} \cap Reqs)
    /\ UNCHANGED <<down, token>>

TimesOut(m) ==
    /\ waits' = waits \ {m}
    /\ UNCHANGED <<net, down, token>>

(* The gateway serves the next message: a token is granted or refused, a   *)
(* request is answered.                                                    *)
Serves ==
    /\ net.up # <<>>
    /\ net' = [net EXCEPT !.up = Tail(@)]
    /\ LET m == Head(net.up) IN
       \/ m.type = "auth" /\ \E ok \in BOOLEAN : down' = Append(down, Auth(ok))
       \/ m.type = "app" /\ m.body \in Reqs /\ down' = Append(down, m)
       \/ m.type = "app" /\ m.body \notin Reqs /\ down' = down
    /\ UNCHANGED <<waits, token>>

(* The client takes the next message of the gateway. *)
Takes ==
    /\ down # <<>>
    /\ down' = Tail(down)
    /\ LET m == Head(down) IN
       \/ /\ m = Auth(TRUE)
          /\ net' = Granted(net)
          /\ UNCHANGED <<waits, token>>
       \/ /\ m = Auth(FALSE)
          /\ token' = Null
          /\ UNCHANGED <<net, waits>>
       \/ /\ m.type = "app"
          /\ waits' = waits \ {m.body}
          /\ UNCHANGED <<net, token>>

Next ==
    \/ Opens \/ Closes \/ Serves \/ Takes
    \/ \E t \in Tokens \cup {Null} : SetsToken(t)
    \/ \E m \in Msgs : Sends(m) \/ TimesOut(m)

Spec == Init /\ [][Next]_vars
=============================================================================
