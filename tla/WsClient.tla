------------------------------ MODULE WsClient ------------------------------
(***************************************************************************)
(* The browser's WebSocket client (frontend/src/ws/client.ts) with what    *)
(* WsController and the connection banner do to it: connecting, the auth   *)
(* gate, the outbox, requests and their timeouts, reconnection by timer    *)
(* and by the button, login and logout.  The gateway is modelled as far as *)
(* a WsConnection answers auth messages and requests.                      *)
(*                                                                         *)
(* JavaScript runs one callback at a time, so an action is one callback.   *)
(* A WebSocket object that the client has replaced keeps its handlers.     *)
(***************************************************************************)
EXTENDS Naturals, Sequences

CONSTANTS
    Socks,    \* WebSocket objects; their number bounds reconnections
    Msgs,     \* messages the user interface sends, each once
    Reqs,     \* those sent with request(), which wait for an answer
    Tokens,   \* login tokens
    Stale,    \* those the gateway refuses
    Null      \* no socket, no token

ASSUME ConstantsAssumption ==
    /\ Socks # {}
    /\ Reqs \subseteq Msgs
    /\ Stale \subseteq Tokens
    /\ Null \notin Socks \cup Msgs \cup Tokens

VARIABLES
    sock,       \* sock[k]: readyState of k, "none" before it is created
    ws,         \* this.ws
    timer,      \* reconnectTimer is armed
    token,      \* authToken, which the controller's token equals
    awaiting,   \* awaitingAuth
    outbox,     \* outbox
    pending,    \* the keys of pending
    shown,      \* socketState, what the connection banner goes by
    asking,     \* a REST login is under way
    issued,     \* the messages handed to send()
    up,         \* up[k]: messages on their way to the gateway
    dn,         \* dn[k]: answers on their way to the browser
    acct,       \* acct[k]: _account_id of the gateway's end of k
    denied,     \* the sockets on which the gateway has refused a token
    hurried     \* history: the button was pressed while a socket connected

vars == <<sock, ws, timer, token, awaiting, outbox, pending, shown, asking,
          issued, up, dn, acct, denied, hurried>>
gate == <<awaiting, outbox, up>>
gateway == <<dn, acct, denied>>
user == <<token, asking, issued, hurried>>

Auth(t) == [type |-> "auth", body |-> t]
App(m) == [type |-> "app", body |-> m]
Message == [type : {"auth"}, body : Tokens] \cup [type : {"app"}, body : Msgs]

Granted(ok) == [type |-> "auth", body |-> ok]
Answer(m) == [type |-> "app", body |-> m]
Reply == [type : {"auth"}, body : BOOLEAN] \cup [type : {"app"}, body : Reqs]

TypeOK ==
    /\ sock \in [Socks -> {"none", "connecting", "open", "closed"}]
    /\ ws \in Socks \cup {Null}
    /\ timer \in BOOLEAN
    /\ token \in Tokens \cup {Null}
    /\ awaiting \in BOOLEAN
    /\ outbox \in Seq(Message)
    /\ pending \in SUBSET Reqs
    /\ shown \in {"idle", "connecting", "open", "reconnecting"}
    /\ asking \in BOOLEAN
    /\ issued \in SUBSET Msgs
    /\ up \in [Socks -> Seq(Message)]
    /\ dn \in [Socks -> Seq(Reply)]
    /\ acct \in [Socks -> Tokens \cup {Null}]
    /\ denied \in SUBSET Socks
    /\ hurried \in BOOLEAN

Fresh == {k \in Socks : sock[k] = "none"}

(* Sockets carry no meaning, so the model creates them in one fixed order. *)
NextSock == CHOOSE k \in Socks : sock[k] = "none"

(* main.tsx: restore() takes the token that localStorage holds, if any,    *)
(* then connect() opens the first socket.                                  *)
Init ==
    /\ ws = CHOOSE k \in Socks : TRUE
    /\ sock = [k \in Socks |-> IF k = ws THEN "connecting" ELSE "none"]
    /\ timer = FALSE
    /\ token \in Tokens \cup {Null}
    /\ awaiting = FALSE
    /\ outbox = <<>>
    /\ pending = {}
    /\ shown = "idle"
    /\ asking = FALSE
    /\ issued = {}
    /\ up = [k \in Socks |-> <<>>]
    /\ dn = [k \in Socks |-> <<>>]
    /\ acct = [k \in Socks |-> Null]
    /\ denied = {}
    /\ hurried = FALSE
-----------------------------------------------------------------------------
IsOpen == ws # Null /\ sock[ws] = "open"

(* WebSocket.send of every message of q, in order, on this.ws. *)
Transmit(q) == up' = [up EXCEPT ![ws] = @ \o q]

(* send() of anything but auth. *)
Send(m) ==
    IF IsOpen /\ ~awaiting
      THEN Transmit(<<m>>) /\ UNCHANGED outbox
      ELSE outbox' = Append(outbox, m) /\ UNCHANGED up

(* startAuth when this.ws is in the state open: auth passes its own gate,  *)
(* but not a socket that is not open.                                      *)
StartAuth(t, open) ==
    /\ awaiting' = TRUE
    /\ IF open
         THEN Transmit(<<Auth(t)>>) /\ UNCHANGED outbox
         ELSE outbox' = Append(outbox, Auth(t)) /\ UNCHANGED up

(* flushOutbox behind its guard: the outbox is emptied first, so what it   *)
(* held is lost if this.ws cannot send.                                    *)
FlushOutbox(open) ==
    /\ outbox' = <<>>
    /\ IF open THEN Transmit(outbox) ELSE UNCHANGED up

(* openSocket *)
OpenSocket ==
    /\ Fresh # {}
    /\ sock' = [sock EXCEPT ![NextSock] = "connecting"]
    /\ ws' = NextSock

(* setAuthToken: a token set on an open socket is announced at once. *)
SetAuthToken(t) ==
    /\ token' = t
    /\ IF t # Null /\ IsOpen /\ ~awaiting
         THEN StartAuth(t, TRUE)
         ELSE UNCHANGED gate
-----------------------------------------------------------------------------
(* onopen, when this.ws is in the state open: with a token the auth gate   *)
(* comes first, without one the outbox goes out unless a gate is shut.     *)
OnOpen_Ungated(open) == StartAuth(token, open)
OnOpen_FlushFirst(open) == FlushOutbox(open) /\ UNCHANGED awaiting
OnOpen(open) ==
    \/ token # Null /\ StartAuth(token, open)
    \/ token = Null /\ ~awaiting /\ FlushOutbox(open) /\ UNCHANGED awaiting
    \/ token = Null /\ awaiting /\ UNCHANGED gate

(* The send of a flush throws: onopen ends before the controller hears.    *)
FlushThrows(open) == token = Null /\ ~awaiting /\ outbox # <<>> /\ ~open

(* onopen of k.  It acts on this.ws, which another socket may be by now. *)
SocketOpens(k) ==
    LET open == ws # Null /\ (ws = k \/ sock[ws] = "open") IN
    /\ sock[k] = "connecting"
    /\ sock' = [sock EXCEPT ![k] = "open"]
    /\ OnOpen(open)
    /\ shown' = IF FlushThrows(open) THEN shown ELSE "open"
    /\ UNCHANGED <<ws, timer, pending, user, gateway>>

RejectAllPending_None == pending' = pending
RejectAllPending == pending' = {}

(* The next connection starts from auth again. *)
ResetGate_Never == awaiting' = awaiting
ResetGate == awaiting' = FALSE

ScheduleReconnect_Never == timer' = timer
ScheduleReconnect == timer' = TRUE

(* onclose of k, after a failed connect or a lost connection: whatever was *)
(* under way on it is lost.  It acts on the whole client as well.          *)
SocketCloses(k) ==
    /\ sock[k] \in {"connecting", "open"}
    /\ Fresh # {}
    /\ sock' = [sock EXCEPT ![k] = "closed"]
    /\ RejectAllPending
    /\ ResetGate
    /\ ws' = Null
    /\ ScheduleReconnect
    /\ shown' = "reconnecting"
    /\ up' = [up EXCEPT ![k] = <<>>]
    /\ dn' = [dn EXCEPT ![k] = <<>>]
    /\ UNCHANGED <<outbox, user, acct, denied>>

(* The reconnect timer fires after its backoff. *)
TimerFires ==
    /\ timer
    /\ OpenSocket
    /\ timer' = FALSE
    /\ UNCHANGED <<pending, shown, gate, user, gateway>>

(* The banner's button, offered while it shows "reconnecting". *)
ReconnectNow ==
    /\ shown = "reconnecting"
    /\ OpenSocket
    /\ timer' = FALSE
    /\ shown' = "connecting"
    /\ hurried' = (hurried \/ ws # Null)
    /\ UNCHANGED <<pending, gate, token, asking, issued, gateway>>
-----------------------------------------------------------------------------
(* login(), the first try or the next one after the REST call failed: the  *)
(* banner says connecting.                                                 *)
LoginBegins ==
    /\ token = Null
    /\ asking' = TRUE
    /\ shown' = "connecting"
    /\ UNCHANGED <<sock, ws, timer, token, issued, hurried, pending, gate, gateway>>

LoginSucceeds(t) ==
    /\ asking
    /\ asking' = FALSE
    /\ SetAuthToken(t)
    /\ UNCHANGED <<sock, ws, timer, issued, hurried, pending, shown, gateway>>

Logout ==
    /\ token # Null
    /\ SetAuthToken(Null)
    /\ UNCHANGED <<sock, ws, timer, asking, issued, hurried, pending, shown, gateway>>

(* request() or send() by a logged-in user interface. *)
Issue(m) ==
    /\ token # Null
    /\ m \notin issued
    /\ issued' = issued \cup {m}
    /\ pending' = pending \cup ({m} \cap Reqs)
    /\ Send(App(m))
    /\ UNCHANGED <<sock, ws, timer, token, asking, hurried, awaiting, shown, gateway>>

(* The timeout of a request rejects it; the message stays where it is. *)
RequestTimesOut(m) ==
    /\ m \in pending
    /\ pending' = pending \ {m}
    /\ UNCHANGED <<sock, ws, timer, shown, gate, user, gateway>>

(* handleRaw of an answer to a request. *)
ReceiveAnswer(k) ==
    /\ dn[k] # <<>> /\ Head(dn[k]).type = "app"
    /\ dn' = [dn EXCEPT ![k] = Tail(@)]
    /\ pending' = pending \ {Head(dn[k]).body}
    /\ UNCHANGED <<sock, ws, timer, shown, gate, user, acct, denied>>

OpenGate_Unflushed == awaiting' = FALSE /\ UNCHANGED <<outbox, up>>
OpenGate == awaiting' = FALSE /\ FlushOutbox(IsOpen)

(* handleRaw of auth ok: the gate opens and the outbox goes out. *)
ReceiveGrant(k) ==
    /\ dn[k] # <<>> /\ Head(dn[k]) = Granted(TRUE)
    /\ dn' = [dn EXCEPT ![k] = Tail(@)]
    /\ IF awaiting THEN OpenGate ELSE UNCHANGED gate
    /\ UNCHANGED <<sock, ws, timer, pending, shown, user, acct, denied>>

(* handleRaw of a refused auth: the gate stays shut and the controller     *)
(* forgets the token.                                                      *)
ReceiveRefusal(k) ==
    /\ dn[k] # <<>> /\ Head(dn[k]) = Granted(FALSE)
    /\ dn' = [dn EXCEPT ![k] = Tail(@)]
    /\ SetAuthToken(Null)
    /\ UNCHANGED <<sock, ws, timer, asking, issued, hurried, pending, shown, acct,
                   denied>>
-----------------------------------------------------------------------------
(* _handle_auth of the gateway's end of k. *)
GatewayAuth(k) ==
    /\ up[k] # <<>> /\ Head(up[k]).type = "auth"
    /\ up' = [up EXCEPT ![k] = Tail(@)]
    /\ LET t == Head(up[k]).body IN
       /\ dn' = [dn EXCEPT ![k] = Append(@, Granted(t \notin Stale))]
       /\ acct' = IF t \in Stale THEN acct ELSE [acct EXCEPT ![k] = t]
       /\ denied' = IF t \in Stale THEN denied \cup {k} ELSE denied
    /\ UNCHANGED <<sock, ws, timer, awaiting, outbox, pending, shown, user>>

(* Any other message; a request is answered, with an error if need be. *)
GatewayServes(k) ==
    /\ up[k] # <<>> /\ Head(up[k]).type = "app"
    /\ up' = [up EXCEPT ![k] = Tail(@)]
    /\ dn' = [dn EXCEPT ![k] =
                IF Head(up[k]).body \in Reqs
                  THEN Append(@, Answer(Head(up[k]).body)) ELSE @]
    /\ UNCHANGED <<sock, ws, timer, awaiting, outbox, pending, shown, user, acct,
                   denied>>
-----------------------------------------------------------------------------
Receive(k) == ReceiveAnswer(k) \/ ReceiveGrant(k) \/ ReceiveRefusal(k)
Gateway(k) == GatewayAuth(k) \/ GatewayServes(k)

Next ==
    \/ \E k \in Socks : SocketOpens(k) \/ SocketCloses(k) \/ Receive(k) \/ Gateway(k)
    \/ TimerFires \/ ReconnectNow
    \/ LoginBegins \/ Logout \/ \E t \in Tokens : LoginSucceeds(t)
    \/ \E m \in Msgs : Issue(m) \/ RequestTimesOut(m)

Spec == Init /\ [][Next]_vars

(* Timers fire, callbacks run and the gateway answers; the network fails   *)
(* as often as SocketCloses is bounded to, then a connect succeeds.        *)
Fairness ==
    /\ \A k \in Socks : /\ WF_vars(SocketOpens(k))
                        /\ WF_vars(Receive(k))
                        /\ WF_vars(Gateway(k))
    /\ WF_vars(TimerFires)
    /\ \A m \in Msgs : WF_vars(RequestTimesOut(m))

FairSpec == Spec /\ Fairness
-----------------------------------------------------------------------------
(* Some token was announced to the gateway on k. *)
HasAuth(q) == \E i \in DOMAIN q : q[i].type = "auth"
Announced(k) ==
    \/ HasAuth(up[k])
    \/ acct[k] # Null
    \/ k \in denied

(* A logged-in client sends on a connection only after its auth message:   *)
(* the gate is never open on a connection that the gateway does not know.  *)
AuthFirst == IsOpen /\ ~awaiting /\ token # Null => Announced(ws)

(* The messages of a queue, and the pairs of them in their order. *)
Of(q) == {m \in Msgs : \E i \in DOMAIN q : q[i] = App(m)}
InFront(q) ==
    {p \in Msgs \X Msgs :
        \E i, j \in DOMAIN q : i < j /\ q[i] = App(p[1]) /\ q[j] = App(p[2])}

(* What is under way on the socket in use, and all the client has in hand. *)
Wire == IF ws = Null THEN <<>> ELSE up[ws]
Replies == IF ws = Null THEN <<>> ELSE dn[ws]
Line == Wire \o outbox

(* Messages go to the gateway in the order of their send(), each at most   *)
(* once, over reconnections, the auth gate and the flush of the outbox:    *)
(* none overtakes another, and none that was lost or served is sent again. *)
(* A socket that the button leaves behind takes what is on it out of line. *)
Order == INSTANCE MessageOrder
         WITH entered <- issued, line <- Of(Line), ahead <- InFront(Line)
KeepsOrder == Order!Spec

(* A request that still waits can still be answered: its message waits to  *)
(* be sent, or it or its answer is under way on the socket in use.  Not so *)
(* once the button has left a second socket behind.                        *)
Answerable(m) ==
    \/ \E i \in DOMAIN outbox : outbox[i] = App(m)
    \/ ws # Null /\ \/ \E i \in DOMAIN up[ws] : up[ws][i] = App(m)
                    \/ \E i \in DOMAIN dn[ws] : dn[ws][i] = Answer(m)
PendingIsAnswerable == ~hurried => \A m \in pending : Answerable(m)

(* What Controller is modelled over: until the button leaves a socket      *)
(* behind, the sockets, the timer and the callbacks on this.ws add up to   *)
(* one link that opens and closes.                                         *)
Net == [link |-> IsOpen, awaiting |-> awaiting, outbox |-> outbox, up |-> Wire]
Link == INSTANCE ClientLink WITH net <- Net, down <- Replies, waits <- pending
ImplementsLink == Link!Init /\ [][hurried' \/ Link!Next]_(Link!vars)

(* A client that has lost its socket comes back to an open one. *)
Reconnects == ws = Null ~> IsOpen

(* The gate does not stay shut for ever, unless the gateway has refused a  *)
(* token on the socket in use.                                             *)
GateOpens == awaiting ~> (~awaiting \/ ws \in denied \/ hurried)

(* client.ts: a token set on an open socket is announced at once, so the   *)
(* last auth message on it carries the token in use.                       *)
TokenAnnounced ==
    IsOpen /\ token # Null =>
        \/ acct[ws] = token
        \/ \E i \in DOMAIN up[ws] : up[ws][i] = Auth(token)
        \/ token \in Stale
=============================================================================
