--------------------------- MODULE WsClientProofs ---------------------------
(***************************************************************************)
(* Proofs about WsClient for every number of sockets, messages and tokens, *)
(* whenever the reconnect button is pressed: its types, the auth gate, the *)
(* requests that wait, the order of messages (WsClient implements          *)
(* MessageOrder), and that until the button leaves a socket behind the     *)
(* client is the one that Controller is modelled over (it implements       *)
(* ClientLink).                                                            *)
(***************************************************************************)
EXTENDS WsClient, Integers, TLAPS

(* A sequence holds an auth message if one of its parts does. *)
LEMMA HasAuthConcat ==
    ASSUME NEW p \in Seq(Message), NEW q \in Seq(Message)
    PROVE  HasAuth(p \o q) <=> HasAuth(p) \/ HasAuth(q)
<1>1. ASSUME NEW i \in DOMAIN p
      PROVE  i \in DOMAIN (p \o q) /\ (p \o q)[i] = p[i]
    OBVIOUS
<1>2. ASSUME NEW i \in DOMAIN q
      PROVE  Len(p) + i \in DOMAIN (p \o q) /\ (p \o q)[Len(p) + i] = q[i]
    OBVIOUS
<1>3. ASSUME NEW i \in DOMAIN (p \o q)
      PROVE  \/ i \in DOMAIN p /\ (p \o q)[i] = p[i]
             \/ i - Len(p) \in DOMAIN q /\ (p \o q)[i] = q[i - Len(p)]
    OBVIOUS
<1>4. HasAuth(p \o q) => HasAuth(p) \/ HasAuth(q)
    BY <1>3 DEF HasAuth
<1>5. HasAuth(p) => HasAuth(p \o q)
    BY <1>1 DEF HasAuth
<1>6. HasAuth(q) => HasAuth(p \o q)
    <2>1. ASSUME NEW i \in DOMAIN q, q[i].type = "auth"
          PROVE  HasAuth(p \o q)
        <3>1. Len(p) + i \in DOMAIN (p \o q) /\ (p \o q)[Len(p) + i].type = "auth"
            BY <1>2, <2>1
        <3>2. QED
            BY ONLY <3>1 DEF HasAuth
    <2>2. QED
        BY <2>1 DEF HasAuth
<1>7. QED
    BY <1>4, <1>5, <1>6

LEMMA HasAuthAppend ==
    ASSUME NEW q \in Seq(Message), NEW m \in Message
    PROVE  HasAuth(Append(q, m)) <=> HasAuth(q) \/ m.type = "auth"
<1>1. ASSUME NEW i \in DOMAIN q
      PROVE  i \in DOMAIN Append(q, m) /\ Append(q, m)[i] = q[i]
    OBVIOUS
<1>2. Len(q) + 1 \in DOMAIN Append(q, m) /\ Append(q, m)[Len(q) + 1] = m
    OBVIOUS
<1>3. ASSUME NEW i \in DOMAIN Append(q, m)
      PROVE  i \in DOMAIN q \/ Append(q, m)[i] = m
    OBVIOUS
<1>4. QED
    BY <1>1, <1>2, <1>3 DEF HasAuth

(* What is behind an application message keeps its auth messages. *)
LEMMA HasAuthTail ==
    ASSUME NEW q \in Seq(Message), q # <<>>, HasAuth(q), Head(q).type # "auth"
    PROVE  HasAuth(Tail(q))
<1>1. PICK i \in DOMAIN q : q[i].type = "auth"
    BY DEF HasAuth
<1>2. i # 1
    BY <1>1
<1>3. i - 1 \in DOMAIN Tail(q) /\ Tail(q)[i - 1] = q[i]
    BY <1>1, <1>2
<1>4. QED
    BY <1>1, <1>3 DEF HasAuth

(* The socket that openSocket creates is a new one. *)
LEMMA NextSockFresh ==
    ASSUME Fresh # {}
    PROVE  NextSock \in Socks /\ sock[NextSock] = "none"
BY DEF Fresh, NextSock

(* What is written to the queues is of their type. *)
LEMMA MessageTypes ==
    /\ \A t \in Tokens : Auth(t) \in Message /\ <<Auth(t)>> \in Seq(Message)
    /\ \A m \in Msgs : App(m) \in Message /\ <<App(m)>> \in Seq(Message)
    /\ \A b \in BOOLEAN : Granted(b) \in Reply
    /\ \A r \in Reqs : Answer(r) \in Reply
<1>1. \A t \in Tokens : Auth(t) \in Message
    BY DEF Auth, Message
<1>2. \A m \in Msgs : App(m) \in Message
    BY DEF App, Message
<1>3. \A x \in Message : <<x>> \in Seq(Message)
    OBVIOUS
<1>4. /\ \A b \in BOOLEAN : Granted(b) \in Reply
      /\ \A r \in Reqs : Answer(r) \in Reply
    BY DEF Granted, Answer, Reply
<1>5. QED
    BY <1>1, <1>2, <1>3, <1>4

LEMMA QueueTypes ==
    ASSUME TypeOK
    PROVE  /\ \A q \in Seq(Message) :
                  [up EXCEPT ![ws] = @ \o q] \in [Socks -> Seq(Message)]
           /\ \A m \in Message : Append(outbox, m) \in Seq(Message)
           /\ \A k \in Socks : up[k] # <<>> =>
                  /\ Tail(up[k]) \in Seq(Message)
                  /\ Head(up[k]) \in Message
           /\ \A k \in Socks : dn[k] # <<>> =>
                  /\ Tail(dn[k]) \in Seq(Reply)
                  /\ Head(dn[k]) \in Reply
           /\ \A k \in Socks : \A r \in Reply : Append(dn[k], r) \in Seq(Reply)
<1> USE DEF TypeOK
<1>1. ASSUME NEW q \in Seq(Message)
      PROVE  [up EXCEPT ![ws] = @ \o q] \in [Socks -> Seq(Message)]
    <2>1. \A k \in Socks : up[k] \o q \in Seq(Message)
        OBVIOUS
    <2>2. QED
        BY <2>1
<1>2. \A m \in Message : Append(outbox, m) \in Seq(Message)
    OBVIOUS
<1>3. ASSUME NEW k \in Socks, up[k] # <<>>
      PROVE  Tail(up[k]) \in Seq(Message) /\ Head(up[k]) \in Message
    BY <1>3
<1>4. ASSUME NEW k \in Socks, dn[k] # <<>>
      PROVE  Tail(dn[k]) \in Seq(Reply) /\ Head(dn[k]) \in Reply
    BY <1>4
<1>5. ASSUME NEW k \in Socks, NEW r \in Reply
      PROVE  Append(dn[k], r) \in Seq(Reply)
    OBVIOUS
<1>6. QED
    BY <1>1, <1>2, <1>3, <1>4, <1>5

(* The three ways to write to the outbox and the socket keep their types. *)
SendTypes == outbox' \in Seq(Message) /\ up' \in [Socks -> Seq(Message)]

LEMMA TransmitType ==
    ASSUME TypeOK, NEW q \in Seq(Message), up' = [up EXCEPT ![ws] = @ \o q]
    PROVE  up' \in [Socks -> Seq(Message)]
BY QueueTypes

LEMMA SendsTyped ==
    ASSUME TypeOK
    PROVE  /\ \A m \in Message : Send(m) => SendTypes
           /\ \A t \in Tokens, open \in BOOLEAN : StartAuth(t, open) => SendTypes
           /\ \A open \in BOOLEAN : FlushOutbox(open) => SendTypes
<1> USE DEF TypeOK, SendTypes
<1>1. ASSUME NEW m \in Message, Send(m)
      PROVE  SendTypes
    <2>1. <<m>> \in Seq(Message)
        OBVIOUS
    <2>2. CASE IsOpen /\ ~awaiting
        BY <1>1, <2>1, <2>2, TransmitType DEF Send, Transmit
    <2>3. CASE ~(IsOpen /\ ~awaiting)
        BY <1>1, <2>3, QueueTypes DEF Send
    <2>4. QED
        BY <2>2, <2>3
<1>2. ASSUME NEW t \in Tokens, NEW open \in BOOLEAN, StartAuth(t, open)
      PROVE  SendTypes
    <2>1. CASE open
        BY <1>2, <2>1, TransmitType, MessageTypes DEF StartAuth, Transmit
    <2>2. CASE ~open
        BY <1>2, <2>2, QueueTypes, MessageTypes DEF StartAuth
    <2>3. QED
        BY <2>1, <2>2
<1>3. ASSUME NEW open \in BOOLEAN, FlushOutbox(open)
      PROVE  SendTypes
    <2>1. outbox' \in Seq(Message)
        BY <1>3 DEF FlushOutbox
    <2>2. up' \in [Socks -> Seq(Message)]
        BY <1>3, TransmitType DEF FlushOutbox, Transmit
    <2>3. QED
        BY <2>1, <2>2
<1>4. QED
    BY <1>1, <1>2, <1>3
-----------------------------------------------------------------------------
(* Every variable keeps its type; in particular no message leaves that is  *)
(* not an auth message with a token or a message of the user interface.    *)
THEOREM TypeCorrect == Spec => []TypeOK
<1> USE ConstantsAssumption
<1>1. Init => TypeOK
    <2> SUFFICES ASSUME Init
                 PROVE  TypeOK
        OBVIOUS
    <2>1. ws \in Socks
        BY DEF Init
    <2>2. /\ outbox \in Seq(Message)
          /\ up \in [Socks -> Seq(Message)]
          /\ dn \in [Socks -> Seq(Reply)]
        <3>1. <<>> \in Seq(Message) /\ <<>> \in Seq(Reply)
            OBVIOUS
        <3>2. QED
            BY ONLY <3>1, Init DEF Init
    <2>3. sock \in [Socks -> {"none", "connecting", "open", "closed"}]
        BY DEF Init
    <2>4. QED
        BY <2>1, <2>2, <2>3 DEF Init, TypeOK
<1>2. TypeOK /\ [Next]_vars => TypeOK'
    <2> SUFFICES ASSUME TypeOK, [Next]_vars
                 PROVE  TypeOK'
        OBVIOUS
    <2> USE MessageTypes, QueueTypes DEF TypeOK, gate, gateway, user
    <2>1. ASSUME NEW k \in Socks, SocketOpens(k)
          PROVE  TypeOK'
        <3> DEFINE open == ws # Null /\ (ws = k \/ sock[ws] = "open")
        <3>1. /\ sock' = [sock EXCEPT ![k] = "open"]
              /\ OnOpen(open)
              /\ shown' = IF FlushThrows(open) THEN shown ELSE "open"
              /\ UNCHANGED <<ws, timer, pending, user, gateway>>
            BY <2>1 DEF SocketOpens
        <3>2. /\ outbox' \in Seq(Message)
              /\ up' \in [Socks -> Seq(Message)]
              /\ awaiting' \in BOOLEAN
            <4>1. CASE token # Null /\ StartAuth(token, open)
                BY <4>1, SendsTyped DEF StartAuth, Transmit, SendTypes
            <4>2. CASE FlushOutbox(open) /\ UNCHANGED awaiting
                BY <4>2, SendsTyped DEF FlushOutbox, Transmit, SendTypes
            <4>3. CASE UNCHANGED gate
                BY <4>3
            <4>4. QED
                BY <3>1, <4>1, <4>2, <4>3 DEF OnOpen
        <3>3. QED
            BY <3>1, <3>2
    <2>2. ASSUME NEW k \in Socks, SocketCloses(k)
          PROVE  TypeOK'
        <3>1. up' \in [Socks -> Seq(Message)] /\ dn' \in [Socks -> Seq(Reply)]
            BY <2>2 DEF SocketCloses
        <3>2. QED
            BY <2>2, <3>1
               DEF SocketCloses, RejectAllPending, ResetGate, ScheduleReconnect
    <2>3. CASE TimerFires
        BY <2>3, NextSockFresh DEF TimerFires, OpenSocket
    <2>4. CASE ReconnectNow
        BY <2>4, NextSockFresh DEF ReconnectNow, OpenSocket
    <2>5. CASE LoginBegins
        BY <2>5 DEF LoginBegins
    <2>6. ASSUME NEW t \in Tokens, LoginSucceeds(t)
          PROVE  TypeOK'
        <3>1. CASE IsOpen /\ ~awaiting
            <4>1. StartAuth(t, TRUE)
                BY <2>6, <3>1 DEF LoginSucceeds, SetAuthToken
            <4>2. SendTypes
                BY <4>1, SendsTyped DEF StartAuth, Transmit, SendTypes
            <4>3. QED
                BY <2>6, <4>1, <4>2
                   DEF LoginSucceeds, SetAuthToken, StartAuth, SendTypes
        <3>2. CASE ~(IsOpen /\ ~awaiting)
            BY <2>6, <3>2 DEF LoginSucceeds, SetAuthToken
        <3>3. QED
            BY <3>1, <3>2
    <2>7. CASE Logout
        BY <2>7 DEF Logout, SetAuthToken
    <2>8. ASSUME NEW m \in Msgs, Issue(m)
          PROVE  TypeOK'
        <3>1. outbox' \in Seq(Message) /\ up' \in [Socks -> Seq(Message)]
            <4>1. Send(App(m)) /\ App(m) \in Message
                BY <2>8 DEF Issue
            <4>2. QED
                BY <4>1, SendsTyped DEF Send, Transmit, SendTypes
        <3>2. QED
            BY <2>8, <3>1 DEF Issue
    <2>9. ASSUME NEW m \in Msgs, RequestTimesOut(m)
          PROVE  TypeOK'
        BY <2>9 DEF RequestTimesOut
    <2>10. ASSUME NEW k \in Socks, ReceiveAnswer(k)
           PROVE  TypeOK'
        BY <2>10 DEF ReceiveAnswer
    <2>11. ASSUME NEW k \in Socks, ReceiveGrant(k)
           PROVE  TypeOK'
        <3>1. outbox' \in Seq(Message) /\ up' \in [Socks -> Seq(Message)]
            <4>1. CASE awaiting
                BY <2>11, <4>1, SendsTyped
                   DEF ReceiveGrant, OpenGate, FlushOutbox, Transmit, SendTypes
            <4>2. CASE ~awaiting
                BY <2>11, <4>2 DEF ReceiveGrant
            <4>3. QED
                BY <4>1, <4>2
        <3>2. dn' \in [Socks -> Seq(Reply)]
            BY <2>11 DEF ReceiveGrant
        <3>3. awaiting' \in BOOLEAN
            BY <2>11 DEF ReceiveGrant, OpenGate
        <3>4. QED
            BY <2>11, <3>1, <3>2, <3>3 DEF ReceiveGrant
    <2>12. ASSUME NEW k \in Socks, ReceiveRefusal(k)
           PROVE  TypeOK'
        BY <2>12 DEF ReceiveRefusal, SetAuthToken
    <2>13. ASSUME NEW k \in Socks, GatewayAuth(k)
           PROVE  TypeOK'
        <3> DEFINE t == Head(up[k]).body
        <3>1. t \in Tokens
            BY <2>13 DEF GatewayAuth, Message
        <3>2. up' \in [Socks -> Seq(Message)]
            BY <2>13 DEF GatewayAuth
        <3>3. dn' \in [Socks -> Seq(Reply)]
            <4>1. Append(dn[k], Granted(t \notin Stale)) \in Seq(Reply)
                BY DEF Granted
            <4>2. QED
                BY <2>13, <4>1 DEF GatewayAuth
        <3>4. acct' \in [Socks -> Tokens \cup {Null}] /\ denied' \in SUBSET Socks
            BY <2>13, <3>1 DEF GatewayAuth
        <3>5. QED
            BY <2>13, <3>2, <3>3, <3>4 DEF GatewayAuth
    <2>14. ASSUME NEW k \in Socks, GatewayServes(k)
           PROVE  TypeOK'
        BY <2>14 DEF GatewayServes
    <2>15. CASE UNCHANGED vars
        BY <2>15 DEF vars
    <2>16. QED
        BY <2>1, <2>2, <2>3, <2>4, <2>5, <2>6, <2>7, <2>8, <2>9, <2>10,
           <2>11, <2>12, <2>13, <2>14, <2>15
           DEF Next, Receive, Gateway
<1>3. QED
    BY <1>1, <1>2, PTL DEF Spec
-----------------------------------------------------------------------------
(* this.ws is a socket that is not closed, the timer is armed only without *)
(* one, and the button is not offered over an open one.                    *)
SocketInv ==
    /\ ws # Null => sock[ws] \in {"connecting", "open"}
    /\ timer => ws = Null
    /\ shown = "reconnecting" => ~IsOpen

LEMMA SocketInductive ==
    ASSUME TypeOK, SocketInv, [Next]_vars
    PROVE  SocketInv'
<1> USE ConstantsAssumption DEF TypeOK, SocketInv, IsOpen, gate, gateway, user
<1>1. ASSUME NEW k \in Socks, SocketOpens(k)
      PROVE  SocketInv'
    BY <1>1 DEF SocketOpens, OnOpen, StartAuth, FlushOutbox, Transmit, FlushThrows, Auth
<1>2. ASSUME NEW k \in Socks, SocketCloses(k)
      PROVE  SocketInv'
    BY <1>2 DEF SocketCloses, RejectAllPending, ResetGate, ScheduleReconnect
<1>3. CASE TimerFires
    BY <1>3, NextSockFresh DEF TimerFires, OpenSocket
<1>4. CASE ReconnectNow
    BY <1>4, NextSockFresh DEF ReconnectNow, OpenSocket
<1>5. CASE LoginBegins
    BY <1>5 DEF LoginBegins
<1>6. ASSUME NEW t \in Tokens, LoginSucceeds(t)
      PROVE  SocketInv'
    BY <1>6 DEF LoginSucceeds, SetAuthToken, StartAuth, Transmit, Auth
<1>7. CASE Logout
    BY <1>7 DEF Logout, SetAuthToken
<1>8. ASSUME NEW m \in Msgs, Issue(m)
      PROVE  SocketInv'
    BY <1>8 DEF Issue, Send, Transmit, App
<1>9. ASSUME NEW m \in Msgs, RequestTimesOut(m)
      PROVE  SocketInv'
    BY <1>9 DEF RequestTimesOut
<1>10. ASSUME NEW k \in Socks, ReceiveAnswer(k)
       PROVE  SocketInv'
    BY <1>10 DEF ReceiveAnswer
<1>11. ASSUME NEW k \in Socks, ReceiveGrant(k)
       PROVE  SocketInv'
    BY <1>11 DEF ReceiveGrant, OpenGate, FlushOutbox, Transmit, Granted
<1>12. ASSUME NEW k \in Socks, ReceiveRefusal(k)
       PROVE  SocketInv'
    BY <1>12 DEF ReceiveRefusal, SetAuthToken, Granted
<1>13. ASSUME NEW k \in Socks, GatewayAuth(k)
       PROVE  SocketInv'
    BY <1>13 DEF GatewayAuth, Granted
<1>14. ASSUME NEW k \in Socks, GatewayServes(k)
       PROVE  SocketInv'
    BY <1>14 DEF GatewayServes, Answer
<1>15. CASE UNCHANGED vars
    BY <1>15 DEF vars
<1>16. QED
    BY <1>1, <1>2, <1>3, <1>4, <1>5, <1>6, <1>7, <1>8, <1>9, <1>10, <1>11,
       <1>12, <1>13, <1>14, <1>15
       DEF Next, Receive, Gateway

(* When send() may transmit directly, the outbox has been flushed. *)
NothingOvertakes == IsOpen /\ ~awaiting => outbox = <<>>

(* While the gate is shut, an auth message waits in the outbox or has been *)
(* sent on the open socket: this is what the grant that opens it needs.    *)
GateInv ==
    /\ awaiting => (HasAuth(outbox) \/ (IsOpen /\ Announced(ws)))
    /\ AuthFirst
    /\ NothingOvertakes

(* Announcing a token on the socket in use, or queueing it, leaves an auth *)
(* message where GateInv wants it.                                         *)
LEMMA StartAuthAnnounces ==
    ASSUME TypeOK, NEW t \in Tokens, NEW open \in BOOLEAN, StartAuth(t, open),
           open => ws \in Socks
    PROVE  IF open THEN HasAuth(up'[ws]) ELSE HasAuth(outbox')
<1> USE MessageTypes DEF TypeOK
<1>1. CASE open
    <2>1. HasAuth(<<Auth(t)>>)
        BY DEF HasAuth, Auth
    <2>2. HasAuth(up[ws] \o <<Auth(t)>>)
        BY <1>1, <2>1, HasAuthConcat
    <2>3. QED
        BY <1>1, <2>2 DEF StartAuth, Transmit
<1>2. CASE ~open
    <2>1. HasAuth(Append(outbox, Auth(t)))
        BY HasAuthAppend DEF Auth
    <2>2. QED
        BY <1>2, <2>1 DEF StartAuth
<1>3. QED
    BY <1>1, <1>2

(* What is transmitted keeps the auth messages already under way. *)
LEMMA TransmitKeeps ==
    ASSUME TypeOK, NEW q \in Seq(Message), ws \in Socks,
           up' = [up EXCEPT ![ws] = @ \o q]
    PROVE  HasAuth(up'[ws]) <=> HasAuth(up[ws]) \/ HasAuth(q)
BY HasAuthConcat DEF TypeOK

LEMMA GateInductive ==
    ASSUME TypeOK, TypeOK', SocketInv, GateInv, [Next]_vars
    PROVE  GateInv'
<1> USE ConstantsAssumption
    DEF TypeOK, SocketInv, GateInv, AuthFirst, NothingOvertakes, IsOpen, Announced,
        gate, gateway, user
<1>1. ASSUME NEW k \in Socks, SocketOpens(k)
      PROVE  GateInv'
    <2> DEFINE open == ws # Null /\ (ws = k \/ sock[ws] = "open")
    <2>1. /\ sock' = [sock EXCEPT ![k] = "open"]
          /\ OnOpen(open)
          /\ UNCHANGED <<ws, token, acct, denied>>
          /\ IsOpen' <=> open
        BY <1>1 DEF SocketOpens
    <2>2. CASE token # Null /\ StartAuth(token, open)
        <3>1. IF open THEN HasAuth(up'[ws]) ELSE HasAuth(outbox')
            BY <2>2, StartAuthAnnounces
        <3>2. awaiting'
            BY <2>2 DEF StartAuth
        <3>3. QED
            BY <2>1, <3>1, <3>2
    <2>3. CASE token = Null /\ ~awaiting /\ FlushOutbox(open) /\ UNCHANGED awaiting
        BY <2>1, <2>3 DEF FlushOutbox
    <2>4. CASE token = Null /\ awaiting /\ UNCHANGED gate
        BY <2>1, <2>4
    <2>5. QED
        BY <2>1, <2>2, <2>3, <2>4 DEF OnOpen
<1>2. ASSUME NEW k \in Socks, SocketCloses(k)
      PROVE  GateInv'
    BY <1>2 DEF SocketCloses, ResetGate
<1>3. CASE TimerFires
    BY <1>3, NextSockFresh DEF TimerFires, OpenSocket
<1>4. CASE ReconnectNow
    BY <1>4, NextSockFresh DEF ReconnectNow, OpenSocket
<1>5. CASE LoginBegins
    BY <1>5 DEF LoginBegins
<1>6. ASSUME NEW t \in Tokens, LoginSucceeds(t)
      PROVE  GateInv'
    <2>1. CASE IsOpen /\ ~awaiting
        <3>1. StartAuth(t, TRUE)
            BY <1>6, <2>1 DEF LoginSucceeds, SetAuthToken
        <3>2. HasAuth(up'[ws])
            BY <2>1, <3>1, StartAuthAnnounces
        <3>3. awaiting'
            BY <3>1 DEF StartAuth
        <3>4. QED
            BY <1>6, <2>1, <3>2, <3>3 DEF LoginSucceeds
    <2>2. CASE ~(IsOpen /\ ~awaiting)
        BY <1>6, <2>2 DEF LoginSucceeds, SetAuthToken
    <2>3. QED
        BY <2>1, <2>2
<1>7. CASE Logout
    BY <1>7 DEF Logout, SetAuthToken
<1>8. ASSUME NEW m \in Msgs, Issue(m)
      PROVE  GateInv'
    <2>1. CASE IsOpen /\ ~awaiting
        <3>1. up' = [up EXCEPT ![ws] = @ \o <<App(m)>>]
            BY <1>8, <2>1 DEF Issue, Send, Transmit
        <3>2. HasAuth(up[ws]) => HasAuth(up'[ws])
            BY <2>1, <3>1, TransmitKeeps, MessageTypes
        <3>3. UNCHANGED <<sock, ws, token, awaiting, outbox, acct, denied>>
            BY <1>8, <2>1 DEF Issue, Send
        <3>4. QED
            BY <2>1, <3>2, <3>3
    <2>2. CASE ~(IsOpen /\ ~awaiting)
        <3>1. outbox' = Append(outbox, App(m)) /\ UNCHANGED up
            BY <1>8, <2>2 DEF Issue, Send
        <3>2. HasAuth(outbox) => HasAuth(outbox')
            BY <3>1, HasAuthAppend, MessageTypes
        <3>3. UNCHANGED <<sock, ws, token, awaiting, acct, denied>>
            BY <1>8 DEF Issue
        <3>4. QED
            BY <2>2, <3>1, <3>2, <3>3
    <2>3. QED
        BY <2>1, <2>2
<1>9. ASSUME NEW m \in Msgs, RequestTimesOut(m)
      PROVE  GateInv'
    BY <1>9 DEF RequestTimesOut
<1>10. ASSUME NEW k \in Socks, ReceiveAnswer(k)
       PROVE  GateInv'
    BY <1>10 DEF ReceiveAnswer
<1>11. ASSUME NEW k \in Socks, ReceiveGrant(k)
       PROVE  GateInv'
    <2>1. UNCHANGED <<sock, ws, token, acct, denied>>
        BY <1>11 DEF ReceiveGrant
    <2>2. CASE awaiting /\ IsOpen
        <3>1. /\ up' = [up EXCEPT ![ws] = @ \o outbox]
              /\ outbox' = <<>>
            BY <1>11, <2>2 DEF ReceiveGrant, OpenGate, FlushOutbox, Transmit
        <3>2. HasAuth(up[ws]) \/ HasAuth(outbox) => HasAuth(up'[ws])
            BY <2>2, <3>1, TransmitKeeps
        <3>3. ~awaiting'
            BY <1>11, <2>2 DEF ReceiveGrant, OpenGate
        <3>4. QED
            BY <2>1, <2>2, <3>1, <3>2, <3>3
    <2>3. CASE awaiting /\ ~IsOpen
        BY <1>11, <2>1, <2>3 DEF ReceiveGrant, OpenGate
    <2>4. CASE ~awaiting
        BY <1>11, <2>1, <2>4 DEF ReceiveGrant
    <2>5. QED
        BY <2>2, <2>3, <2>4
<1>12. ASSUME NEW k \in Socks, ReceiveRefusal(k)
       PROVE  GateInv'
    BY <1>12 DEF ReceiveRefusal, SetAuthToken
<1>13. ASSUME NEW k \in Socks, GatewayAuth(k)
       PROVE  GateInv'
    <2>1. UNCHANGED <<sock, ws, token, awaiting, outbox>>
        BY <1>13 DEF GatewayAuth
    <2>2. \A x \in Socks \ {k} : Announced(x) => Announced(x)'
        BY <1>13 DEF GatewayAuth
    <2>3. Announced(k)'
        <3> DEFINE t == Head(up[k]).body
        <3>1. t \in Tokens
            BY <1>13, QueueTypes DEF GatewayAuth, Message
        <3>2. CASE t \in Stale
            BY <1>13, <3>2 DEF GatewayAuth
        <3>3. CASE t \notin Stale
            BY <1>13, <3>1, <3>3 DEF GatewayAuth
        <3>4. QED
            BY <3>2, <3>3
    <2>4. QED
        BY <2>1, <2>2, <2>3
<1>14. ASSUME NEW k \in Socks, GatewayServes(k)
       PROVE  GateInv'
    <2>1. UNCHANGED <<sock, ws, token, awaiting, outbox, acct, denied>>
        BY <1>14 DEF GatewayServes
    <2>2. HasAuth(up[k]) => HasAuth(Tail(up[k]))
        BY <1>14, HasAuthTail DEF GatewayServes
    <2>3. \A x \in Socks : HasAuth(up[x]) => HasAuth(up'[x])
        BY <1>14, <2>2 DEF GatewayServes
    <2>4. QED
        BY <2>1, <2>3
<1>15. CASE UNCHANGED vars
    BY <1>15 DEF vars
<1>16. QED
    BY <1>1, <1>2, <1>3, <1>4, <1>5, <1>6, <1>7, <1>8, <1>9, <1>10, <1>11,
       <1>12, <1>13, <1>14, <1>15
       DEF Next, Receive, Gateway

(* The inductive invariant of the client. *)
IInv == TypeOK /\ SocketInv /\ GateInv

LEMMA Invariance == Spec => []IInv
<1>1. Init => SocketInv /\ GateInv
    <2> SUFFICES ASSUME Init
                 PROVE  SocketInv /\ GateInv
        OBVIOUS
    <2>1. ws \in Socks /\ sock[ws] = "connecting"
        BY ConstantsAssumption DEF Init
    <2>2. ~timer /\ ~awaiting /\ shown = "idle"
        BY DEF Init
    <2>3. QED
        BY <2>1, <2>2 DEF SocketInv, GateInv, AuthFirst, NothingOvertakes, IsOpen
<1>2. TypeOK /\ TypeOK' /\ SocketInv /\ GateInv /\ [Next]_vars => SocketInv' /\ GateInv'
    BY SocketInductive, GateInductive
<1>3. QED
    BY <1>1, <1>2, TypeCorrect, PTL DEF Spec, IInv

(* A logged-in client whose gate is open has announced a token on that     *)
(* connection, even when the button has left other sockets behind.         *)
THEOREM AuthIsFirst == Spec => []AuthFirst
<1>1. IInv => AuthFirst
    BY DEF IInv, GateInv
<1>2. QED
    BY <1>1, Invariance, PTL
-----------------------------------------------------------------------------
(* Where a message is in a queue. *)
Holds(q, x) == \E i \in DOMAIN q : q[i] = x

(* A queue keeps what it holds when something is put behind it, and so     *)
(* does what is put behind.                                                *)
LEMMA HoldsConcat ==
    ASSUME NEW S, NEW p \in Seq(S), NEW q \in Seq(S), NEW x,
           Holds(p, x) \/ Holds(q, x)
    PROVE  Holds(p \o q, x)
<1>1. CASE Holds(p, x)
    <2>1. PICK i \in DOMAIN p : p[i] = x
        BY <1>1 DEF Holds
    <2>2. i \in DOMAIN (p \o q) /\ (p \o q)[i] = x
        BY <2>1
    <2>3. QED
        BY <2>2 DEF Holds
<1>2. CASE Holds(q, x)
    <2>1. PICK i \in DOMAIN q : q[i] = x
        BY <1>2 DEF Holds
    <2>2. Len(p) + i \in DOMAIN (p \o q) /\ (p \o q)[Len(p) + i] = x
        BY <2>1
    <2>3. QED
        BY ONLY <2>2 DEF Holds
<1>3. QED
    BY <1>1, <1>2

LEMMA HoldsAppend ==
    ASSUME NEW S, NEW q \in Seq(S), NEW y \in S, NEW x, Holds(q, x) \/ y = x
    PROVE  Holds(Append(q, y), x)
<1>1. CASE Holds(q, x)
    <2>1. PICK i \in DOMAIN q : q[i] = x
        BY <1>1 DEF Holds
    <2>2. i \in DOMAIN Append(q, y) /\ Append(q, y)[i] = x
        BY <2>1
    <2>3. QED
        BY <2>2 DEF Holds
<1>2. CASE y = x
    <2>1. Len(q) + 1 \in DOMAIN Append(q, y) /\ Append(q, y)[Len(q) + 1] = x
        BY <1>2
    <2>2. QED
        BY <2>1 DEF Holds
<1>3. QED
    BY <1>1, <1>2

(* Whoever takes the head of a queue leaves the rest of it. *)
LEMMA HoldsTail ==
    ASSUME NEW S, NEW q \in Seq(S), q # <<>>, NEW x, Holds(q, x), Head(q) # x
    PROVE  Holds(Tail(q), x)
<1>1. PICK i \in DOMAIN q : q[i] = x
    BY DEF Holds
<1>2. i # 1
    BY <1>1
<1>3. i - 1 \in DOMAIN Tail(q) /\ Tail(q)[i - 1] = x
    BY <1>1, <1>2
<1>4. QED
    BY <1>3 DEF Holds

(* An answer under way, or a message, is on an open socket. *)
QueuesInv == \A k \in Socks : sock[k] # "open" => up[k] = <<>> /\ dn[k] = <<>>

(* As long as nobody has pressed the button too early, the client has at   *)
(* most one socket that can still open or is open: the one in use.         *)
AloneInv == ~hurried => \A k \in Socks : sock[k] \in {"connecting", "open"} => k = ws

LEMMA QueuesInductive ==
    ASSUME TypeOK, SocketInv, QueuesInv, [Next]_vars
    PROVE  QueuesInv'
<1> USE ConstantsAssumption DEF TypeOK, QueuesInv, IsOpen, gate, gateway, user
<1>1. ASSUME NEW k \in Socks, SocketOpens(k)
      PROVE  QueuesInv'
    <2> DEFINE open == ws # Null /\ (ws = k \/ sock[ws] = "open")
    <2>1. /\ sock' = [sock EXCEPT ![k] = "open"]
          /\ OnOpen(open)
          /\ UNCHANGED dn
          /\ sock[k] = "connecting"
        BY <1>1 DEF SocketOpens
    <2>2. up' = up \/ (open /\ \E q : up' = [up EXCEPT ![ws] = q])
        BY <2>1 DEF OnOpen, StartAuth, FlushOutbox, Transmit
    <2>3. QED
        BY <2>1, <2>2
<1>2. ASSUME NEW k \in Socks, SocketCloses(k)
      PROVE  QueuesInv'
    BY <1>2 DEF SocketCloses
<1>3. CASE TimerFires
    BY <1>3, NextSockFresh DEF TimerFires, OpenSocket
<1>4. CASE ReconnectNow
    BY <1>4, NextSockFresh DEF ReconnectNow, OpenSocket
<1>5. CASE LoginBegins
    BY <1>5 DEF LoginBegins
<1>6. ASSUME NEW t \in Tokens, LoginSucceeds(t)
      PROVE  QueuesInv'
    BY <1>6 DEF LoginSucceeds, SetAuthToken, StartAuth, Transmit, Auth
<1>7. CASE Logout
    BY <1>7 DEF Logout, SetAuthToken
<1>8. ASSUME NEW m \in Msgs, Issue(m)
      PROVE  QueuesInv'
    BY <1>8 DEF Issue, Send, Transmit, App
<1>9. ASSUME NEW m \in Msgs, RequestTimesOut(m)
      PROVE  QueuesInv'
    BY <1>9 DEF RequestTimesOut
<1>10. ASSUME NEW k \in Socks, ReceiveAnswer(k)
       PROVE  QueuesInv'
    BY <1>10 DEF ReceiveAnswer
<1>11. ASSUME NEW k \in Socks, ReceiveGrant(k)
       PROVE  QueuesInv'
    BY <1>11 DEF ReceiveGrant, OpenGate, FlushOutbox, Transmit
<1>12. ASSUME NEW k \in Socks, ReceiveRefusal(k)
       PROVE  QueuesInv'
    BY <1>12 DEF ReceiveRefusal, SetAuthToken
<1>13. ASSUME NEW k \in Socks, GatewayAuth(k)
       PROVE  QueuesInv'
    BY <1>13 DEF GatewayAuth
<1>14. ASSUME NEW k \in Socks, GatewayServes(k)
       PROVE  QueuesInv'
    BY <1>14 DEF GatewayServes
<1>15. CASE UNCHANGED vars
    BY <1>15 DEF vars
<1>16. QED
    BY <1>1, <1>2, <1>3, <1>4, <1>5, <1>6, <1>7, <1>8, <1>9, <1>10, <1>11,
       <1>12, <1>13, <1>14, <1>15
       DEF Next, Receive, Gateway

LEMMA AloneInductive ==
    ASSUME TypeOK, SocketInv, AloneInv, [Next]_vars
    PROVE  AloneInv'
<1> USE ConstantsAssumption DEF TypeOK, SocketInv, AloneInv, gate, gateway, user
<1>1. ASSUME NEW k \in Socks, SocketOpens(k)
      PROVE  AloneInv'
    BY <1>1 DEF SocketOpens
<1>2. ASSUME NEW k \in Socks, SocketCloses(k)
      PROVE  AloneInv'
    BY <1>2 DEF SocketCloses
<1>3. CASE TimerFires
    BY <1>3, NextSockFresh DEF TimerFires, OpenSocket
<1>4. CASE ReconnectNow
    BY <1>4, NextSockFresh DEF ReconnectNow, OpenSocket
<1>5. CASE UNCHANGED <<sock, ws, hurried>>
    BY <1>5
<1>6. QED
    BY <1>1, <1>2, <1>3, <1>4, <1>5
       DEF Next, Receive, Gateway, LoginBegins, LoginSucceeds, Logout, Issue,
           RequestTimesOut, ReceiveAnswer, ReceiveGrant, ReceiveRefusal,
           GatewayAuth, GatewayServes, vars

(* What this.ws transmits is under way on it, behind what was. *)
LEMMA TransmitHolds ==
    ASSUME TypeOK, NEW q \in Seq(Message), ws \in Socks, Transmit(q), NEW x,
           Holds(up[ws], x) \/ Holds(q, x)
    PROVE  Holds(up'[ws], x)
<1>1. up'[ws] = up[ws] \o q /\ up[ws] \in Seq(Message)
    BY DEF Transmit, TypeOK
<1>2. QED
    BY ONLY <1>1, HoldsConcat, q \in Seq(Message), Holds(up[ws], x) \/ Holds(q, x)

(* The invariant in terms of Holds. *)
Waits(m) ==
    \/ Holds(outbox, App(m))
    \/ ws # Null /\ (Holds(up[ws], App(m)) \/ Holds(dn[ws], Answer(m)))

LEMMA AnswerableWaits == \A m : Answerable(m) <=> Waits(m)
BY DEF Answerable, Waits, Holds

(* No request that waits is left without its message or its answer: each   *)
(* action that takes one of them from where it was puts it where it is     *)
(* still found, or takes the request out of pending.                       *)
LEMMA WaitsInductive ==
    ASSUME TypeOK, SocketInv, QueuesInv, AloneInv, ~hurried', [Next]_vars,
           NEW m \in Reqs, m \in pending', m \in pending => Waits(m)
    PROVE  Waits(m)'
<1> USE ConstantsAssumption DEF TypeOK, gate, gateway, user
<1>0. /\ ~hurried
      /\ App(m) \in Message
      /\ \A k \in Socks : sock[k] \in {"connecting", "open"} => k = ws
      /\ \A k \in Socks : dn[k] # <<>> => k = ws /\ IsOpen
      /\ \A k \in Socks : up[k] # <<>> => k = ws
    <2>1. ~hurried
        BY DEF Next, Receive, Gateway, LoginBegins, LoginSucceeds, Logout, Issue,
           RequestTimesOut, ReceiveAnswer, ReceiveGrant, ReceiveRefusal, GatewayAuth,
           GatewayServes, SocketOpens, SocketCloses, TimerFires, ReconnectNow, vars
    <2>2. QED
        BY <2>1, MessageTypes DEF AloneInv, QueuesInv, IsOpen
<1>1. ASSUME NEW k \in Socks, SocketOpens(k)
      PROVE  Waits(m)'
    <2> DEFINE open == ws # Null /\ (ws = k \/ sock[ws] = "open")
    <2>1. open /\ ws \in Socks
        <3>1. sock[k] = "connecting"
            BY <1>1 DEF SocketOpens
        <3>2. k = ws
            BY <1>0, <3>1
        <3>3. QED
            BY <3>2
    <2>2. OnOpen(open) /\ UNCHANGED <<ws, pending, dn>>
        BY <1>1 DEF SocketOpens
    <2>3. Waits(m)
        BY <2>2
    <2>4. CASE token # Null /\ StartAuth(token, open)
        <3>1. Transmit(<<Auth(token)>>) /\ UNCHANGED outbox
            BY <2>1, <2>4 DEF StartAuth
        <3>2. Holds(up[ws], App(m)) => Holds(up'[ws], App(m))
            BY <2>1, <2>4, <3>1, TransmitHolds, MessageTypes
        <3>3. QED
            BY <2>2, <2>3, <3>1, <3>2 DEF Waits
    <2>5. CASE FlushOutbox(open)
        <3>1. Transmit(outbox)
            BY <2>1, <2>5 DEF FlushOutbox
        <3>2. Holds(up[ws], App(m)) \/ Holds(outbox, App(m)) => Holds(up'[ws], App(m))
            BY <2>1, <3>1, TransmitHolds
        <3>3. QED
            BY <2>1, <2>2, <2>3, <3>2 DEF Waits
    <2>6. CASE UNCHANGED gate
        BY <2>2, <2>3, <2>6 DEF Waits
    <2>7. QED
        BY <2>2, <2>4, <2>5, <2>6 DEF OnOpen
<1>2. ASSUME NEW k \in Socks, SocketCloses(k)
      PROVE  Waits(m)'
    BY <1>2 DEF SocketCloses, RejectAllPending
<1>3. CASE TimerFires
    <2>1. UNCHANGED <<outbox, pending>> /\ ws = Null
        BY <1>3 DEF TimerFires, SocketInv
    <2>2. QED
        BY <2>1 DEF Waits
<1>4. CASE ReconnectNow
    <2>1. UNCHANGED <<outbox, pending>> /\ ws = Null
        BY <1>4 DEF ReconnectNow
    <2>2. QED
        BY <2>1 DEF Waits
<1>5. CASE UNCHANGED <<ws, outbox, up, dn, pending>>
    BY <1>5 DEF Waits
<1>6. ASSUME NEW t \in Tokens, LoginSucceeds(t)
      PROVE  Waits(m)'
    <2>1. UNCHANGED <<ws, outbox, dn, pending>>
        BY <1>6 DEF LoginSucceeds, SetAuthToken, StartAuth
    <2>2. CASE UNCHANGED up
        BY <2>1, <2>2 DEF Waits
    <2>3. CASE IsOpen /\ Transmit(<<Auth(t)>>)
        <3>1. ws # Null => (Holds(up[ws], App(m)) => Holds(up'[ws], App(m)))
            BY <2>3, TransmitHolds, MessageTypes
        <3>2. QED
            BY <2>1, <3>1 DEF Waits
    <2>4. QED
        BY <1>6, <2>2, <2>3 DEF LoginSucceeds, SetAuthToken, StartAuth
<1>8. ASSUME NEW r \in Msgs, Issue(r)
      PROVE  Waits(m)'
    <2>1. UNCHANGED <<ws, dn>> /\ Send(App(r)) /\ (m \in pending \/ m = r)
        BY <1>8 DEF Issue
    <2>2. CASE IsOpen /\ Transmit(<<App(r)>>) /\ UNCHANGED outbox
        <3>1. m = r => Holds(<<App(r)>>, App(m))
            BY DEF Holds
        <3>2. Holds(up[ws], App(m)) \/ m = r => Holds(up'[ws], App(m))
            BY <2>2, <3>1, TransmitHolds, MessageTypes DEF IsOpen
        <3>3. QED
            BY <2>1, <2>2, <3>2 DEF Waits, IsOpen
    <2>3. CASE outbox' = Append(outbox, App(r)) /\ UNCHANGED up
        <3>1. Holds(outbox, App(m)) \/ m = r => Holds(outbox', App(m))
            BY <2>3, HoldsAppend, MessageTypes
        <3>2. QED
            BY <2>1, <2>3, <3>1 DEF Waits
    <2>4. QED
        BY <2>1, <2>2, <2>3 DEF Send
<1>9. ASSUME NEW r \in Msgs, RequestTimesOut(r)
      PROVE  Waits(m)'
    BY <1>9 DEF RequestTimesOut, Waits
<1>10. ASSUME NEW k \in Socks, ReceiveAnswer(k)
       PROVE  Waits(m)'
    <2>1. /\ UNCHANGED <<ws, outbox, up>>
          /\ k = ws /\ dn'[k] = Tail(dn[k]) /\ dn[k] # <<>>
          /\ m \in pending /\ m # Head(dn[k]).body
        BY <1>0, <1>10 DEF ReceiveAnswer
    <2>2. Head(dn[k]) # Answer(m)
        BY <2>1 DEF Answer
    <2>3. Holds(dn[k], Answer(m)) => Holds(dn'[k], Answer(m))
        BY <2>1, <2>2, HoldsTail
    <2>4. QED
        BY <2>1, <2>3 DEF Waits
<1>11. ASSUME NEW k \in Socks, ReceiveGrant(k)
       PROVE  Waits(m)'
    <2>1. /\ UNCHANGED <<ws, pending>>
          /\ k = ws /\ dn'[k] = Tail(dn[k]) /\ dn[k] # <<>>
          /\ IsOpen
        BY <1>0, <1>11 DEF ReceiveGrant
    <2>2. Head(dn[k]) # Answer(m)
        BY <1>11 DEF ReceiveGrant, Granted, Answer
    <2>3. Holds(dn[k], Answer(m)) => Holds(dn'[k], Answer(m))
        BY <2>1, <2>2, HoldsTail
    <2>4. CASE awaiting
        <3>1. Transmit(outbox)
            BY <1>11, <2>1, <2>4 DEF ReceiveGrant, OpenGate, FlushOutbox
        <3>2. Holds(up[ws], App(m)) \/ Holds(outbox, App(m)) => Holds(up'[ws], App(m))
            BY <2>1, <3>1, TransmitHolds
        <3>3. QED
            BY <2>1, <2>3, <3>2 DEF Waits
    <2>5. CASE ~awaiting
        BY <1>11, <2>1, <2>3, <2>5 DEF ReceiveGrant, Waits
    <2>6. QED
        BY <2>4, <2>5
<1>12. ASSUME NEW k \in Socks, ReceiveRefusal(k)
       PROVE  Waits(m)'
    <2>1. /\ UNCHANGED <<ws, pending, outbox, up>>
          /\ k = ws /\ dn'[k] = Tail(dn[k]) /\ dn[k] # <<>>
        BY <1>0, <1>12 DEF ReceiveRefusal, SetAuthToken
    <2>2. Head(dn[k]) # Answer(m)
        BY <1>12 DEF ReceiveRefusal, Granted, Answer
    <2>3. Holds(dn[k], Answer(m)) => Holds(dn'[k], Answer(m))
        BY <2>1, <2>2, HoldsTail
    <2>4. QED
        BY <2>1, <2>3 DEF Waits
<1>13. ASSUME NEW k \in Socks, GatewayAuth(k)
       PROVE  Waits(m)'
    <2> DEFINE g == Granted(Head(up[k]).body \notin Stale)
    <2>1. /\ UNCHANGED <<ws, pending, outbox>>
          /\ k = ws /\ up'[k] = Tail(up[k]) /\ up[k] # <<>>
          /\ dn'[k] = Append(dn[k], g)
        <3>1. up[k] # <<>> /\ UNCHANGED <<ws, pending, outbox>>
            BY <1>13 DEF GatewayAuth
        <3>2. up' = [up EXCEPT ![k] = Tail(@)] /\ dn' = [dn EXCEPT ![k] = Append(@, g)]
            BY <1>13 DEF GatewayAuth
        <3>3. k = ws
            BY <1>0, <3>1
        <3>4. QED
            BY <3>1, <3>2, <3>3
    <2>2. Head(up[k]) # App(m) /\ g \in Reply
        <3>1. Head(up[k]) # App(m)
            BY <1>13 DEF GatewayAuth, App
        <3>2. QED
            BY <3>1, MessageTypes
    <2>3. Holds(up[k], App(m)) => Holds(up'[k], App(m))
        BY <2>1, <2>2, HoldsTail
    <2>4. Holds(dn[k], Answer(m)) => Holds(dn'[k], Answer(m))
        BY <2>1, <2>2, HoldsAppend
    <2>5. QED
        BY <2>1, <2>3, <2>4 DEF Waits
<1>14. ASSUME NEW k \in Socks, GatewayServes(k)
       PROVE  Waits(m)'
    <2> DEFINE h == Head(up[k])
    <2>1. /\ UNCHANGED <<ws, pending, outbox>>
          /\ k = ws /\ up'[k] = Tail(up[k]) /\ up[k] # <<>>
          /\ dn'[k] = IF h.body \in Reqs THEN Append(dn[k], Answer(h.body)) ELSE dn[k]
        <3>1. up[k] # <<>> /\ UNCHANGED <<ws, pending, outbox>>
            BY <1>14 DEF GatewayServes
        <3>2. /\ up' = [up EXCEPT ![k] = Tail(@)]
              /\ dn' = [dn EXCEPT ![k] = IF h.body \in Reqs
                                           THEN Append(@, Answer(h.body)) ELSE @]
            BY <1>14 DEF GatewayServes
        <3>3. k = ws
            BY <1>0, <3>1
        <3>4. QED
            BY <3>1, <3>2, <3>3
    <2>2. CASE h = App(m)
        <3>1. dn'[k] = Append(dn[k], Answer(m))
            BY <2>1, <2>2 DEF App
        <3>2. Holds(dn'[k], Answer(m))
            BY <3>1, HoldsAppend, MessageTypes
        <3>3. QED
            BY <2>1, <3>2 DEF Waits
    <2>3. CASE h # App(m)
        <3>1. Holds(up[k], App(m)) => Holds(up'[k], App(m))
            BY <2>1, <2>3, HoldsTail
        <3>2. Holds(dn[k], Answer(m)) => Holds(dn'[k], Answer(m))
            BY <2>1, HoldsAppend, MessageTypes
        <3>3. QED
            BY <2>1, <3>1, <3>2 DEF Waits
    <2>4. QED
        BY <2>2, <2>3
<1>15. QED
    BY <1>1, <1>2, <1>3, <1>4, <1>5, <1>6, <1>8, <1>9, <1>10, <1>11,
       <1>12, <1>13, <1>14
       DEF Next, Receive, Gateway, LoginBegins, Logout, SetAuthToken, vars

LEMMA QueuesInvariance == Spec => [](QueuesInv /\ AloneInv)
<1>1. Init => QueuesInv /\ AloneInv
    BY ConstantsAssumption DEF Init, QueuesInv, AloneInv
<1>2. IInv /\ QueuesInv /\ AloneInv /\ [Next]_vars => QueuesInv' /\ AloneInv'
    BY QueuesInductive, AloneInductive DEF IInv
<1>3. QED
    BY <1>1, <1>2, Invariance, PTL DEF Spec

(* No request is left to its timeout by the client's own doing: while it   *)
(* waits, its message or its answer is in the outbox or under way on the   *)
(* socket in use, unless the button has left a second socket behind.       *)
THEOREM RequestsStayAnswerable == Spec => []PendingIsAnswerable
<1>1. Init => PendingIsAnswerable
    BY DEF Init, PendingIsAnswerable
<1>2. IInv /\ IInv' /\ QueuesInv /\ AloneInv /\ PendingIsAnswerable /\ [Next]_vars
        => PendingIsAnswerable'
    <2> SUFFICES ASSUME IInv, IInv', QueuesInv, AloneInv, PendingIsAnswerable,
                        [Next]_vars, ~hurried', NEW m \in pending'
                 PROVE  Answerable(m)'
        BY DEF PendingIsAnswerable
    <2>1. m \in Reqs
        BY DEF IInv, TypeOK
    <2>2. ~hurried
        BY DEF Next, Receive, Gateway, LoginBegins, LoginSucceeds, Logout, Issue,
           RequestTimesOut, ReceiveAnswer, ReceiveGrant, ReceiveRefusal, GatewayAuth,
           GatewayServes, SocketOpens, SocketCloses, TimerFires, ReconnectNow,
           user, vars
    <2>3. m \in pending => Waits(m)
        BY <2>2, AnswerableWaits DEF PendingIsAnswerable
    <2>4. Waits(m)'
        BY <2>1, <2>3, WaitsInductive DEF IInv
    <2>5. Answerable(m)' <=> Waits(m)'
        BY DEF Answerable, Waits, Holds
    <2>6. QED
        BY <2>4, <2>5
<1>3. QED
    BY <1>1, <1>2, Invariance, QueuesInvariance, PTL DEF Spec
-----------------------------------------------------------------------------
(* The messages of a concatenation are those of its parts, and what is in  *)
(* the first part is in front of what is in the second.                    *)
LEMMA OfConcat ==
    ASSUME NEW p \in Seq(Message), NEW q \in Seq(Message)
    PROVE  /\ Of(p \o q) = Of(p) \cup Of(q)
           /\ InFront(p \o q) = InFront(p) \cup InFront(q) \cup (Of(p) \X Of(q))
<1> DEFINE pq == p \o q
<1>1. \A i \in DOMAIN p : i \in DOMAIN pq /\ pq[i] = p[i]
    OBVIOUS
<1>2. \A i \in DOMAIN q : Len(p) + i \in DOMAIN pq /\ pq[Len(p) + i] = q[i]
    OBVIOUS
<1>3. \A i \in DOMAIN pq :
          \/ i \in DOMAIN p /\ pq[i] = p[i]
          \/ i > Len(p) /\ i - Len(p) \in DOMAIN q /\ pq[i] = q[i - Len(p)]
    OBVIOUS
<1>4. /\ DOMAIN p = 1..Len(p) /\ DOMAIN q = 1..Len(q) /\ DOMAIN pq \subseteq Nat
      /\ Len(p) \in Nat /\ Len(q) \in Nat
    OBVIOUS
<1> HIDE DEF pq
<1>5. Of(pq) = Of(p) \cup Of(q)
    BY <1>1, <1>2, <1>3 DEF Of
<1>6. ASSUME NEW m \in Msgs, NEW n \in Msgs, <<m, n>> \in InFront(pq)
      PROVE  <<m, n>> \in InFront(p) \cup InFront(q) \cup (Of(p) \X Of(q))
    <2>1. PICK i, j \in DOMAIN pq : i < j /\ pq[i] = App(m) /\ pq[j] = App(n)
        BY <1>6 DEF InFront
    <2>2. CASE i \in DOMAIN p /\ j \in DOMAIN p
        BY <1>1, <2>1, <2>2 DEF InFront
    <2>3. CASE i \in DOMAIN p /\ j \notin DOMAIN p
        <3>1. p[i] = App(m) /\ j - Len(p) \in DOMAIN q /\ q[j - Len(p)] = App(n)
            BY <1>1, <1>3, <2>1, <2>3
        <3>2. m \in Of(p) /\ n \in Of(q)
            BY <2>3, <3>1 DEF Of
        <3>3. QED
            BY <3>2
    <2>4. CASE i \notin DOMAIN p
        <3>1. j \notin DOMAIN p
            BY <1>3, <1>4, <2>1, <2>4
        <3>2. /\ i - Len(p) \in DOMAIN q /\ q[i - Len(p)] = App(m)
              /\ j - Len(p) \in DOMAIN q /\ q[j - Len(p)] = App(n)
              /\ i - Len(p) < j - Len(p)
            BY <1>3, <1>4, <2>1, <2>4, <3>1
        <3>3. QED
            BY <3>2 DEF InFront
    <2>5. QED
        BY <2>2, <2>3, <2>4
<1>7. ASSUME NEW m \in Msgs, NEW n \in Msgs, <<m, n>> \in InFront(p)
      PROVE  <<m, n>> \in InFront(pq)
    BY <1>1, <1>7 DEF InFront
<1>8. ASSUME NEW m \in Msgs, NEW n \in Msgs, <<m, n>> \in InFront(q)
      PROVE  <<m, n>> \in InFront(pq)
    <2>1. PICK i, j \in DOMAIN q : i < j /\ q[i] = App(m) /\ q[j] = App(n)
        BY <1>8 DEF InFront
    <2>2. Len(p) + i < Len(p) + j
        BY <1>4, <2>1
    <2>3. QED
        BY <1>2, <2>1, <2>2 DEF InFront
<1>9. ASSUME NEW m \in Of(p), NEW n \in Of(q)
      PROVE  <<m, n>> \in InFront(pq)
    <2>1. PICK i \in DOMAIN p : p[i] = App(m)
        BY DEF Of
    <2>2. PICK j \in DOMAIN q : q[j] = App(n)
        BY DEF Of
    <2>3. i < Len(p) + j
        BY <1>4
    <2>4. m \in Msgs /\ n \in Msgs
        BY DEF Of
    <2>5. QED
        BY <1>1, <1>2, <2>1, <2>2, <2>3, <2>4 DEF InFront
<1>10. /\ InFront(pq) \subseteq Msgs \X Msgs
       /\ InFront(p) \subseteq Msgs \X Msgs
       /\ InFront(q) \subseteq Msgs \X Msgs
       /\ Of(p) \X Of(q) \subseteq Msgs \X Msgs
    BY DEF InFront, Of
<1>11. InFront(pq) = InFront(p) \cup InFront(q) \cup (Of(p) \X Of(q))
    BY <1>6, <1>7, <1>8, <1>9, <1>10
<1>12. QED
    BY <1>5, <1>11 DEF pq

LEMMA OfSingle ==
    /\ Of(<<>>) = {} /\ InFront(<<>>) = {}
    /\ \A t \in Tokens : Of(<<Auth(t)>>) = {} /\ InFront(<<Auth(t)>>) = {}
    /\ \A m \in Msgs : Of(<<App(m)>>) = {m} /\ InFront(<<App(m)>>) = {}
<1>1. Of(<<>>) = {} /\ InFront(<<>>) = {}
    BY DEF Of, InFront
<1>2. ASSUME NEW x
      PROVE  DOMAIN <<x>> = {1} /\ <<x>>[1] = x /\ InFront(<<x>>) = {}
    BY DEF InFront
<1>3. ASSUME NEW t \in Tokens
      PROVE  Of(<<Auth(t)>>) = {}
    BY DEF Of, Auth, App
<1>4. ASSUME NEW m \in Msgs
      PROVE  Of(<<App(m)>>) = {m}
    BY DEF Of, App
<1>5. QED
    BY <1>1, <1>2, <1>3, <1>4

(* In a line where no message is ahead of itself, every message has one    *)
(* place; then a step that cuts off the front of the line is a Leave.      *)
Places(q) == \A m \in Msgs : <<m, m>> \notin InFront(q)

LEMMA FrontLeaves ==
    ASSUME NEW p \in Seq(Message), NEW q \in Seq(Message), Places(p \o q),
           Line = p \o q, Line' = q, issued' = issued
    PROVE  Order!Next /\ Places(q)
<1> DEFINE line == Of(p \o q)
           ahead == InFront(p \o q)
<1>1. /\ line = Of(p) \cup Of(q)
      /\ ahead = InFront(p) \cup InFront(q) \cup (Of(p) \X Of(q))
    BY OfConcat
<1>2. /\ InFront(p) \subseteq Of(p) \X Of(p)
      /\ InFront(q) \subseteq Of(q) \X Of(q)
      /\ Of(p) \subseteq Msgs
    BY DEF InFront, Of
<1> HIDE DEF line, ahead
<1>3. Of(p) \cap Of(q) = {}
    <2>1. ahead = InFront(p \o q)
        BY DEF ahead
    <2>2. QED
        BY <1>1, <1>2, <2>1 DEF Places
<1>4. /\ \A r \in ahead : r[2] \in Of(p) => r[1] \in Of(p)
      /\ Of(q) = line \ Of(p)
      /\ InFront(q) = ahead \cap (Of(q) \X Of(q))
    <2>1. \A r \in ahead : r[2] \in Of(p) => r[1] \in Of(p)
        BY <1>1, <1>2, <1>3
    <2>2. Of(q) = line \ Of(p)
        BY <1>1, <1>3
    <2>3. InFront(q) = ahead \cap (Of(q) \X Of(q))
        BY <1>1, <1>2, <1>3
    <2>4. QED
        BY <2>1, <2>2, <2>3
<1>5. /\ Of(Line)' = Of(q) /\ InFront(Line)' = InFront(q)
      /\ Of(Line) = line /\ InFront(Line) = ahead
    BY DEF line, ahead, Of, InFront
<1>6. Order!Leave(Of(p))
    BY <1>4, <1>5 DEF Order!Leave
<1>7. Of(p) \in SUBSET Of(Line)
    BY <1>1, <1>5
<1>8. Places(q)
    BY <1>1 DEF Places, ahead
<1>9. QED
    BY <1>6, <1>7, <1>8 DEF Order!Next

(* No message is twice in the line, and only what was handed to send() is. *)
OnceInv == Places(Line) /\ Of(Line) \subseteq issued

(* What a step of the client owes the abstract specification. *)
OrderKept == [Order!Next]_(Order!vars) /\ OnceInv'

(* The line stays as it is, up to auth messages. *)
LEMMA LineStays ==
    ASSUME OnceInv, issued' = issued,
           Of(Line') = Of(Line), InFront(Line') = InFront(Line)
    PROVE  OrderKept
<1>1. /\ Of(Line)' = Of(Line') /\ InFront(Line)' = InFront(Line')
      /\ Places(Line)' <=> Places(Line')
    BY DEF Of, InFront, Places
<1>2. UNCHANGED Order!vars
    BY <1>1 DEF Order!vars
<1>3. OnceInv'
    BY <1>1 DEF OnceInv, Places
<1>4. QED
    BY <1>2, <1>3 DEF OrderKept

LEMMA AuthJoins ==
    ASSUME OnceInv, issued' = issued, NEW t \in Tokens,
           NEW p \in Seq(Message), NEW q \in Seq(Message),
           Line = p \o q, Line' = (p \o <<Auth(t)>>) \o q
    PROVE  OrderKept
<1> DEFINE pa == p \o <<Auth(t)>>
<1>1. <<Auth(t)>> \in Seq(Message) /\ pa \in Seq(Message)
    BY MessageTypes
<1>2. Of(pa) = Of(p) /\ InFront(pa) = InFront(p)
    <2>1. /\ Of(pa) = Of(p) \cup Of(<<Auth(t)>>)
          /\ InFront(pa) = InFront(p) \cup InFront(<<Auth(t)>>)
                              \cup (Of(p) \X Of(<<Auth(t)>>))
        BY ONLY <1>1, OfConcat, p \in Seq(Message)
    <2>2. Of(<<Auth(t)>>) = {} /\ InFront(<<Auth(t)>>) = {}
        BY OfSingle
    <2>3. QED
        BY ONLY <2>1, <2>2
<1> HIDE DEF pa
<1>3. Of(pa \o q) = Of(p \o q) /\ InFront(pa \o q) = InFront(p \o q)
    <2>1. /\ Of(pa \o q) = Of(pa) \cup Of(q)
          /\ InFront(pa \o q) = InFront(pa) \cup InFront(q) \cup (Of(pa) \X Of(q))
        BY ONLY <1>1, OfConcat, q \in Seq(Message)
    <2>2. /\ Of(p \o q) = Of(p) \cup Of(q)
          /\ InFront(p \o q) = InFront(p) \cup InFront(q) \cup (Of(p) \X Of(q))
        BY OfConcat
    <2>3. QED
        BY ONLY <1>2, <2>1, <2>2
<1>4. Line' = pa \o q
    BY DEF pa
<1>5. QED
    BY <1>3, <1>4, LineStays

LEMMA FrontGoes ==
    ASSUME OnceInv, issued' = issued,
           NEW p \in Seq(Message), NEW q \in Seq(Message),
           Line = p \o q, Line' = q
    PROVE  OrderKept
<1>1. Order!Next /\ Places(q)
    BY FrontLeaves DEF OnceInv
<1>2. Of(q) \subseteq issued
    BY OfConcat DEF OnceInv
<1>3. (Of(Line)' = Of(q)) /\ (Places(Line)' <=> Places(q))
    BY DEF Of, Places, InFront
<1>4. QED
    BY <1>1, <1>2, <1>3 DEF OnceInv, OrderKept

LEMMA MessageEnters ==
    ASSUME OnceInv, NEW m \in Msgs, m \notin issued, issued' = issued \cup {m},
           Line \in Seq(Message), Line' = Line \o <<App(m)>>
    PROVE  OrderKept
<1>1. <<App(m)>> \in Seq(Message)
    BY MessageTypes
<1>2. /\ Of(Line') = Of(Line) \cup {m}
      /\ InFront(Line') = InFront(Line) \cup (Of(Line) \X {m})
    <2> DEFINE q == <<App(m)>>
    <2>1. /\ Of(Line \o q) = Of(Line) \cup Of(q)
          /\ InFront(Line \o q) = InFront(Line) \cup InFront(q) \cup (Of(Line) \X Of(q))
        BY ONLY <1>1, OfConcat, Line \in Seq(Message)
    <2>2. Of(q) = {m} /\ InFront(q) = {}
        BY OfSingle
    <2>3. Line' = Line \o q
        OBVIOUS
    <2> HIDE DEF q
    <2>4. QED
        BY <2>1, <2>2, <2>3
<1>3. /\ Of(Line)' = Of(Line') /\ InFront(Line)' = InFront(Line')
      /\ Places(Line)' <=> Places(Line')
    BY DEF Of, InFront, Places
<1>4. Order!Enter(m)
    BY <1>2, <1>3 DEF Order!Enter
<1>5. Order!Next
    BY <1>4 DEF Order!Next
<1>6. m \notin Of(Line)
    BY DEF OnceInv
<1>7. Places(Line') /\ Of(Line') \subseteq issued'
    BY <1>2, <1>6 DEF OnceInv, Places
<1>8. QED
    BY <1>3, <1>5, <1>7 DEF OnceInv, OrderKept

LEMMA WireFacts ==
    ASSUME TypeOK, QueuesInv
    PROVE  /\ Wire \in Seq(Message) /\ outbox \in Seq(Message)
           /\ Line = Wire \o outbox /\ Line \in Seq(Message)
           /\ ~IsOpen => Wire = <<>> /\ Line = outbox
           /\ ws # Null => ws \in Socks /\ Wire = up[ws]
<1>1. ws # Null => ws \in Socks /\ Wire = up[ws]
    BY DEF TypeOK, Wire
<1>2. Wire \in Seq(Message) /\ outbox \in Seq(Message)
    BY DEF TypeOK, Wire
<1>3. Line = Wire \o outbox
    BY DEF Line, Wire
<1>4. ~IsOpen => Wire = <<>>
    BY <1>1 DEF IsOpen, QueuesInv, Wire
<1>5. \A p, q \in Seq(Message) : p \o q \in Seq(Message) /\ <<>> \o q = q
    OBVIOUS
<1>6. QED
    BY <1>1, <1>2, <1>3, <1>4, <1>5

(* A step that leaves the queues of the client alone keeps the line.       *)
LEMMA QueuesStay ==
    ASSUME OnceInv, UNCHANGED <<ws, outbox, issued>>, ws # Null => up'[ws] = up[ws]
    PROVE  OrderKept
<1>1. Line' = Line
    BY DEF Line, Wire
<1>2. QED
    BY <1>1, LineStays

(* What was under way on the socket in use is lost or left behind.         *)
LEMMA WireGoes ==
    ASSUME TypeOK, QueuesInv, OnceInv, UNCHANGED <<outbox, issued>>,
           ws' # Null => up'[ws'] = <<>>
    PROVE  OrderKept
<1>1. Wire \in Seq(Message) /\ outbox \in Seq(Message) /\ Line = Wire \o outbox
    BY WireFacts
<1>2. Line' = <<>> \o outbox
    BY DEF Line, Wire
<1>3. Line' = outbox
    BY <1>1, <1>2
<1>4. QED
    BY <1>1, <1>3, FrontGoes

LEMMA FlushKeepsOrder ==
    ASSUME TypeOK, QueuesInv, OnceInv, UNCHANGED <<ws, issued>>,
           NEW open \in BOOLEAN, FlushOutbox(open),
           open => ws # Null, ~open => ~IsOpen
    PROVE  OrderKept
<1>1. CASE open
    <2>1. ws \in Socks /\ Wire = up[ws] /\ Wire \in Seq(Message) /\ outbox \in Seq(Message)
        BY <1>1, WireFacts
    <2>2. up'[ws] = Wire \o outbox /\ outbox' = <<>>
        BY <1>1, <2>1 DEF FlushOutbox, Transmit, TypeOK
    <2>3. Line' = (Wire \o outbox) \o <<>>
        BY <1>1, <2>2 DEF Line, Wire
    <2>4. Line' = Wire \o outbox
        BY <2>1, <2>3
    <2>5. QED
        BY <2>4, WireFacts, LineStays
<1>2. CASE ~open
    <2>1. Line = outbox /\ outbox \in Seq(Message) /\ Wire = <<>>
        BY <1>2, WireFacts
    <2>2. Line' = Wire \o <<>>
        BY <1>2 DEF FlushOutbox, Line, Wire
    <2>3. Line' = <<>> /\ Line = outbox \o <<>> /\ <<>> \in Seq(Message)
        BY <2>1, <2>2
    <2>4. QED
        BY <2>1, <2>3, FrontGoes
<1>3. QED
    BY <1>1, <1>2

LEMMA StartAuthKeepsOrder ==
    ASSUME TypeOK, QueuesInv, OnceInv, UNCHANGED <<ws, issued>>,
           NEW t \in Tokens, NEW open \in BOOLEAN, StartAuth(t, open), open => ws # Null
    PROVE  OrderKept
<1>1. Wire \in Seq(Message) /\ outbox \in Seq(Message) /\ Line = Wire \o outbox
    BY WireFacts
<1>2. CASE open
    <2>1. ws \in Socks /\ Wire = up[ws]
        BY <1>2, WireFacts
    <2>2. up'[ws] = Wire \o <<Auth(t)>> /\ outbox' = outbox
        BY <1>2, <2>1 DEF StartAuth, Transmit, TypeOK
    <2>3. Line' = (Wire \o <<Auth(t)>>) \o outbox
        BY <1>2, <2>2 DEF Line, Wire
    <2>4. QED
        BY <1>1, <2>3, AuthJoins
<1>3. CASE ~open
    <2>1. Line' = Wire \o Append(outbox, Auth(t))
        BY <1>3 DEF StartAuth, Line, Wire
    <2>2. Auth(t) \in Message
        BY MessageTypes
    <2>3. Wire \o Append(outbox, Auth(t)) = ((Wire \o outbox) \o <<Auth(t)>>) \o <<>>
        BY <1>1, <2>2
    <2>4. /\ Line \in Seq(Message) /\ <<>> \in Seq(Message)
          /\ Line = Line \o <<>> /\ Line' = (Line \o <<Auth(t)>>) \o <<>>
        BY <1>1, <2>1, <2>3
    <2>5. QED
        BY <2>4, AuthJoins
<1>4. QED
    BY <1>2, <1>3

LEMMA SetTokenKeepsOrder ==
    ASSUME TypeOK, QueuesInv, OnceInv, UNCHANGED <<ws, issued>>,
           NEW t \in Tokens \cup {Null}, SetAuthToken(t)
    PROVE  OrderKept
<1>1. CASE t # Null /\ IsOpen /\ ~awaiting
    BY <1>1, StartAuthKeepsOrder DEF SetAuthToken, IsOpen
<1>2. CASE ~(t # Null /\ IsOpen /\ ~awaiting)
    BY <1>2, QueuesStay DEF SetAuthToken, gate
<1>3. QED
    BY <1>1, <1>2

LEMMA OrderStep ==
    ASSUME TypeOK, GateInv, QueuesInv, OnceInv, [Next]_vars
    PROVE  OrderKept
<1> USE DEF gate, gateway, user
<1>1. ASSUME NEW k \in Socks, SocketOpens(k)
      PROVE  OrderKept
    <2> DEFINE open == ws # Null /\ (ws = k \/ sock[ws] = "open")
    <2>1. /\ UNCHANGED <<ws, issued>> /\ open \in BOOLEAN
          /\ open => ws # Null
          /\ ~open => ~IsOpen
        BY <1>1 DEF SocketOpens, IsOpen
    <2>2. OnOpen(open)
        BY <1>1 DEF SocketOpens
    <2> HIDE DEF open
    <2>3. CASE token # Null /\ StartAuth(token, open)
        <3>1. token \in Tokens
            BY <2>3 DEF TypeOK
        <3>2. QED
            BY <2>1, <2>3, <3>1, StartAuthKeepsOrder
    <2>4. CASE FlushOutbox(open)
        BY <2>1, <2>4, FlushKeepsOrder
    <2>5. CASE UNCHANGED gate
        BY <2>1, <2>5, QueuesStay
    <2>6. QED
        BY <2>2, <2>3, <2>4, <2>5 DEF OnOpen
<1>2. ASSUME NEW k \in Socks, SocketCloses(k)
      PROVE  OrderKept
    BY <1>2, WireGoes DEF SocketCloses
<1>3. CASE OpenSocket /\ UNCHANGED <<outbox, up, issued>>
    <2>1. NextSock \in Socks /\ sock[NextSock] = "none" /\ ws' = NextSock
        BY <1>3, NextSockFresh DEF OpenSocket
    <2>2. up'[ws'] = <<>>
        BY <1>3, <2>1 DEF QueuesInv
    <2>3. QED
        BY <1>3, <2>2, WireGoes
<1>4. CASE TimerFires
    BY <1>3, <1>4 DEF TimerFires
<1>5. CASE ReconnectNow
    BY <1>3, <1>5 DEF ReconnectNow
<1>6. CASE LoginBegins
    BY <1>6, QueuesStay DEF LoginBegins
<1>7. ASSUME NEW t \in Tokens, LoginSucceeds(t)
      PROVE  OrderKept
    BY <1>7, SetTokenKeepsOrder DEF LoginSucceeds
<1>8. CASE Logout
    BY <1>8, SetTokenKeepsOrder DEF Logout
<1>9. ASSUME NEW m \in Msgs, Issue(m)
      PROVE  OrderKept
    <2>1. /\ m \notin issued /\ issued' = issued \cup {m}
          /\ Send(App(m)) /\ ws' = ws
        BY <1>9 DEF Issue
    <2>2. Wire \in Seq(Message) /\ outbox \in Seq(Message) /\ Line = Wire \o outbox
          /\ Line \in Seq(Message)
        BY WireFacts
    <2>3. App(m) \in Message
        BY MessageTypes
    <2>4. CASE IsOpen /\ ~awaiting
        <3>1. outbox = <<>> /\ ws \in Socks /\ ws # Null /\ Wire = up[ws]
            BY <2>4, WireFacts DEF GateInv, NothingOvertakes, IsOpen
        <3>2. up'[ws] = Wire \o <<App(m)>> /\ outbox' = <<>>
            BY <2>1, <2>4, <3>1 DEF Send, Transmit, TypeOK
        <3>3. Line' = (Wire \o <<App(m)>>) \o <<>>
            BY <2>1, <3>1, <3>2 DEF Line, Wire
        <3>4. Line' = Line \o <<App(m)>>
            BY <2>2, <2>3, <3>1, <3>3
        <3>5. QED
            BY <2>1, <2>2, <3>4, MessageEnters
    <2>5. CASE ~(IsOpen /\ ~awaiting)
        <3>1. Line' = Wire \o Append(outbox, App(m))
            BY <2>1, <2>5 DEF Send, Line, Wire
        <3>2. Line' = Line \o <<App(m)>>
            BY <2>2, <2>3, <3>1
        <3>3. QED
            BY <2>1, <2>2, <3>2, MessageEnters
    <2>6. QED
        BY <2>4, <2>5
<1>10. ASSUME NEW m \in Msgs, RequestTimesOut(m)
       PROVE  OrderKept
    BY <1>10, QueuesStay DEF RequestTimesOut
<1>11. ASSUME NEW k \in Socks, ReceiveAnswer(k)
       PROVE  OrderKept
    BY <1>11, QueuesStay DEF ReceiveAnswer
<1>12. ASSUME NEW k \in Socks, ReceiveGrant(k)
       PROVE  OrderKept
    <2>1. UNCHANGED <<ws, issued>> /\ IsOpen \in BOOLEAN /\ (IsOpen => ws # Null)
        BY <1>12 DEF ReceiveGrant, IsOpen
    <2>2. CASE awaiting
        <3>1. FlushOutbox(IsOpen)
            BY <1>12, <2>2 DEF ReceiveGrant, OpenGate
        <3>2. QED
            BY <2>1, <3>1, FlushKeepsOrder
    <2>3. CASE ~awaiting
        BY <1>12, <2>1, <2>3, QueuesStay DEF ReceiveGrant
    <2>4. QED
        BY <2>2, <2>3
<1>13. ASSUME NEW k \in Socks, ReceiveRefusal(k)
       PROVE  OrderKept
    BY <1>13, SetTokenKeepsOrder DEF ReceiveRefusal
<1>14. ASSUME NEW k \in Socks, NEW x \in Message,
              up[k] # <<>>, x = Head(up[k]), up' = [up EXCEPT ![k] = Tail(@)],
              UNCHANGED <<ws, outbox, issued>>
       PROVE  OrderKept
    <2>1. CASE ws # k
        BY <1>14, <2>1, QueuesStay DEF TypeOK
    <2>2. CASE ws = k /\ ws # Null
        <3> DEFINE rest == Tail(Wire) \o outbox
        <3>1. Wire = up[k] /\ Wire \in Seq(Message) /\ outbox \in Seq(Message)
            BY <2>2, WireFacts
        <3>2. <<x>> \in Seq(Message) /\ rest \in Seq(Message)
            BY <1>14, <3>1
        <3>3. Line = <<x>> \o rest
            <4>1. x = Head(Wire) /\ Wire # <<>> /\ Line = Wire \o outbox
                BY <1>14, <3>1, WireFacts
            <4>2. \A w, q \in Seq(Message) : w # <<>> =>
                      w \o q = <<Head(w)>> \o (Tail(w) \o q)
                OBVIOUS
            <4>3. QED
                BY <3>1, <4>1, <4>2
        <3>4. up'[ws] = Tail(Wire)
            BY <1>14, <2>2, <3>1 DEF TypeOK
        <3>5. Line' = rest
            BY <1>14, <2>2, <3>4 DEF Line, Wire
        <3> HIDE DEF rest
        <3>6. QED
            BY <1>14, <3>2, <3>3, <3>5, FrontGoes
    <2>3. QED
        BY <2>1, <2>2, ConstantsAssumption
<1>15. ASSUME NEW k \in Socks, Gateway(k)
       PROVE  OrderKept
    <2>1. /\ up[k] # <<>> /\ up' = [up EXCEPT ![k] = Tail(@)]
          /\ UNCHANGED <<ws, outbox, issued>>
        BY <1>15 DEF Gateway, GatewayAuth, GatewayServes
    <2>2. Head(up[k]) \in Message
        BY <2>1, QueueTypes
    <2>3. QED
        BY <1>14, <2>1, <2>2
<1>16. CASE UNCHANGED vars
    BY <1>16, QueuesStay DEF vars
<1>17. QED
    BY <1>1, <1>2, <1>4, <1>5, <1>6, <1>7, <1>8, <1>9, <1>10, <1>11, <1>12,
       <1>13, <1>15, <1>16 DEF Next, Receive

(* Messages keep the order of their send(), and none is sent again: the    *)
(* client implements the abstract line, at every step, also when the       *)
(* button has left a socket behind.                                        *)
THEOREM OrderIsKept == Spec => KeepsOrder
<1>1. Init => Order!Init /\ OnceInv
    <2> SUFFICES ASSUME Init
                 PROVE  Order!Init /\ OnceInv
        OBVIOUS
    <2>1. Line = <<>>
        <3>1. ws \in Socks /\ outbox = <<>> /\ up[ws] = <<>>
            BY ConstantsAssumption DEF Init
        <3>2. Line = <<>> \o <<>>
            BY <3>1 DEF Line, Wire
        <3>3. QED
            BY <3>2
    <2>2. Of(Line) = {} /\ InFront(Line) = {}
        BY <2>1, OfSingle
    <2>3. QED
        BY <2>2 DEF Init, Order!Init, OnceInv, Places
<1>2. IInv /\ QueuesInv /\ OnceInv /\ [Next]_vars
        => [Order!Next]_(Order!vars) /\ OnceInv'
    BY OrderStep DEF IInv, OrderKept
<1>3. QED
    BY <1>1, <1>2, Invariance, QueuesInvariance, PTL DEF Spec, KeepsOrder, Order!Spec
-----------------------------------------------------------------------------
(* The gate is shut only on an open socket, until the button leaves one    *)
(* behind.                                                                 *)
QuietInv == ~hurried /\ ~IsOpen => ~awaiting

LEMMA HurryStays ==
    ASSUME [Next]_vars, ~hurried'
    PROVE  ~hurried
BY DEF Next, Receive, Gateway, LoginBegins, LoginSucceeds, Logout, Issue,
   RequestTimesOut, ReceiveAnswer, ReceiveGrant, ReceiveRefusal, GatewayAuth,
   GatewayServes, SocketOpens, SocketCloses, TimerFires, ReconnectNow, user, vars

LEMMA QuietInductive ==
    ASSUME TypeOK, SocketInv, AloneInv, QuietInv, [Next]_vars
    PROVE  QuietInv'
<1> SUFFICES ASSUME ~hurried', ~IsOpen', awaiting'
             PROVE  FALSE
    BY DEF QuietInv
<1>1. ~hurried
    BY HurryStays
<1> USE DEF gate, gateway, user
<1>2. ASSUME NEW k \in Socks, SocketOpens(k)
      PROVE  FALSE
    <2>1. k = ws
        BY <1>1, <1>2 DEF SocketOpens, AloneInv
    <2>2. IsOpen'
        BY <1>2, <2>1, ConstantsAssumption DEF SocketOpens, IsOpen, TypeOK
    <2>3. QED
        BY <2>2
<1>3. ASSUME NEW k \in Socks, SocketCloses(k)
      PROVE  FALSE
    BY <1>3 DEF SocketCloses, ResetGate
<1>4. CASE TimerFires \/ ReconnectNow
    <2>1. ws = Null /\ awaiting
        BY <1>1, <1>4 DEF TimerFires, ReconnectNow, SocketInv
    <2>2. QED
        BY <1>1, <2>1 DEF QuietInv, IsOpen
<1>5. CASE UNCHANGED <<sock, ws>> /\ (UNCHANGED awaiting \/ ~awaiting' \/ IsOpen)
    BY <1>1, <1>5 DEF QuietInv, IsOpen
<1>6. ASSUME NEW t \in Tokens \cup {Null}, SetAuthToken(t), UNCHANGED <<sock, ws>>
      PROVE  FALSE
    BY <1>5, <1>6 DEF SetAuthToken
<1>7. CASE Logout \/ \E t \in Tokens : LoginSucceeds(t)
    BY <1>6, <1>7 DEF Logout, LoginSucceeds
<1>8. ASSUME NEW k \in Socks, Receive(k) \/ Gateway(k)
      PROVE  FALSE
    BY <1>5, <1>6, <1>8 DEF Receive, ReceiveAnswer, ReceiveGrant, ReceiveRefusal,
       OpenGate, Gateway, GatewayAuth, GatewayServes
<1>9. CASE LoginBegins \/ \E m \in Msgs : Issue(m) \/ RequestTimesOut(m)
    BY <1>5, <1>9 DEF LoginBegins, Issue, RequestTimesOut
<1>10. CASE UNCHANGED vars
    BY <1>5, <1>10 DEF vars
<1>11. QED
    BY <1>2, <1>3, <1>4, <1>7, <1>8, <1>9, <1>10 DEF Next

(* The states of the link. *)
LinkState ==
    [link : BOOLEAN, awaiting : BOOLEAN, outbox : Seq(Message), up : Seq(Message)]

(* A state of the link is its four fields. *)
LEMMA SameLink ==
    ASSUME NEW r \in LinkState, NEW s \in LinkState,
           r.link = s.link, r.awaiting = s.awaiting, r.outbox = s.outbox, r.up = s.up
    PROVE  r = s
BY DEF LinkState

LEMMA LinkChanges ==
    ASSUME NEW n \in LinkState
    PROVE  /\ n.link \in BOOLEAN /\ n.awaiting \in BOOLEAN
           /\ n.outbox \in Seq(Message) /\ n.up \in Seq(Message)
           /\ \A q \in Seq(Message) : [n EXCEPT !.up = q] \in LinkState
           /\ \A q \in Seq(Message) : [n EXCEPT !.outbox = q] \in LinkState
           /\ \A b \in BOOLEAN : [n EXCEPT !.awaiting = b] \in LinkState
           /\ \A b \in BOOLEAN : [n EXCEPT !.link = b] \in LinkState
           /\ \A q \in Seq(Message), b \in BOOLEAN :
                [n EXCEPT !.awaiting = b, !.up = q] \in LinkState
           /\ \A p, q \in Seq(Message) : [n EXCEPT !.up = p, !.outbox = q] \in LinkState
<1> DEFINE U == Seq(Message)
<1>1. n \in [link : BOOLEAN, awaiting : BOOLEAN, outbox : U, up : U]
    BY DEF LinkState
<1>2. LinkState = [link : BOOLEAN, awaiting : BOOLEAN, outbox : U, up : U]
    BY DEF LinkState
<1> HIDE DEF U
<1>3. /\ n.link \in BOOLEAN /\ n.awaiting \in BOOLEAN
      /\ n.outbox \in U /\ n.up \in U
      /\ \A q \in U : [n EXCEPT !.up = q] \in LinkState
      /\ \A q \in U : [n EXCEPT !.outbox = q] \in LinkState
      /\ \A b \in BOOLEAN : [n EXCEPT !.awaiting = b] \in LinkState
      /\ \A b \in BOOLEAN : [n EXCEPT !.link = b] \in LinkState
      /\ \A q \in U, b \in BOOLEAN : [n EXCEPT !.awaiting = b, !.up = q] \in LinkState
      /\ \A p, q \in U : [n EXCEPT !.up = p, !.outbox = q] \in LinkState
    BY <1>1, <1>2
<1>4. QED
    BY <1>3 DEF U

(* What the operators of ClientNet make of the four fields. *)
LEMMA IsAuthStarted ==
    ASSUME NEW n \in LinkState, NEW r \in LinkState, NEW a \in Message,
           r.link = n.link, r.awaiting = TRUE,
           r.outbox = n.outbox, r.up = Append(n.up, a)
    PROVE  r = Link!AuthStarted(n, a)
<1> DEFINE U == Seq(Message)
           x == Link!AuthStarted(n, a)
<1>1. n.up \in Seq(Message)
    BY LinkChanges
<1>2. Append(n.up, a) \in U
    BY <1>1
<1>3. x \in LinkState
    BY <1>2, LinkChanges DEF Link!AuthStarted
<1>4. n \in [link : BOOLEAN, awaiting : BOOLEAN, outbox : U, up : U]
    BY DEF LinkState
<1> HIDE DEF U
<1>5. /\ x.link = n.link /\ x.awaiting = TRUE
      /\ x.outbox = n.outbox /\ x.up = Append(n.up, a)
    BY <1>4 DEF Link!AuthStarted
<1> HIDE DEF x
<1>6. r = x
    BY <1>3, <1>5, SameLink
<1>7. QED
    BY <1>6 DEF x

LEMMA IsFlushed ==
    ASSUME NEW n \in LinkState, NEW r \in LinkState,
           r.link = n.link, r.awaiting = n.awaiting,
           r.outbox = <<>>, r.up = n.up \o n.outbox
    PROVE  r = Link!Flushed(n)
<1> DEFINE U == Seq(Message)
           x == Link!Flushed(n)
<1>1. n.up \in Seq(Message) /\ n.outbox \in Seq(Message)
    BY LinkChanges
<1>2. n.up \o n.outbox \in U /\ <<>> \in U
    BY <1>1
<1>3. x \in LinkState
    BY <1>2, LinkChanges DEF Link!Flushed
<1>4. n \in [link : BOOLEAN, awaiting : BOOLEAN, outbox : U, up : U]
    BY DEF LinkState
<1> HIDE DEF U
<1>5. /\ x.link = n.link /\ x.awaiting = n.awaiting
      /\ x.outbox = <<>> /\ x.up = n.up \o n.outbox
    BY <1>4 DEF Link!Flushed
<1> HIDE DEF x
<1>6. r = x
    BY <1>3, <1>5, SameLink
<1>7. QED
    BY <1>6 DEF x

(* A state with one field changed. *)
LEMMA LinkUpdates ==
    ASSUME NEW n \in LinkState
    PROVE  /\ \A b \in BOOLEAN : LET x == [n EXCEPT !.link = b] IN
                /\ x \in LinkState /\ x.link = b /\ x.awaiting = n.awaiting
                /\ x.outbox = n.outbox /\ x.up = n.up
           /\ \A b \in BOOLEAN : LET x == [n EXCEPT !.awaiting = b] IN
                /\ x \in LinkState /\ x.link = n.link /\ x.awaiting = b
                /\ x.outbox = n.outbox /\ x.up = n.up
           /\ \A q \in Seq(Message) : LET x == [n EXCEPT !.outbox = q] IN
                /\ x \in LinkState /\ x.link = n.link /\ x.awaiting = n.awaiting
                /\ x.outbox = q /\ x.up = n.up
           /\ \A q \in Seq(Message) : LET x == [n EXCEPT !.up = q] IN
                /\ x \in LinkState /\ x.link = n.link /\ x.awaiting = n.awaiting
                /\ x.outbox = n.outbox /\ x.up = q
<1> DEFINE U == Seq(Message)
<1>1. LinkState = [link : BOOLEAN, awaiting : BOOLEAN, outbox : U, up : U]
    BY DEF LinkState
<1> HIDE DEF U
<1>2. /\ \A b \in BOOLEAN : LET x == [n EXCEPT !.link = b] IN
                /\ x.link = b /\ x.awaiting = n.awaiting
                /\ x.outbox = n.outbox /\ x.up = n.up
      /\ \A b \in BOOLEAN : LET x == [n EXCEPT !.awaiting = b] IN
                /\ x.link = n.link /\ x.awaiting = b
                /\ x.outbox = n.outbox /\ x.up = n.up
      /\ \A q \in U : LET x == [n EXCEPT !.outbox = q] IN
                /\ x.link = n.link /\ x.awaiting = n.awaiting
                /\ x.outbox = q /\ x.up = n.up
      /\ \A q \in U : LET x == [n EXCEPT !.up = q] IN
                /\ x.link = n.link /\ x.awaiting = n.awaiting
                /\ x.outbox = n.outbox /\ x.up = q
    BY <1>1
<1>3. QED
    BY <1>2, LinkChanges DEF U

LEMMA IsChanged ==
    ASSUME NEW n \in LinkState, NEW r \in LinkState, NEW q \in Seq(Message),
           r.link = n.link, r.awaiting = n.awaiting
    PROVE  /\ r.outbox = n.outbox /\ r.up = q => r = [n EXCEPT !.up = q]
           /\ r.outbox = q /\ r.up = n.up => r = [n EXCEPT !.outbox = q]
<1>1. PICK x : x = [n EXCEPT !.up = q]
    OBVIOUS
<1>2. /\ x \in LinkState /\ x.link = n.link /\ x.awaiting = n.awaiting
      /\ x.outbox = n.outbox /\ x.up = q
    BY <1>1, LinkUpdates
<1>3. PICK y : y = [n EXCEPT !.outbox = q]
    OBVIOUS
<1>4. /\ y \in LinkState /\ y.link = n.link /\ y.awaiting = n.awaiting
      /\ y.outbox = q /\ y.up = n.up
    BY <1>3, LinkUpdates
<1>5. r.outbox = n.outbox /\ r.up = q => r = x
    BY <1>2, SameLink
<1>6. r.outbox = q /\ r.up = n.up => r = y
    BY <1>4, SameLink
<1>7. QED
    BY <1>1, <1>3, <1>5, <1>6

NetFields ==
    /\ Net \in LinkState
    /\ Net.link = IsOpen /\ Net.awaiting = awaiting
    /\ Net.outbox = outbox /\ Net.up = Wire

LEMMA NetType == TypeOK /\ QueuesInv => NetFields
<1> SUFFICES ASSUME TypeOK, QueuesInv
             PROVE  NetFields
    OBVIOUS
<1>1. IsOpen \in BOOLEAN /\ awaiting \in BOOLEAN
    BY DEF IsOpen, TypeOK
<1>2. outbox \in Seq(Message) /\ Wire \in Seq(Message)
    BY WireFacts
<1>3. QED
    BY <1>1, <1>2 DEF Net, LinkState, NetFields

LEMMA NetTypeNext == (TypeOK /\ QueuesInv)' => NetFields'
BY NetType, PTL

LEMMA LinkStays ==
    ASSUME UNCHANGED <<awaiting, outbox, pending, token>>,
           IsOpen' = IsOpen, Wire' = Wire, Replies' = Replies
    PROVE  UNCHANGED Link!vars
BY DEF Link!vars, Net

(* What Transmit does to the link. *)
LEMMA TransmitOnWire ==
    ASSUME TypeOK, ws \in Socks, ws' = ws, NEW q \in Seq(Message), Transmit(q)
    PROVE  Wire' = Wire \o q
BY ConstantsAssumption DEF TypeOK, Transmit, Wire

LEMMA AuthOnLink ==
    ASSUME TypeOK, QueuesInv, ws \in Socks, ws' = ws, NEW t \in Tokens,
           StartAuth(t, TRUE)
    PROVE  /\ awaiting' = TRUE /\ outbox' = outbox
           /\ Wire' = Append(Wire, Link!Auth(t)) /\ Link!Auth(t) \in Message
<1>1. <<Auth(t)>> \in Seq(Message) /\ Auth(t) \in Message
    BY MessageTypes
<1>2. Wire' = Wire \o <<Auth(t)>>
    BY <1>1, TransmitOnWire DEF StartAuth
<1>3. Wire' = Append(Wire, Auth(t))
    BY <1>1, <1>2, WireFacts
<1>4. Link!Auth(t) = Auth(t)
    BY DEF Auth, Link!Auth
<1>5. QED
    BY <1>1, <1>3, <1>4 DEF StartAuth

LEMMA FlushOnLink ==
    ASSUME TypeOK, ws \in Socks, ws' = ws, FlushOutbox(TRUE)
    PROVE  outbox' = <<>> /\ Wire' = Wire \o outbox
BY TransmitOnWire DEF FlushOutbox, TypeOK

LEMMA TokenOnLink ==
    ASSUME TypeOK, TypeOK', QueuesInv, QueuesInv', UNCHANGED <<sock, ws>>,
           NEW t \in Tokens \cup {Null}, SetAuthToken(t)
    PROVE  token' = t /\ Net' = Link!WithToken(Net, t # Null, Link!Auth(t))
<1>1. IsOpen' = IsOpen
    BY DEF IsOpen
<1>2. CASE t # Null /\ IsOpen /\ ~awaiting
    <2>1. t \in Tokens /\ ws \in Socks /\ StartAuth(t, TRUE)
        BY <1>2 DEF SetAuthToken, IsOpen, TypeOK
    <2>2. /\ awaiting' = TRUE /\ outbox' = outbox
          /\ Wire' = Append(Wire, Link!Auth(t)) /\ Link!Auth(t) \in Message
        BY <2>1, AuthOnLink
    <2>3. Net' = Link!AuthStarted(Net, Link!Auth(t))
        <3>1. Net \in LinkState /\ Net' \in LinkState
            BY NetType, NetTypeNext DEF NetFields
        <3>2. /\ Net'.link = Net.link /\ Net'.awaiting = TRUE
              /\ Net'.outbox = Net.outbox /\ Net'.up = Append(Net.up, Link!Auth(t))
            BY <1>1, <2>2, NetType, NetTypeNext DEF NetFields
        <3>3. QED
            BY <2>2, <3>1, <3>2, IsAuthStarted
    <2>4. QED
        BY <1>2, <2>3, NetType DEF Link!WithToken, SetAuthToken, NetFields
<1>3. CASE ~(t # Null /\ IsOpen /\ ~awaiting)
    <2>1. UNCHANGED gate
        BY <1>3 DEF SetAuthToken
    <2>2. Net' = Net
        BY <1>1, <2>1 DEF Net, Wire, gate
    <2>3. QED
        BY <1>3, <2>2, NetType DEF Link!WithToken, SetAuthToken, NetFields
<1>4. QED
    BY <1>2, <1>3

(* send() is ClientNet's Sent. *)
LEMMA SendOnLink ==
    ASSUME TypeOK, TypeOK', QueuesInv, QueuesInv',
           UNCHANGED <<sock, ws, awaiting>>, NEW m \in Msgs, Send(App(m))
    PROVE  Net' = Link!Sent(Net, Link!App(m))
<1>1. App(m) \in Message /\ <<App(m)>> \in Seq(Message) /\ Link!App(m) = App(m)
    BY MessageTypes DEF App, Link!App
<1>2. /\ IsOpen' = IsOpen /\ Wire \in Seq(Message) /\ outbox \in Seq(Message)
      /\ Net \in LinkState /\ Net' \in LinkState
    BY WireFacts, NetType, NetTypeNext DEF IsOpen, NetFields
<1>3. CASE IsOpen /\ ~awaiting
    <2>1. Wire' = Wire \o <<App(m)>> /\ outbox' = outbox
        BY <1>1, <1>3, TransmitOnWire DEF Send, IsOpen, TypeOK
    <2>2. Wire' = Append(Wire, App(m)) /\ Append(Wire, App(m)) \in Seq(Message)
        BY <1>1, <1>2, <2>1
    <2>3. Net' = [Net EXCEPT !.up = Append(Wire, App(m))]
        <3>1. /\ Net'.link = Net.link /\ Net'.awaiting = Net.awaiting
              /\ Net'.outbox = Net.outbox /\ Net'.up = Append(Wire, App(m))
            BY <1>2, <2>1, <2>2, NetType, NetTypeNext DEF NetFields
        <3>2. QED
            BY <1>2, <2>2, <3>1, IsChanged
    <2>4. QED
        BY <1>1, <1>3, <2>3, NetType DEF Link!Sent, NetFields
<1>4. CASE ~(IsOpen /\ ~awaiting)
    <2>1. outbox' = Append(outbox, App(m)) /\ Wire' = Wire
        BY <1>4 DEF Send, Wire
    <2>2. Append(outbox, App(m)) \in Seq(Message)
        BY <1>1, <1>2
    <2>3. Net' = [Net EXCEPT !.outbox = Append(outbox, App(m))]
        <3>1. /\ Net'.link = Net.link /\ Net'.awaiting = Net.awaiting
              /\ Net'.outbox = Append(outbox, App(m)) /\ Net'.up = Net.up
            BY <1>2, <2>1, <2>2, NetType, NetTypeNext DEF NetFields
        <3>2. QED
            BY <1>2, <2>2, <3>1, IsChanged
    <2>4. QED
        BY <1>1, <1>4, <2>3, NetType DEF Link!Sent, NetFields
<1>5. QED
    BY <1>3, <1>4

(* The gate opens: ClientNet's Granted. *)
LEMMA GrantOnLink ==
    ASSUME TypeOK, TypeOK', QueuesInv, QueuesInv', UNCHANGED <<sock, ws>>, IsOpen,
           IF awaiting THEN OpenGate ELSE UNCHANGED gate
    PROVE  Net' = Link!Granted(Net)
<1>1. ws \in Socks /\ IsOpen' = IsOpen
    BY DEF IsOpen, TypeOK
<1>2. CASE awaiting
    <2> DEFINE n == [Net EXCEPT !.awaiting = FALSE]
    <2>1. Net \in LinkState /\ Net' \in LinkState
        BY NetType, NetTypeNext DEF NetFields
    <2>2. /\ n \in LinkState /\ n.link = Net.link /\ n.awaiting = FALSE
          /\ n.outbox = Net.outbox /\ n.up = Net.up
        BY <2>1, LinkUpdates
    <2> HIDE DEF n
    <2>3. ~awaiting' /\ outbox' = <<>> /\ Wire' = Wire \o outbox
        BY <1>1, <1>2, FlushOnLink DEF OpenGate
    <2>4. /\ Net'.link = n.link /\ Net'.awaiting = n.awaiting
          /\ Net'.outbox = <<>> /\ Net'.up = n.up \o n.outbox
        <3>1. awaiting' = FALSE
            BY <2>3, <1>2 DEF OpenGate
        <3>2. QED
            BY <1>1, <2>2, <2>3, <3>1, NetType, NetTypeNext DEF NetFields
    <2>5. Net' = Link!Flushed(n)
        BY <2>1, <2>2, <2>4, IsFlushed
    <2>6. QED
        BY <1>2, <2>5, NetType DEF Link!Granted, NetFields, n
<1>3. CASE ~awaiting
    <2>1. Net' = Net
        BY <1>1, <1>3 DEF Net, Wire, gate
    <2>2. QED
        BY <1>3, <2>1, NetType DEF Link!Granted, NetFields
<1>4. QED
    BY <1>2, <1>3

(* onopen of the socket in use: ClientNet's Opened. *)
LEMMA OpenOnLink ==
    ASSUME TypeOK, TypeOK', QueuesInv, QueuesInv', ws \in Socks, ws' = ws,
           IsOpen', ~awaiting, OnOpen(TRUE)
    PROVE  Net' = Link!Opened(Net, token # Null, Link!Auth(token))
<1> DEFINE n == [Net EXCEPT !.link = TRUE]
<1>1. Net \in LinkState /\ Net' \in LinkState
    BY NetType, NetTypeNext DEF NetFields
<1>2. /\ n \in LinkState /\ n.link = TRUE /\ n.awaiting = Net.awaiting
      /\ n.outbox = Net.outbox /\ n.up = Net.up
    BY <1>1, LinkUpdates
<1>3. Net'.link = TRUE
    <2>1. IsOpen' = TRUE
        BY DEF IsOpen
    <2>2. QED
        BY <2>1, NetTypeNext DEF NetFields
<1> HIDE DEF n
<1>4. CASE token # Null
    <2>1. token \in Tokens /\ StartAuth(token, TRUE)
        BY <1>4 DEF OnOpen, TypeOK
    <2>2. /\ awaiting' = TRUE /\ outbox' = outbox
          /\ Wire' = Append(Wire, Link!Auth(token)) /\ Link!Auth(token) \in Message
        BY <2>1, AuthOnLink
    <2>3. /\ Net'.link = n.link /\ Net'.awaiting = TRUE
          /\ Net'.outbox = n.outbox /\ Net'.up = Append(n.up, Link!Auth(token))
        BY <1>2, <1>3, <2>2, NetType, NetTypeNext DEF NetFields
    <2>4. Net' = Link!AuthStarted(n, Link!Auth(token))
        BY <1>1, <1>2, <2>2, <2>3, IsAuthStarted
    <2>5. QED
        BY <1>4, <2>4 DEF Link!Opened, n
<1>5. CASE token = Null
    <2>1. FlushOutbox(TRUE) /\ awaiting' = awaiting
        BY <1>5 DEF OnOpen
    <2>2. outbox' = <<>> /\ Wire' = Wire \o outbox
        BY <2>1, FlushOnLink
    <2>3. /\ Net'.link = n.link /\ Net'.awaiting = n.awaiting
          /\ Net'.outbox = <<>> /\ Net'.up = n.up \o n.outbox
        BY <1>2, <1>3, <2>1, <2>2, NetType, NetTypeNext DEF NetFields
    <2>4. Net' = Link!Flushed(n)
        BY <1>1, <1>2, <2>3, IsFlushed
    <2>5. QED
        BY <1>5, <2>4 DEF Link!Opened, n
<1>6. QED
    BY <1>4, <1>5

(* What is on its way is on the socket in use. *)
LEMMA UnderWayIsInUse ==
    ASSUME TypeOK, QueuesInv, AloneInv, ~hurried, NEW k \in Socks,
           up[k] # <<>> \/ dn[k] # <<>>
    PROVE  k = ws /\ ws # Null /\ IsOpen /\ Wire = up[k] /\ Replies = dn[k]
<1>1. sock[k] = "open"
    BY DEF QueuesInv
<1>2. k = ws
    BY <1>1 DEF AloneInv
<1>3. ws # Null
    BY <1>2, ConstantsAssumption
<1>4. QED
    BY <1>1, <1>2, <1>3 DEF IsOpen, Wire, Replies

LEMMA LinkStep ==
    ASSUME TypeOK, TypeOK', SocketInv, QueuesInv, QueuesInv', AloneInv, QuietInv,
           [Next]_vars, ~hurried'
    PROVE  [Link!Next]_(Link!vars)
<1> USE DEF gate, gateway, user
<1>1. ~hurried
    BY HurryStays
<1>2. ASSUME NEW k \in Socks, SocketOpens(k)
      PROVE  Link!Next
    <2>1. k = ws /\ ws # Null /\ ws \in Socks
        BY <1>1, <1>2, ConstantsAssumption DEF SocketOpens, AloneInv
    <2>2. ~IsOpen /\ IsOpen' /\ ws' = ws
        BY <1>2, <2>1 DEF SocketOpens, IsOpen, TypeOK
    <2>3. ~awaiting
        BY <1>1, <2>2 DEF QuietInv
    <2>4. OnOpen(TRUE) /\ UNCHANGED <<dn, pending, token>>
        <3>1. ws # Null /\ (ws = k \/ sock[ws] = "open") <=> TRUE
            BY <2>1
        <3>2. QED
            BY <1>2, <3>1 DEF SocketOpens
    <2>5. Net' = Link!Opened(Net, token # Null, Link!Auth(token))
        BY <2>1, <2>2, <2>3, <2>4, OpenOnLink
    <2>6. ~Net.link /\ Replies' = Replies
        BY <2>2, <2>4, NetType DEF NetFields, Replies
    <2>7. Link!Opens
        BY <2>4, <2>5, <2>6 DEF Link!Opens
    <2>8. QED
        BY <2>7 DEF Link!Next
<1>3. ASSUME NEW k \in Socks, SocketCloses(k)
      PROVE  Link!Next
    <2>1. /\ ws' = Null /\ awaiting' = FALSE /\ outbox' = outbox
          /\ pending' = {} /\ token' = token
        BY <1>3 DEF SocketCloses, ResetGate, RejectAllPending
    <2>2. IsOpen' = FALSE /\ Wire' = <<>> /\ Replies' = <<>>
        BY <2>1 DEF IsOpen, Wire, Replies
    <2>3. Net' = Link!Unlinked(Net.outbox)
        BY <2>1, <2>2, NetType DEF Net, NetFields, Link!Unlinked
    <2>4. Link!Closes
        BY <2>1, <2>2, <2>3 DEF Link!Closes
    <2>5. QED
        BY <2>4 DEF Link!Next
<1>4. CASE TimerFires \/ ReconnectNow
    <2>1. ws = Null /\ OpenSocket
        BY <1>1, <1>4 DEF TimerFires, ReconnectNow, SocketInv
    <2>2. UNCHANGED <<up, dn, awaiting, outbox, pending, token>>
        BY <1>4 DEF TimerFires, ReconnectNow
    <2>3. NextSock \in Socks /\ sock[NextSock] = "none" /\ ws' = NextSock
        BY <2>1, NextSockFresh DEF OpenSocket
    <2>4. up[ws'] = <<>> /\ dn[ws'] = <<>> /\ sock'[ws'] = "connecting"
        BY <2>1, <2>3 DEF QueuesInv, OpenSocket, TypeOK
    <2>5. Wire' = Wire /\ Replies' = Replies
        BY <2>1, <2>2, <2>4 DEF Wire, Replies
    <2>6. IsOpen' = IsOpen
        BY <2>1, <2>4 DEF IsOpen
    <2>7. QED
        BY <2>2, <2>5, <2>6, LinkStays
<1>5. CASE LoginBegins
    <2>1. UNCHANGED <<sock, ws, up, dn, awaiting, outbox, pending, token>>
        BY <1>5 DEF LoginBegins
    <2>2. IsOpen' = IsOpen /\ Wire' = Wire /\ Replies' = Replies
        BY <2>1 DEF IsOpen, Wire, Replies
    <2>3. QED
        BY <2>1, <2>2, LinkStays
<1>6. ASSUME NEW t \in Tokens \cup {Null}, SetAuthToken(t),
             UNCHANGED <<sock, ws, pending, dn>>
      PROVE  Link!Next
    <2>1. token' = t /\ Net' = Link!WithToken(Net, t # Null, Link!Auth(t))
        BY <1>6, TokenOnLink
    <2>2. Replies' = Replies
        BY <1>6 DEF Replies
    <2>3. Link!SetsToken(t)
        BY <1>6, <2>1, <2>2 DEF Link!SetsToken
    <2>4. QED
        BY <2>3 DEF Link!Next
<1>7. CASE Logout \/ \E t \in Tokens : LoginSucceeds(t)
    BY <1>6, <1>7 DEF Logout, LoginSucceeds
<1>8. ASSUME NEW m \in Msgs, Issue(m)
      PROVE  Link!Next
    <2>1. /\ UNCHANGED <<sock, ws, awaiting, dn, token>> /\ Send(App(m))
          /\ pending' = pending \cup ({m} \cap Reqs)
        BY <1>8 DEF Issue
    <2>2. Net' = Link!Sent(Net, Link!App(m))
        BY <2>1, SendOnLink
    <2>3. Replies' = Replies
        BY <2>1 DEF Replies
    <2>4. Link!Sends(m)
        BY <2>1, <2>2, <2>3 DEF Link!Sends
    <2>5. QED
        BY <2>4 DEF Link!Next
<1>9. ASSUME NEW m \in Msgs, RequestTimesOut(m)
      PROVE  Link!Next
    <2>1. /\ UNCHANGED <<sock, ws, awaiting, outbox, up, dn, token>>
          /\ pending' = pending \ {m}
        BY <1>9 DEF RequestTimesOut
    <2>2. Net' = Net /\ Replies' = Replies
        BY <2>1 DEF Net, IsOpen, Wire, Replies
    <2>3. Link!TimesOut(m)
        BY <2>1, <2>2 DEF Link!TimesOut
    <2>4. QED
        BY <2>3 DEF Link!Next
<1>10. ASSUME NEW k \in Socks, Receive(k)
       PROVE  Link!Next
    <2>1. /\ dn[k] # <<>> /\ dn' = [dn EXCEPT ![k] = Tail(@)]
          /\ UNCHANGED <<sock, ws>>
        BY <1>10 DEF Receive, ReceiveAnswer, ReceiveGrant, ReceiveRefusal
    <2>2. k = ws /\ ws # Null /\ IsOpen /\ Replies = dn[k]
        BY <1>1, <2>1, UnderWayIsInUse
    <2>3. Replies # <<>> /\ Replies' = Tail(Replies)
        BY <2>1, <2>2 DEF Replies, TypeOK
    <2>4. CASE ReceiveAnswer(k)
        <3>1. /\ UNCHANGED <<up, awaiting, outbox, token>>
              /\ Head(Replies).type = "app"
              /\ pending' = pending \ {Head(Replies).body}
            BY <2>2, <2>4 DEF ReceiveAnswer
        <3>2. Net' = Net
            BY <2>1, <3>1 DEF Net, IsOpen, Wire
        <3>3. Link!Takes
            BY <2>3, <3>1, <3>2 DEF Link!Takes
        <3>4. QED
            BY <3>3 DEF Link!Next
    <2>5. CASE ReceiveGrant(k)
        <3>1. /\ UNCHANGED <<pending, token>> /\ Head(Replies) = Link!Auth(TRUE)
              /\ IF awaiting THEN OpenGate ELSE UNCHANGED gate
            BY <2>2, <2>5 DEF ReceiveGrant, Granted, Link!Auth
        <3>2. Net' = Link!Granted(Net)
            BY <2>1, <2>2, <3>1, GrantOnLink
        <3>3. Link!Takes
            BY <2>3, <3>1, <3>2 DEF Link!Takes
        <3>4. QED
            BY <3>3 DEF Link!Next
    <2>6. CASE ReceiveRefusal(k)
        <3>1. /\ UNCHANGED pending /\ SetAuthToken(Null)
              /\ Head(Replies) = Link!Auth(FALSE)
            BY <2>2, <2>6 DEF ReceiveRefusal, Granted, Link!Auth
        <3>2. token' = Null /\ Net' = Net
            BY <2>1, <3>1 DEF SetAuthToken, Net, IsOpen, Wire
        <3>3. Link!Takes
            BY <2>3, <3>1, <3>2 DEF Link!Takes
        <3>4. QED
            BY <3>3 DEF Link!Next
    <2>7. QED
        BY <1>10, <2>4, <2>5, <2>6 DEF Receive
<1>11. ASSUME NEW k \in Socks, Gateway(k)
       PROVE  Link!Next
    <2>1. /\ up[k] # <<>> /\ up' = [up EXCEPT ![k] = Tail(@)]
          /\ UNCHANGED <<sock, ws, awaiting, outbox, pending, token>>
        BY <1>11 DEF Gateway, GatewayAuth, GatewayServes
    <2>2. k = ws /\ ws # Null /\ IsOpen /\ Wire = up[k] /\ Replies = dn[k]
        BY <1>1, <2>1, UnderWayIsInUse
    <2>3. Wire # <<>> /\ Wire' = Tail(Wire) /\ IsOpen' = IsOpen
        BY <2>1, <2>2 DEF Wire, TypeOK, IsOpen
    <2>4. Net' = [Net EXCEPT !.up = Tail(Wire)]
        <3>1. Net \in LinkState /\ Net' \in LinkState
            BY NetType, NetTypeNext DEF NetFields
        <3>2. Tail(Wire) \in Seq(Message)
            BY <2>1, <2>2, QueueTypes
        <3>3. /\ Net'.link = Net.link /\ Net'.awaiting = Net.awaiting
              /\ Net'.outbox = Net.outbox /\ Net'.up = Tail(Wire)
            BY <2>1, <2>3, NetType, NetTypeNext DEF NetFields
        <3>4. QED
            BY <3>1, <3>2, <3>3, IsChanged
    <2>5. Net.up = Wire
        BY NetType DEF NetFields
    <2> DEFINE m == Head(Wire)
    <2>6. \/ m.type = "auth" /\ \E ok \in BOOLEAN : Replies' = Append(Replies, Link!Auth(ok))
          \/ m.type = "app" /\ m.body \in Reqs /\ Replies' = Append(Replies, m)
          \/ m.type = "app" /\ m.body \notin Reqs /\ Replies' = Replies
        <3>1. CASE GatewayAuth(k)
            <4>1. PICK ok \in BOOLEAN : dn' = [dn EXCEPT ![k] = Append(@, Granted(ok))]
                BY <3>1 DEF GatewayAuth
            <4>2. Replies' = Append(Replies, Link!Auth(ok))
                BY <2>1, <2>2, <4>1 DEF Replies, TypeOK, Granted, Link!Auth
            <4>3. QED
                BY <2>2, <3>1, <4>2 DEF GatewayAuth
        <3>2. CASE GatewayServes(k)
            <4>1. /\ m.type = "app"
                  /\ dn' = [dn EXCEPT ![k] = IF m.body \in Reqs
                                THEN Append(@, Answer(m.body)) ELSE @]
                BY <2>2, <3>2 DEF GatewayServes
            <4>2. Replies' = IF m.body \in Reqs
                               THEN Append(Replies, Answer(m.body)) ELSE Replies
                BY <2>1, <2>2, <4>1 DEF Replies, TypeOK
            <4>3. m \in Message
                BY <2>1, <2>2, QueueTypes
            <4>4. Answer(m.body) = m
                BY <4>1, <4>3 DEF Answer, Message
            <4>5. QED
                BY <4>1, <4>2, <4>4
        <3>3. QED
            BY <1>11, <3>1, <3>2 DEF Gateway
    <2> HIDE DEF m
    <2>7. Link!Serves
        BY <2>1, <2>3, <2>4, <2>5, <2>6 DEF Link!Serves, m
    <2>8. QED
        BY <2>7 DEF Link!Next
<1>12. CASE UNCHANGED vars
    <2>1. UNCHANGED <<sock, ws, up, dn, awaiting, outbox, pending, token>>
        BY <1>12 DEF vars
    <2>2. IsOpen' = IsOpen /\ Wire' = Wire /\ Replies' = Replies
        BY <2>1 DEF IsOpen, Wire, Replies
    <2>3. QED
        BY <2>1, <2>2, LinkStays
<1>13. QED
    BY <1>2, <1>3, <1>4, <1>5, <1>7, <1>8, <1>9, <1>10, <1>11, <1>12 DEF Next

(* The client that Controller is modelled over is the client: until the    *)
(* button leaves a socket behind, whatever sockets, timers and callbacks   *)
(* do is a step of one link or none.                                       *)
THEOREM LinkIsImplemented == Spec => ImplementsLink
<1>1. Init => Link!Init /\ QuietInv
    <2> SUFFICES ASSUME Init
                 PROVE  Link!Init /\ QuietInv
        OBVIOUS
    <2>1. /\ ws \in Socks /\ outbox = <<>> /\ up[ws] = <<>> /\ dn[ws] = <<>>
          /\ sock[ws] = "connecting" /\ awaiting = FALSE /\ pending = {}
          /\ token \in Tokens \cup {Null}
        BY ConstantsAssumption DEF Init
    <2>2. IsOpen = FALSE /\ Wire = <<>> /\ Replies = <<>>
        BY <2>1 DEF IsOpen, Wire, Replies
    <2>3. Net = Link!Unlinked(<<>>)
        BY <2>1, <2>2 DEF Net, Link!Unlinked
    <2>4. QED
        BY <2>1, <2>2, <2>3 DEF Link!Init, QuietInv
<1>2. IInv /\ AloneInv /\ QuietInv /\ [Next]_vars => QuietInv'
    BY QuietInductive DEF IInv
<1>3. IInv /\ IInv' /\ QueuesInv /\ QueuesInv' /\ AloneInv /\ QuietInv /\ [Next]_vars
        => [hurried' \/ Link!Next]_(Link!vars)
    BY LinkStep DEF IInv
<1>4. QED
    BY <1>1, <1>2, <1>3, Invariance, QueuesInvariance, PTL DEF Spec, ImplementsLink
=============================================================================
