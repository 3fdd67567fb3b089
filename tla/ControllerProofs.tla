-------------------------- MODULE ControllerProofs --------------------------
(***************************************************************************)
(* For any characters, kinds of state, and numbers of sessions, losses,    *)
(* operations and events: the controller keeps its types, reattach() is    *)
(* never stuck, what is shown is a tab, no tab is forgotten and each tab   *)
(* shows the game.                                                         *)
(*                                                                         *)
(* None is inductive.                                                      *)
(*   LoopInv adds to LoopWaits that one request of reattach() is pending   *)
(*     at most, and that it is for a tab: so the promise that is settled   *)
(*     is the one that the loop waits for.                                 *)
(*   CInv is for NoTabForgotten: a session that an answer or an event      *)
(*     calls connected is attached, or its end is said after it            *)
(*     (AnnounceInv); and some tab is fed, or its end is known or on its   *)
(*     way, or a banner names it, or reattach() will ask for it            *)
(*     (CoverInv).                                                         *)
(*   TInv is for TabsShowTheGame: each promise has one message on its way  *)
(*     at most (TagsInv); nothing is known of what the game has not sent   *)
(*     (NewsInv); and what a fed tab will show once it has taken all that  *)
(*     is on its way is the state of the game (FeedInv).                   *)
(***************************************************************************)
EXTENDS Controller, SequenceTheorems, TLAPS

Client == [link : BOOLEAN, awaiting : BOOLEAN, outbox : Seq(Upward), up : Seq(Upward)]

ForTab(g) == g.who = "reattach" => g.s \in Session
LoopInv ==
    /\ \A g \in waits : ForTab(g)
    /\ \A g, h \in waits : g.who = "reattach" /\ h.who = "reattach" => g = h
    /\ LoopWaits

Inv == TypeOK /\ LoopInv
-----------------------------------------------------------------------------
(* The operators of the client. *)
LEMMA AuthType == Auth \in Upward
  BY DEF Auth, Upward

(* A client record with other queues or another state. *)
LEMMA ClientChanges ==
    ASSUME NEW n \in Client
    PROVE  /\ n.link \in BOOLEAN /\ n.awaiting \in BOOLEAN
           /\ n.outbox \in Seq(Upward) /\ n.up \in Seq(Upward)
           /\ \A q \in Seq(Upward) : [n EXCEPT !.up = q] \in Client
           /\ \A q \in Seq(Upward) : [n EXCEPT !.outbox = q] \in Client
           /\ \A b \in BOOLEAN : [n EXCEPT !.awaiting = b] \in Client
           /\ \A b \in BOOLEAN : [n EXCEPT !.link = b] \in Client
           /\ \A q \in Seq(Upward), b \in BOOLEAN :
                 [n EXCEPT !.awaiting = b, !.up = q] \in Client
           /\ \A p, q \in Seq(Upward) : [n EXCEPT !.up = p, !.outbox = q] \in Client
           /\ \A p, q \in Seq(Upward) : [n EXCEPT !.outbox = p, !.up = q] \in Client
<1> DEFINE U == Seq(Upward)
<1>1. Client = [link : BOOLEAN, awaiting : BOOLEAN, outbox : U, up : U]
  BY DEF Client
<1> HIDE DEF U
<1>2. /\ n.link \in BOOLEAN /\ n.awaiting \in BOOLEAN /\ n.outbox \in U /\ n.up \in U
      /\ \A q \in U : [n EXCEPT !.up = q] \in Client
      /\ \A q \in U : [n EXCEPT !.outbox = q] \in Client
      /\ \A b \in BOOLEAN : [n EXCEPT !.awaiting = b] \in Client
      /\ \A b \in BOOLEAN : [n EXCEPT !.link = b] \in Client
      /\ \A q \in U, b \in BOOLEAN : [n EXCEPT !.awaiting = b, !.up = q] \in Client
      /\ \A p, q \in U : [n EXCEPT !.up = p, !.outbox = q] \in Client
      /\ \A p, q \in U : [n EXCEPT !.outbox = p, !.up = q] \in Client
  BY <1>1
<1> QED BY <1>2 DEF U

LEMMA SentType ==
    ASSUME NEW n \in Client, NEW m \in Upward
    PROVE  Sent(n, m) \in Client
<1> DEFINE U == Upward
<1> HIDE DEF U
<1>1. n.up \in Seq(U) /\ n.outbox \in Seq(U) /\ m \in U
  BY ClientChanges DEF U
<1>2. Append(n.up, m) \in Seq(U) /\ Append(n.outbox, m) \in Seq(U)
  BY <1>1
<1>3. Append(n.up, m) \in Seq(Upward) /\ Append(n.outbox, m) \in Seq(Upward)
  BY <1>2 DEF U
<1> QED BY <1>3, ClientChanges DEF Sent

LEMMA ClientTypes ==
    ASSUME NEW n \in Client, NEW on \in BOOLEAN
    PROVE  /\ AuthStarted(n, Auth) \in Client /\ Flushed(n) \in Client
           /\ WithToken(n, on, Auth) \in Client
<1> DEFINE U == Upward
<1> HIDE DEF U
<1>0. n.up \in Seq(U) /\ n.outbox \in Seq(U) /\ Auth \in U
  BY AuthType, ClientChanges DEF U
<1>1. Append(n.up, Auth) \in Seq(U) /\ n.up \o n.outbox \in Seq(U) /\ <<>> \in Seq(U)
  BY <1>0
<1>3. Append(n.up, Auth) \in Seq(Upward) /\ n.up \o n.outbox \in Seq(Upward)
      /\ <<>> \in Seq(Upward)
  BY <1>1 DEF U
<1>2. AuthStarted(n, Auth) \in Client /\ Flushed(n) \in Client
  BY <1>3, ClientChanges DEF AuthStarted, Flushed
<1> QED BY <1>2 DEF WithToken

LEMMA AbandonedType ==
    ASSUME NEW settled
    PROVE  /\ \A q \in Seq(Upward) : Abandoned(q, settled) \in Seq(Upward)
           /\ \A q \in Seq(Downward) : Abandoned(q, settled) \in Seq(Downward)
<1>1. \A g \in Tag : [g EXCEPT !.who = "nobody"] \in Tag
  BY DEF Tag
<1>2. ASSUME NEW m \in Upward, m.t = "open" PROVE [m EXCEPT !.for.who = "nobody"] \in Upward
  BY <1>1, <1>2 DEF Upward
<1>3. ASSUME NEW m \in Downward, m.t \in {"opened", "refused"}
      PROVE  [m EXCEPT !.for.who = "nobody"] \in Downward
  <2>1. CASE m.t = "opened"
    BY <1>1, <2>1 DEF Downward
  <2>2. CASE m.t = "refused"
    BY <1>1, <2>2 DEF Downward
  <2> QED BY <1>3, <2>1, <2>2
<1>4. \A m \in Upward : m.t \notin {"opened", "refused"}
  BY DEF Upward
<1>5. \A m \in Downward : m.t # "open"
  BY DEF Downward
<1>6. ASSUME NEW q \in Seq(Upward) PROVE Abandoned(q, settled) \in Seq(Upward)
  BY <1>2, <1>4 DEF Abandoned
<1>7. ASSUME NEW q \in Seq(Downward) PROVE Abandoned(q, settled) \in Seq(Downward)
  BY <1>3, <1>5 DEF Abandoned
<1> QED BY <1>6, <1>7

LEMMA ForType ==
    ASSUME NEW who \in {"reattach", "select", "nobody"} \cup Clicks, NEW s \in Session
    PROVE  For(who, s) \in Tag /\ For(who, s).who = who /\ For(who, s).s = s
  BY ConstantsAssumption DEF For, Tag, Session

LEMMA ClicksApart == \A who \in Clicks : who \notin {"reattach", "select", "nobody"}
  BY ConstantsAssumption

LEMMA OpenRequestType == \A g \in Tag : OpenRequest(g) \in Upward
  BY DEF OpenRequest, Upward, Tag

(* Another request is pending afterwards. *)
LEMMA AskType ==
    ASSUME NEW n \in Client, NEW w \in SUBSET Tag, NEW g \in Tag, Ask(n, w, g)
    PROVE  net' \in Client /\ waits' \in SUBSET Tag /\ waits' = w \cup {g}
  BY OpenRequestType, SentType DEF Ask

(* The loop goes on from where none of its requests is pending.            *)
LEMMA LoopOnStep ==
    ASSUME NEW n \in Client, NEW w \in SUBSET Tag, NEW q \in Seq(Session),
           \A g \in w : g.who # "reattach",
           LoopOn(n, w, q)
    PROVE  /\ net' \in Client /\ waits' \in SUBSET Tag /\ loop' \in BOOLEAN
           /\ todo' \in Seq(Session)
           /\ LoopInv'
<1>1. CASE q # <<>> /\ loop' = TRUE /\ todo' = Tail(q) /\ Ask(n, w, For("reattach", Head(q)))
  <2>1. Head(q) \in Session /\ Tail(q) \in Seq(Session)
    BY <1>1
  <2> DEFINE g == For("reattach", Head(q))
  <2>2. g \in Tag /\ g.who = "reattach" /\ g.s \in Session
    BY <2>1, ForType
  <2>3. net' \in Client /\ waits' \in SUBSET Tag /\ waits' = w \cup {g}
    BY <1>1, <2>2, AskType
  <2>4. LoopWaits'
    BY <1>1, <2>1, <2>3 DEF LoopWaits
  <2> HIDE DEF g
  <2>5. LoopInv'
    BY <2>2, <2>3, <2>4 DEF LoopInv, ForTab
  <2> QED BY <1>1, <2>1, <2>3, <2>5
<1>2. CASE q = <<>> /\ loop' = FALSE /\ todo' = <<>> /\ net' = n /\ waits' = w
  <2>1. \A s \in Session : For("reattach", s) \notin w
    BY ForType
  <2> QED BY <1>2, <2>1 DEF LoopInv, LoopWaits, ForTab
<1> QED BY <1>1, <1>2 DEF LoopOn
-----------------------------------------------------------------------------
(* What leaves the loop and its promises alone. *)
LEMMA LoopKept == LoopInv /\ UNCHANGED <<waits, loop>> => LoopInv'
  BY DEF LoopInv, LoopWaits

(* Another request is pending. *)
LEMMA LoopAsks ==
    ASSUME LoopInv, NEW g, g.who # "reattach", waits' = waits \cup {g}, loop' = loop
    PROVE  LoopInv'
<1>1. \A s \in Session : For("reattach", s) # g
  BY ForType
<1>2. LoopWaits'
  BY <1>1 DEF LoopInv, LoopWaits
<1> QED BY <1>2 DEF LoopInv, ForTab

(* One that is not the loop's is settled. *)
LEMMA LoopSettles ==
    ASSUME LoopInv, NEW g, g.who # "reattach", waits' = waits \ {g}, loop' = loop
    PROVE  LoopInv'
<1>1. \A s \in Session : For("reattach", s) # g
  BY ForType
<1> QED BY <1>1 DEF LoopInv, LoopWaits

LEMMA NoLoopNoRequest ==
    ASSUME TypeOK, LoopInv, ~loop
    PROVE  \A g \in waits : g.who # "reattach"
<1> SUFFICES ASSUME NEW g \in waits, g.who = "reattach" PROVE FALSE
  OBVIOUS
<1>1. g \in Tag /\ g.s \in Session
  BY DEF TypeOK, LoopInv, ForTab
<1>2. g = For("reattach", g.s)
  BY <1>1 DEF Tag, For
<1> QED BY <1>1, <1>2 DEF LoopInv, LoopWaits

(* A promise of the loop is settled: none of its requests is left. *)
LEMMA OthersRemain ==
    ASSUME LoopInv, NEW g \in waits, g.who = "reattach"
    PROVE  \A h \in waits \ {g} : h.who # "reattach"
  BY DEF LoopInv

LEMMA RejectedStep ==
    ASSUME TypeOK, LoopInv, NEW n \in Client, NEW tags \in SUBSET waits,
           tags = waits \/ \E g \in waits : tags = {g},
           Rejected(n, waits \ tags, tags)
    PROVE  /\ net' \in Client /\ waits' \in SUBSET Tag /\ loop' \in BOOLEAN
           /\ todo' \in Seq(Session)
           /\ errors' \in [Session -> {"none", "shown", "dismissed"}]
           /\ LoopInv'
<1>1. errors' \in [Session -> {"none", "shown", "dismissed"}]
  BY DEF Rejected, TypeOK
<1>2. waits \in SUBSET Tag /\ loop \in BOOLEAN /\ todo \in Seq(Session)
  BY DEF TypeOK
<1>3. CASE \E s \in Session : For("reattach", s) \in tags
  <2>1. \A g \in waits \ tags : g.who # "reattach"
    BY <1>3, ForType, OthersRemain
  <2>2. LoopOn(n, waits \ tags, todo)
    BY <1>3 DEF Rejected
  <2> QED BY <1>1, <1>2, <2>1, <2>2, LoopOnStep
<1>4. CASE ~\E s \in Session : For("reattach", s) \in tags
  <2>1. net' = n /\ waits' = waits \ tags /\ UNCHANGED <<loop, todo>>
    BY <1>4 DEF Rejected
  <2>2. LoopInv'
    BY <1>4, <2>1 DEF LoopInv, LoopWaits
  <2> QED BY <1>1, <1>2, <2>1, <2>2
<1> QED BY <1>3, <1>4
-----------------------------------------------------------------------------
(* The browser's actions. *)
LEMMA SessionFacts ==
    /\ \A s \in Session : s.c \in Chars /\ s.n \in 1..MaxGen
    /\ \A c \in Chars, n \in 1..MaxGen : [c |-> c, n |-> n] \in Session
    /\ \A v : v \in [Kinds -> Value] => \A k \in Kinds : v[k] \in Value
    /\ Unset \in [Kinds -> Value]
  BY DEF Session, Unset, Value

Counted == [closes : 0..MaxCloses, ops : 0..MaxOps, events : 0..MaxEvents]
LEMMA SpendType ==
    ASSUME TypeOK,
           Spend("closes", MaxCloses) \/ Spend("ops", MaxOps) \/ Spend("events", MaxEvents)
    PROVE  count' \in Counted
<1>1. count \in Counted
  BY DEF TypeOK, Counted
<1>2. /\ count.closes \in 0..MaxCloses /\ count.ops \in 0..MaxOps
      /\ count.events \in 0..MaxEvents
  BY <1>1 DEF Counted
<1>3. CASE Spend("closes", MaxCloses)
  <2>1. count.closes + 1 \in 0..MaxCloses
    BY <1>2, <1>3, ConstantsAssumption DEF Spend
  <2> QED BY <1>1, <1>3, <2>1 DEF Spend, Counted
<1>4. CASE Spend("ops", MaxOps)
  <2>1. count.ops + 1 \in 0..MaxOps
    BY <1>2, <1>4, ConstantsAssumption DEF Spend
  <2> QED BY <1>1, <1>4, <2>1 DEF Spend, Counted
<1>5. CASE Spend("events", MaxEvents)
  <2>1. count.events + 1 \in 0..MaxEvents
    BY <1>2, <1>5, ConstantsAssumption DEF Spend
  <2> QED BY <1>1, <1>5, <2>1 DEF Spend, Counted
<1> QED BY <1>3, <1>4, <1>5

LEMMA SocketOpensStep == Inv /\ SocketOpens => Inv'
<1> SUFFICES ASSUME TypeOK, LoopInv, SocketOpens PROVE Inv'
  BY DEF Inv
<1>1. net \in Client /\ token \in BOOLEAN
  BY DEF TypeOK, Client
<1> DEFINE n == [net EXCEPT !.link = TRUE]
           m == IF token THEN AuthStarted(n, Auth) ELSE Flushed(n)
<1>2. m \in Client
  BY <1>1, ClientChanges, ClientTypes
<1>3. /\ net' \in Client /\ waits' \in SUBSET Tag /\ loop' \in BOOLEAN
      /\ todo' \in Seq(Session) /\ LoopInv'
  <2>1. CASE first /\ ~loop /\ token
    <3>1. LoopOn(m, waits, tabs)
      BY <2>1 DEF SocketOpens, Opened
    <3>2. waits \in SUBSET Tag /\ tabs \in Seq(Session)
      BY DEF TypeOK
    <3> HIDE DEF m, n
    <3> QED BY <1>2, <2>1, <3>1, <3>2, NoLoopNoRequest, LoopOnStep
  <2>2. CASE ~(first /\ ~loop /\ token)
    <3>1. net' = m /\ UNCHANGED <<waits, loop, todo>>
      BY <2>2 DEF SocketOpens, Opened
    <3> HIDE DEF m, n
    <3> QED BY <1>2, <3>1, LoopKept DEF TypeOK
  <2> QED BY <2>1, <2>2
<1>4. first' = TRUE /\ shown' = "open" /\ crossed' \in BOOLEAN
  BY DEF SocketOpens, TypeOK
<1>5. UNCHANGED <<down, account, sessionStore, uiStore, stores, gateway, count>>
  BY DEF SocketOpens
<1> HIDE DEF m, n
<1> QED BY <1>3, <1>4, <1>5
        DEF Inv, TypeOK, Client, account, sessionStore, uiStore, stores, gateway

LEMMA SocketClosesStep == Inv /\ SocketCloses => Inv'
<1> SUFFICES ASSUME TypeOK, LoopInv, SocketCloses PROVE Inv'
  BY DEF Inv
<1> DEFINE n == [link |-> FALSE, awaiting |-> FALSE, up |-> <<>>,
                 outbox |-> Abandoned(net.outbox, waits)]
<1>1. n \in Client
  <2>1. net.outbox \in Seq(Upward)
    BY ClientChanges DEF TypeOK, Client
  <2>2. Abandoned(net.outbox, waits) \in Seq(Upward)
    BY <2>1, AbandonedType
  <2> QED BY <2>2 DEF Client
<1>2. Rejected(n, waits \ waits, waits)
  BY DEF SocketCloses, Unlinked
<1> HIDE DEF n
<1>3. /\ net' \in Client /\ waits' \in SUBSET Tag /\ loop' \in BOOLEAN
      /\ todo' \in Seq(Session) /\ errors' \in [Session -> {"none", "shown", "dismissed"}]
      /\ LoopInv'
  BY <1>1, <1>2, RejectedStep
<1>4. count' \in [closes : 0..MaxCloses, ops : 0..MaxOps, events : 0..MaxEvents]
  BY SpendType DEF SocketCloses, Counted
<1>5. /\ down' = <<>> /\ shown' = "reconnecting" /\ attached' = {} /\ authed' = FALSE
      /\ UNCHANGED <<account, first, sessionStore, activeTab, urgent, stores, live,
                     gen, game, crossed>>
  BY DEF SocketCloses
<1>6. down' \in Seq(Downward)
  BY <1>5
<1> QED BY <1>3, <1>4, <1>5, <1>6
        DEF Inv, TypeOK, Client, account, sessionStore, stores

LEMMA TimeoutStep == Inv /\ (\E tag \in waits : RequestTimesOut(tag)) => Inv'
<1> SUFFICES ASSUME TypeOK, LoopInv, NEW tag \in waits, RequestTimesOut(tag) PROVE Inv'
  BY DEF Inv
<1> DEFINE n == [net EXCEPT !.outbox = Abandoned(@, {tag}), !.up = Abandoned(@, {tag})]
<1>1. n \in Client
  <2>1. net \in Client /\ net.outbox \in Seq(Upward) /\ net.up \in Seq(Upward)
    BY ClientChanges DEF TypeOK, Client
  <2>2. Abandoned(net.outbox, {tag}) \in Seq(Upward) /\ Abandoned(net.up, {tag}) \in Seq(Upward)
    BY <2>1, AbandonedType
  <2> QED BY <2>1, <2>2, ClientChanges
<1>2. Rejected(n, waits \ {tag}, {tag})
  BY DEF RequestTimesOut
<1> HIDE DEF n
<1>3. /\ net' \in Client /\ waits' \in SUBSET Tag /\ loop' \in BOOLEAN
      /\ todo' \in Seq(Session) /\ errors' \in [Session -> {"none", "shown", "dismissed"}]
      /\ LoopInv'
  BY <1>1, <1>2, RejectedStep
<1>4. down' \in Seq(Downward)
  BY AbandonedType DEF RequestTimesOut, TypeOK
<1>5. UNCHANGED <<account, first, shown, sessionStore, activeTab, urgent, stores,
                  gateway, bounds>>
  BY DEF RequestTimesOut
<1> QED BY SMTT(60), <1>3, <1>4, <1>5
        DEF Inv, TypeOK, Client, account, sessionStore, stores, gateway, bounds

(* The buttons that touch no request. *)
LEMMA ButtonsStep ==
    ASSUME TypeOK, LoopInv,
           \/ ReconnectNow \/ Login \/ \E ok \in BOOLEAN : LoginEnds(ok) \/ LoggedOut
           \/ \E s \in Session : SelectTab(s) \/ DismissError(s)
    PROVE  Inv'
<1>1. UNCHANGED <<waits, loop>>
  BY DEF ReconnectNow, Login, LoginEnds, LoggedOut, SelectTab, DismissError,
         client, reattaching
<1>2. LoopInv'
  BY <1>1, LoopKept
<1>3. CASE ReconnectNow
  BY <1>2, <1>3
     DEF Inv, TypeOK, ReconnectNow, client, account, reattaching, sessionStore, uiStore,
         stores, gateway, bounds
<1>4. CASE Login
  <2>1. count' \in Counted
    BY <1>4, SpendType DEF Login
  <2> QED BY <1>2, <1>4, <2>1
          DEF Inv, TypeOK, Login, Counted, client, reattaching, sessionStore, uiStore, stores, gateway
<1>5. CASE \E ok \in BOOLEAN : LoginEnds(ok)
  <2>1. PICK ok \in BOOLEAN : LoginEnds(ok)
    BY <1>5
  <2>2. net \in Client
    BY DEF TypeOK, Client
  <2>3. net' \in Client
    BY <2>1, <2>2, ClientTypes DEF LoginEnds
  <2>4. token' \in BOOLEAN /\ loggedIn' \in BOOLEAN /\ busy' = FALSE
    BY <2>1 DEF LoginEnds, TypeOK
  <2> QED BY <1>2, <2>1, <2>3, <2>4
          DEF Inv, TypeOK, Client, LoginEnds, reattaching, sessionStore, uiStore, stores, gateway, bounds
<1>6. CASE LoggedOut
  <2>1. leaving \in 0..MaxOps /\ leaving > 0 /\ leaving' = leaving - 1
    BY <1>6 DEF LoggedOut, TypeOK
  <2>2. leaving' \in 0..MaxOps
    BY <2>1, ConstantsAssumption
  <2>3. busy' \in BOOLEAN
    BY <1>6 DEF LoggedOut, TypeOK
  <2>4. /\ loggedIn' = FALSE
        /\ UNCHANGED <<client, down, token, reattaching, shown, sessionStore, uiStore, stores,
                       gateway, bounds>>
    BY <1>6 DEF LoggedOut
  <2>5. loggedIn' \in BOOLEAN
    BY <2>4
  <2> QED BY <1>2, <2>2, <2>3, <2>4, <2>5
          DEF Inv, TypeOK, client, reattaching, sessionStore, uiStore, stores, gateway, bounds
<1>7. CASE \E s \in Session : SelectTab(s)
  BY <1>2, <1>7
     DEF Inv, TypeOK, SelectTab, client, account, reattaching, stores, gateway, bounds
<1>8. CASE \E s \in Session : DismissError(s)
  BY <1>2, <1>8
     DEF Inv, TypeOK, DismissError, client, account, reattaching, sessionStore, stores,
         gateway, bounds
<1> QED BY <1>3, <1>4, <1>5, <1>6, <1>7, <1>8

(* Calls of logout() that have not ended are operations. *)
LeavingInv == leaving =< count.ops

LEMMA LogoutStep == TypeOK /\ LoopInv /\ LeavingInv /\ Logout => Inv'
<1> SUFFICES ASSUME TypeOK, LoopInv, LeavingInv, Logout PROVE Inv'
  OBVIOUS
<1>1. UNCHANGED <<waits, loop>>
  BY DEF Logout, client, reattaching
<1>2. LoopInv'
  BY <1>1, LoopKept
<1>3. count' \in Counted
  BY SpendType DEF Logout
<1>4. leaving' \in 0..MaxOps
  BY ConstantsAssumption DEF Logout, Spend, LeavingInv, TypeOK
<1>5. conn' \in [Session -> {"connecting", "connected", "closed"}]
  BY DEF Logout
<1>6. store' \in [Session -> [Kinds -> Value]]
  BY SessionFacts DEF Logout
<1>7. errors' \in [Session -> {"none", "shown", "dismissed"}]
  BY DEF Logout
<1>8. token' \in BOOLEAN /\ busy' \in BOOLEAN /\ crossed' \in BOOLEAN
  BY DEF Logout, TypeOK
<1>9. /\ tabs' \in Seq(Session) /\ active' = None /\ activeTab' = None /\ urgent' = {}
  BY DEF Logout
<1>10. UNCHANGED <<client, down, loggedIn, reattaching, shown, gateway>>
  BY DEF Logout
<1> QED BY <1>2, <1>3, <1>4, <1>5, <1>6, <1>7, <1>8, <1>9, <1>10
        DEF Inv, TypeOK, Counted, client, reattaching, gateway

(* Opening, closing and reopening characters. *)
LEMMA RequestsStep ==
    ASSUME TypeOK, LoopInv,
           \/ CloseSession
           \/ \E click \in Clicks : ReopenSession(click)
           \/ \E c \in Chars : Select(c)
    PROVE  Inv'
<1>1. net \in Client /\ waits \in SUBSET Tag /\ (activeTab # None => activeTab \in Session)
  BY DEF TypeOK, Client
<1>2. count' \in Counted
  BY SpendType DEF CloseSession, ReopenSession, Select
<1>3. CASE CloseSession
  <2>1. [t |-> "close", s |-> activeTab] \in Upward
    BY <1>1, <1>3 DEF CloseSession, Upward
  <2>2. net' \in Client
    BY <1>1, <1>3, <2>1, SentType DEF CloseSession
  <2>3. LoopInv'
    BY <1>3, LoopKept DEF CloseSession, reattaching
  <2>4. conn' \in [Session -> {"connecting", "connected", "closed"}]
    BY <1>3 DEF CloseSession, TypeOK
  <2> QED BY SMTT(60), <1>2, <1>3, <2>2, <2>3, <2>4
          DEF Inv, TypeOK, Client, Counted, CloseSession, account, reattaching, sessionStore,
              uiStore, gateway
<1>4. ASSUME NEW g \in Tag, g.who # "reattach", Ask(net, waits, g),
             UNCHANGED <<down, account, reattaching, shown, sessionStore, uiStore, stores,
                         gateway, crossed>>
      PROVE  Inv'
  <2>1. net' \in Client /\ waits' \in SUBSET Tag /\ waits' = waits \cup {g}
    BY <1>1, <1>4, AskType
  <2>2. LoopInv'
    BY <1>4, <2>1, LoopAsks DEF reattaching
  <2> QED BY SMTT(60), <1>2, <1>4, <2>1, <2>2
          DEF Inv, TypeOK, Client, Counted, account, reattaching, sessionStore, uiStore, stores,
              gateway
<1>5. CASE \E click \in Clicks : ReopenSession(click)
  <2>1. PICK click \in Clicks : ReopenSession(click)
    BY <1>5
  <2>2. PICK g : g = For(click, activeTab)
    OBVIOUS
  <2>3. g \in Tag /\ g.who # "reattach"
    <3>1. activeTab \in Session /\ click \in {"reattach", "select", "nobody"} \cup Clicks
      BY <1>1, <2>1 DEF ReopenSession
    <3>2. g \in Tag /\ g.who = click
      BY <2>2, <3>1, ForType
    <3> QED
      BY <3>2, ClicksApart
  <2>4. /\ Ask(net, waits, g)
        /\ UNCHANGED <<down, account, reattaching, shown, sessionStore, uiStore, stores,
                       gateway, crossed>>
    BY <2>1, <2>2 DEF ReopenSession
  <2> QED
    BY <1>4, <2>3, <2>4
<1>6. CASE \E c \in Chars : Select(c)
  <2>1. PICK c \in Chars : Select(c)
    BY <1>6
  <2> DEFINE g == For("select", [c |-> c, n |-> 0])
  <2>2. g \in Tag /\ g.who = "select"
    BY ConstantsAssumption DEF For, Tag
  <2>3. Ask(net, waits, g)
    BY <2>1 DEF Select
  <2>4. UNCHANGED <<down, account, reattaching, shown, sessionStore, uiStore, stores,
                    gateway, crossed>>
    BY <2>1 DEF Select
  <2> HIDE DEF g
  <2> QED BY <1>4, <2>2, <2>3, <2>4
<1> QED BY <1>3, <1>5, <1>6
-----------------------------------------------------------------------------
(* What the gateway says. *)
LEMMA MessageTypes ==
    ASSUME down \in Seq(Downward), down # <<>>
    PROVE  /\ Tail(down) \in Seq(Downward)
           /\ Message \in Downward
           /\ Message.t = "auth" => Message.ok \in BOOLEAN
           /\ Message.t = "opened" => Message.s \in Session
           /\ Message.t = "snapshot" => Message.s \in Session /\ Message.v \in [Kinds -> Value]
           /\ Message.t = "connection" =>
                 Message.s \in Session /\ Message.v \in {"connected", "closed"}
           /\ Message.t = "error" => Message.s \in Session
           /\ Message.t = "event" =>
                 Message.s \in Session /\ Message.k \in Kinds /\ Message.v \in Value
<1> DEFINE D == Downward
<1> HIDE DEF D
<1>1. down \in Seq(D) /\ down # <<>>
  BY DEF D
<1>2. Tail(down) \in Seq(D) /\ Message \in D
  BY <1>1 DEF Message
<1>3. Tail(down) \in Seq(Downward) /\ Message \in Downward
  BY <1>2 DEF D
<1> QED BY <1>3 DEF Downward

LEMMA StoredType ==
    ASSUME NEW k, NEW old \in Value, NEW new \in Value
    PROVE  Stored(k, old, new) \in Value /\ Restored(k, old, new) \in Value
  BY DEF Stored, Restored, SetMode, SetNotice

LEMMA ReceiveAuthStep == TypeOK /\ LoopInv /\ ReceiveAuth => Inv'
<1> SUFFICES ASSUME TypeOK, LoopInv, ReceiveAuth PROVE Inv'
  OBVIOUS
<1>1. net \in Client
  BY DEF TypeOK, Client
<1>2. net' \in Client
  BY <1>1, ClientChanges, ClientTypes DEF ReceiveAuth, Granted
<1>3. token' \in BOOLEAN /\ (activeTab' = activeTab \/ activeTab' = None)
  BY DEF ReceiveAuth, TypeOK
<1>4. down' \in Seq(Downward)
  BY MessageTypes DEF ReceiveAuth, Take, TypeOK
<1>5. UNCHANGED <<waits, loggedIn, busy, leaving, reattaching, shown, sessionStore, errors, urgent,
                  stores, gateway, bounds>>
  BY DEF ReceiveAuth
<1>6. LoopInv'
  BY <1>5, LoopKept DEF reattaching
<1> QED BY <1>2, <1>3, <1>4, <1>5, <1>6
        DEF Inv, TypeOK, Client, reattaching, sessionStore, stores, gateway, bounds

LEMMA AddedType ==
    ASSUME NEW q \in Seq(Session), NEW s \in Session, NEW tag
    PROVE  /\ Added(q, s) \in Seq(Session) /\ Replaced(q, tag, s) \in Seq(Session)
           /\ ToSet(Added(q, s)) = ToSet(q) \cup {s}
           /\ ToSet(q) \cup {s} \subseteq ToSet(Replaced(q, tag, s)) \cup {tag.s}
           /\ s \in ToSet(Replaced(q, tag, s))
<1> DEFINE S == Session
<1> HIDE DEF S
<1>0. q \in Seq(S) /\ s \in S
  BY DEF S
<1>1. Added(q, s) \in Seq(S)
  BY <1>0 DEF Added
<1>2. ToSet(Added(q, s)) = ToSet(q) \cup {s}
  <2>1. CASE Contains(q, s)
    BY <1>0, <2>1 DEF Added, ToSet, Contains
  <2>2. CASE ~Contains(q, s)
    <3>1. /\ Added(q, s) = Append(q, s) /\ Len(Append(q, s)) = Len(q) + 1
          /\ \A i \in 1..Len(q) : Append(q, s)[i] = q[i]
          /\ Append(q, s)[Len(q) + 1] = s
      BY <1>0, <2>2 DEF Added
    <3>2. 1..Len(q) + 1 = (1..Len(q)) \cup {Len(q) + 1}
      BY <1>0
    <3> QED BY <3>1, <3>2 DEF ToSet
  <2> QED BY <2>1, <2>2
<1>3. CASE ~(tag.s # s /\ Contains(q, tag.s))
  BY <1>1, <1>2, <1>3 DEF Replaced, S
<1>4. CASE tag.s # s /\ Contains(q, tag.s)
  <2> DEFINE r == Added(q, s)
             i == CHOOSE i \in DOMAIN q : q[i] = tag.s
  <2>1. i \in DOMAIN q /\ q[i] = tag.s
    BY <1>0, <1>4 DEF Contains
  <2>2. DOMAIN q \subseteq DOMAIN r /\ \A j \in DOMAIN q : r[j] = q[j]
    BY <1>0 DEF Added
  <2>3. i \in 1..Len(r) /\ r[i] = tag.s /\ r \in Seq(S)
    BY <1>1, <2>1, <2>2
  <2>4. Replaced(q, tag, s) = RemoveAt(r, i)
    BY <1>4 DEF Replaced
  <2>5. s \in ToSet(r) /\ ToSet(r) = ToSet(q) \cup {s}
    BY <1>2
  <2> HIDE DEF r, i
  <2>6. RemoveAt(r, i) \in Seq(S)
    BY <2>3 DEF RemoveAt
  <2>7. ASSUME NEW j \in 1..Len(r), j # i PROVE r[j] \in ToSet(RemoveAt(r, i))
    <3> DEFINE a == SubSeq(r, 1, i - 1)
               b == SubSeq(r, i + 1, Len(r))
    <3>1. /\ a \in Seq(S) /\ b \in Seq(S) /\ Len(a) = i - 1 /\ Len(b) = Len(r) - i
          /\ \A k \in 1..i - 1 : a[k] = r[k]
          /\ \A k \in 1..Len(r) - i : b[k] = r[i + k]
      BY <2>3
    <3>2. RemoveAt(r, i) = a \o b
      BY DEF RemoveAt
    <3> HIDE DEF a, b
    <3>3. CASE j < i
      <4>1. j \in DOMAIN (a \o b) /\ (a \o b)[j] = r[j]
        BY <2>3, <3>1, <3>3
      <4> QED BY <3>2, <4>1 DEF ToSet
    <3>4. CASE j > i
      <4> DEFINE k == j - i
      <4>0. k \in 1..Len(r) - i /\ i + k = j /\ j - 1 = (i - 1) + k /\ k \in Nat
        <5>1. Len(r) \in Nat /\ i \in Nat /\ j \in Nat /\ j =< Len(r)
          BY <2>3, <2>7
        <5> QED BY <3>4, <5>1
      <4> HIDE DEF k
      <4>1. b[k] = r[j]
        BY <3>1, <4>0
      <4>2. k \in 1..Len(b) /\ j - 1 = Len(a) + k
        BY <3>1, <4>0
      <4>3. j - 1 \in DOMAIN (a \o b) /\ (a \o b)[j - 1] = b[k]
        BY <3>1, <4>0, <4>2
      <4> QED BY <3>2, <4>1, <4>3 DEF ToSet
    <3> QED BY <2>3, <2>7, <3>3, <3>4
  <2>8. ToSet(r) \subseteq ToSet(RemoveAt(r, i)) \cup {tag.s}
    BY <2>3, <2>7 DEF ToSet
  <2> QED BY <1>1, <1>2, <1>4, <2>4, <2>5, <2>6, <2>8 DEF r, S
<1> QED BY <1>3, <1>4

LEMMA ReceiveOpenedStep == TypeOK /\ LoopInv /\ ReceiveOpened => Inv'
<1> SUFFICES ASSUME TypeOK, LoopInv, ReceiveOpened PROVE Inv'
  OBVIOUS
<1> DEFINE tag == Message.for
           s == SessionOf(Message)
<1>1. net \in Client /\ waits \in SUBSET Tag /\ todo \in Seq(Session) /\ tabs \in Seq(Session)
  BY DEF TypeOK, Client
<1>2. s \in Session /\ down' \in Seq(Downward)
  BY MessageTypes DEF ReceiveOpened, Take, SessionOf, TypeOK
<1>3. UNCHANGED <<account, first, shown, errors, urgent, stores, gateway, bounds>>
  BY DEF ReceiveOpened
<1>4. /\ net' \in Client /\ waits' \in SUBSET Tag /\ loop' \in BOOLEAN
      /\ todo' \in Seq(Session) /\ LoopInv'
      /\ tabs' \in Seq(Session)
      /\ active' \in Session \cup {None} /\ activeTab' \in Session \cup {None}
  <2>1. CASE tag \notin waits
    <3>1. UNCHANGED <<client, sessionStore, activeTab, loop, todo>>
      BY <2>1 DEF ReceiveOpened
    <3>2. LoopInv'
      BY <3>1, LoopKept DEF client
    <3> QED BY <1>1, <3>1, <3>2 DEF TypeOK, client, sessionStore
  <2>2. CASE tag \in waits
    <3>0. active' = s /\ Resumed(s, tag)
      BY <2>2 DEF ReceiveOpened
    <3> HIDE DEF tag, s
    <3>1. CASE tag.who = "reattach"
      <4>1. LoopOn(net, waits \ {tag}, todo) /\ tabs' = Added(tabs, s) /\ UNCHANGED activeTab
        BY <3>0, <3>1, ClicksApart DEF Resumed
      <4>2. \A h \in waits \ {tag} : h.who # "reattach"
        BY <2>2, <3>1, OthersRemain
      <4>3. waits \ {tag} \in SUBSET Tag
        BY <1>1
      <4>4. /\ net' \in Client /\ waits' \in SUBSET Tag /\ loop' \in BOOLEAN
            /\ todo' \in Seq(Session) /\ LoopInv'
        BY <1>1, <4>1, <4>2, <4>3, LoopOnStep
      <4>5. tabs' \in Seq(Session)
        BY <1>1, <1>2, <4>1, AddedType
      <4> QED BY <1>2, <3>0, <4>1, <4>4, <4>5 DEF TypeOK
    <3>2. CASE tag.who # "reattach"
      <4>1. /\ tabs' = Replaced(tabs, tag, s) /\ activeTab' = s /\ waits' = waits \ {tag}
            /\ UNCHANGED <<net, loop, todo>>
        BY <3>0, <3>2 DEF Resumed
      <4>2. LoopInv'
        BY <3>2, <4>1, LoopSettles
      <4>3. tabs' \in Seq(Session)
        BY <1>1, <1>2, <4>1, AddedType
      <4> QED BY <1>1, <1>2, <3>0, <4>1, <4>2, <4>3 DEF TypeOK
    <3> QED BY <3>1, <3>2
  <2> QED BY <2>1, <2>2
<1> HIDE DEF tag, s
<1> QED BY <1>2, <1>3, <1>4 DEF Inv, TypeOK, Client, account, stores, gateway, bounds

LEMMA ReceiveRefusedStep == TypeOK /\ LoopInv /\ ReceiveRefused => Inv'
<1> SUFFICES ASSUME TypeOK, LoopInv, ReceiveRefused PROVE Inv'
  OBVIOUS
<1> DEFINE tag == Message.for
<1>1. net \in Client
  BY DEF TypeOK, Client
<1>2. down' \in Seq(Downward)
  BY MessageTypes DEF ReceiveRefused, Take, TypeOK
<1>3. UNCHANGED <<account, first, shown, sessionStore, activeTab, urgent, stores, gateway, bounds>>
  BY DEF ReceiveRefused
<1>4. /\ net' \in Client /\ waits' \in SUBSET Tag /\ loop' \in BOOLEAN
      /\ todo' \in Seq(Session) /\ errors' \in [Session -> {"none", "shown", "dismissed"}]
      /\ LoopInv'
  <2>1. CASE tag \notin waits
    <3>1. UNCHANGED <<client, errors, loop, todo>>
      BY <2>1 DEF ReceiveRefused
    <3>2. LoopInv'
      BY <3>1, LoopKept DEF client
    <3> QED BY <1>1, <3>1, <3>2 DEF TypeOK, client
  <2>2. CASE tag \in waits
    <3>1. Rejected(net, waits \ {tag}, {tag})
      BY <2>2 DEF ReceiveRefused
    <3> HIDE DEF tag
    <3> QED BY <1>1, <2>2, <3>1, RejectedStep
  <2> QED BY <2>1, <2>2
<1> HIDE DEF tag
<1> QED BY <1>2, <1>3, <1>4
        DEF Inv, TypeOK, Client, account, sessionStore, stores, gateway, bounds

(* What changes the state of a session. *)
LEMMA ReceiveStateStep ==
    ASSUME TypeOK, LoopInv,
           ReceiveSnapshot \/ ReceiveEvent \/ ReceiveConnection \/ ReceiveError
    PROVE  Inv'
<1>1. down' \in Seq(Downward)
  BY MessageTypes DEF ReceiveSnapshot, ReceiveEvent, ReceiveConnection, ReceiveError, Take, TypeOK
<1>2. LoopInv'
  BY LoopKept DEF ReceiveSnapshot, ReceiveEvent, ReceiveConnection, ReceiveError,
                  client, reattaching
<1>3. /\ down # <<>> /\ down \in Seq(Downward)
      /\ store \in [Session -> [Kinds -> Value]]
  BY DEF ReceiveSnapshot, ReceiveEvent, ReceiveConnection, ReceiveError, Take, TypeOK
<1>4. CASE ReceiveSnapshot
  <2>1. Message.s \in Session /\ Message.v \in [Kinds -> Value]
    BY <1>3, <1>4, MessageTypes DEF ReceiveSnapshot, Take
  <2> DEFINE f == [k \in Kinds |-> Restored(k, store[Message.s][k], Message.v[k])]
  <2>2. f \in [Kinds -> Value]
    BY <1>3, <2>1, StoredType
  <2>3. store' = [store EXCEPT ![Message.s] = f]
    BY <1>4 DEF ReceiveSnapshot
  <2> HIDE DEF f
  <2>4. store' \in [Session -> [Kinds -> Value]]
    BY <1>3, <2>2, <2>3
  <2>5. UNCHANGED <<client, account, reattaching, shown, sessionStore, uiStore, conn,
                    gateway, bounds>>
    BY <1>4 DEF ReceiveSnapshot
  <2> QED BY <1>1, <1>2, <2>4, <2>5
          DEF Inv, TypeOK, client, account, reattaching, sessionStore, uiStore, gateway, bounds
<1>5. CASE ReceiveEvent
  <2> DEFINE s == Message.s
             k == Message.k
  <2>1. s \in Session /\ k \in Kinds /\ Message.v \in Value
    BY <1>3, <1>5, MessageTypes DEF ReceiveEvent, Take
  <2>2. Stored(k, store[s][k], Message.v) \in Value
    BY <1>3, <2>1, StoredType
  <2>3. store' = [store EXCEPT ![s][k] = Stored(k, store[s][k], Message.v)]
    BY <1>5 DEF ReceiveEvent
  <2>4. urgent' = urgent \cup {s} \/ urgent' = urgent
    BY <1>5 DEF ReceiveEvent
  <2>5. UNCHANGED <<client, account, reattaching, shown, sessionStore, activeTab,
                    errors, conn, gateway, bounds>>
    BY <1>5 DEF ReceiveEvent
  <2> HIDE DEF s, k
  <2>6. store' \in [Session -> [Kinds -> Value]]
    BY <1>3, <2>1, <2>2, <2>3
  <2> QED BY <1>1, <1>2, <2>1, <2>4, <2>5, <2>6
          DEF Inv, TypeOK, client, account, reattaching, sessionStore, gateway, bounds
<1>6. CASE ReceiveConnection
  <2>1. Message.s \in Session /\ Message.v \in {"connected", "closed"}
    BY <1>3, <1>6, MessageTypes DEF ReceiveConnection, Take
  <2>2. conn' \in [Session -> {"connecting", "connected", "closed"}]
    BY <1>6, <2>1 DEF ReceiveConnection, TypeOK
  <2> QED BY <1>1, <1>2, <1>6, <2>2
          DEF Inv, TypeOK, ReceiveConnection, client, account, reattaching, sessionStore, uiStore,
              gateway, bounds
<1>7. CASE ReceiveError
  <2>1. Message.s \in Session
    BY <1>3, <1>7, MessageTypes DEF ReceiveError, Take
  <2>2. errors' \in [Session -> {"none", "shown", "dismissed"}]
    BY <1>7, <2>1 DEF ReceiveError, TypeOK
  <2> QED BY <1>1, <1>2, <1>7, <2>2
          DEF Inv, TypeOK, ReceiveError, client, account, reattaching, sessionStore, stores,
              gateway, bounds
<1> QED BY <1>4, <1>5, <1>6, <1>7
-----------------------------------------------------------------------------
(* The gateway's actions. *)
LEMMA FromClientType ==
    ASSUME TypeOK, NEW t, FromClient(t)
    PROVE  /\ net' \in Client
           /\ t = "open" => Head(net.up).c \in Chars /\ Head(net.up).for \in Tag
           /\ t = "close" => Head(net.up).s \in Session
<1> DEFINE U == Upward
<1> HIDE DEF U
<1>1. net \in Client
  BY DEF TypeOK, Client
<1>2. net.up \in Seq(U) /\ net.up # <<>>
  BY <1>1, ClientChanges DEF U, FromClient
<1>3. Tail(net.up) \in Seq(U) /\ Head(net.up) \in U
  BY <1>2
<1>4. Tail(net.up) \in Seq(Upward) /\ Head(net.up) \in Upward /\ Head(net.up).t = t
  BY <1>3 DEF U, FromClient
<1>5. net' \in Client
  BY <1>1, <1>4, ClientChanges DEF FromClient
<1> QED BY <1>4, <1>5 DEF Upward

LEMMA SaidType ==
    ASSUME NEW q \in Seq(Downward)
    PROVE  /\ \A m \in Downward : Append(q, m) \in Seq(Downward)
           /\ \A m, n \in Downward : q \o <<m, n>> \in Seq(Downward)
           /\ \A m, n, o \in Downward :
                 q \o <<m>> \o <<n, o>> \in Seq(Downward)
                 /\ q \o <<n, o>> \o <<m>> \in Seq(Downward)
<1> DEFINE D == Downward
<1> HIDE DEF D
<1>1. q \in Seq(D)
  BY DEF D
<1>2. \A m \in D : Append(q, m) \in Seq(D)
  BY <1>1
<1>3. \A m, n \in D : <<m>> \in Seq(D) /\ <<m, n>> \in Seq(D)
  OBVIOUS
<1>4. \A p, r \in Seq(D) : p \o r \in Seq(D)
  OBVIOUS
<1>5. \A m, n, o \in D : /\ q \o <<m, n>> \in Seq(D)
                        /\ q \o <<m>> \o <<n, o>> \in Seq(D)
                        /\ q \o <<n, o>> \o <<m>> \in Seq(D)
  BY <1>1, <1>3, <1>4
<1> QED BY <1>2, <1>5 DEF D

LEMMA AnsweredType ==
    ASSUME down \in Seq(Downward), NEW s \in Session, NEW v \in [Kinds -> Value], NEW tag \in Tag,
           Answered(s, v, tag)
    PROVE  down' \in Seq(Downward)
<1> DEFINE m == [t |-> "opened", s |-> s, for |-> tag]
           n == [t |-> "connection", s |-> s, v |-> "connected"]
           o == [t |-> "snapshot", s |-> s, v |-> Snapshot(v)]
<1>1. Snapshot(v) \in [Kinds -> Value]
  BY DEF Snapshot, Value
<1>2. m \in Downward /\ n \in Downward /\ o \in Downward
  BY <1>1 DEF Downward
<1>3. down' \in {down \o <<m>> \o <<n, o>>, down \o <<n, o>> \o <<m>>}
  BY DEF Answered
<1> HIDE DEF m, n, o
<1> QED BY <1>2, <1>3, SaidType

(* The controller's state while only the gateway acts. *)
LEMMA UiKept ==
    ASSUME TypeOK, LoopInv, UNCHANGED ui, net' \in Client, down' \in Seq(Downward),
           live' \in [Chars -> 0..MaxGen], gen' \in [Chars -> 0..MaxGen],
           game' \in [Chars -> [Kinds -> Value]], attached' \in SUBSET Chars,
           authed' \in BOOLEAN, crossed' \in BOOLEAN, count' \in Counted
    PROVE  Inv'
<1>1. LoopInv'
  BY LoopKept DEF ui, reattaching
<1> QED BY SMTT(60), <1>1
        DEF Inv, TypeOK, Client, Counted, ui, account, reattaching, sessionStore, uiStore, stores

LEMMA GatewayStep ==
    ASSUME TypeOK, LoopInv, Gateway \/ GatewayAuth(FALSE)
    PROVE  Inv'
<1>1. /\ down \in Seq(Downward) /\ count \in Counted /\ crossed \in BOOLEAN
      /\ live \in [Chars -> 0..MaxGen] /\ gen \in [Chars -> 0..MaxGen]
      /\ game \in [Chars -> [Kinds -> Value]] /\ attached \in SUBSET Chars
      /\ authed \in BOOLEAN
  BY DEF TypeOK, Counted
<1>2. ASSUME NEW ok \in BOOLEAN, GatewayAuth(ok) PROVE Inv'
  <2>1. net' \in Client
    BY <1>2, FromClientType DEF GatewayAuth
  <2>2. [t |-> "auth", ok |-> ok] \in Downward
    BY DEF Downward
  <2>3. down' \in Seq(Downward)
    BY <1>1, <1>2, <2>2, SaidType DEF GatewayAuth
  <2>4. authed' \in BOOLEAN
    BY <1>1, <1>2 DEF GatewayAuth
  <2>5. UNCHANGED <<ui, live, gen, game, attached, bounds>>
    BY <1>2 DEF GatewayAuth
  <2> QED BY <1>1, <2>1, <2>3, <2>4, <2>5, UiKept DEF bounds
<1>3. CASE GatewayReattaches
  <2> DEFINE c == Head(net.up).c
             s == [c |-> c, n |-> live[c]]
  <2>1. net' \in Client /\ c \in Chars /\ Head(net.up).for \in Tag
    BY <1>3, FromClientType DEF GatewayReattaches
  <2>2. live[c] > 0 /\ Answered(s, game[c], Head(net.up).for) /\ attached' = attached \cup {c}
    BY <1>3 DEF GatewayReattaches
  <2>3. live[c] \in 1..MaxGen /\ game[c] \in [Kinds -> Value]
    BY <1>1, <2>1, <2>2, ConstantsAssumption
  <2>4. s \in Session
    BY <2>1, <2>3, SessionFacts
  <2>5. UNCHANGED <<ui, live, gen, game, authed, bounds>>
    BY <1>3 DEF GatewayReattaches
  <2> HIDE DEF c, s
  <2>6. down' \in Seq(Downward)
    BY <1>1, <2>1, <2>2, <2>3, <2>4, AnsweredType
  <2> QED BY <1>1, <2>1, <2>2, <2>5, <2>6, UiKept DEF bounds
<1>4. CASE GatewayOpens
  <2> DEFINE c == Head(net.up).c
             s == [c |-> c, n |-> gen[c] + 1]
  <2>1. net' \in Client /\ c \in Chars /\ Head(net.up).for \in Tag
    BY <1>4, FromClientType DEF GatewayOpens
  <2>2. /\ gen[c] < MaxGen /\ Answered(s, Unset, Head(net.up).for)
        /\ gen' = [gen EXCEPT ![c] = gen[c] + 1] /\ live' = [live EXCEPT ![c] = gen[c] + 1]
        /\ game' = [game EXCEPT ![c] = Unset] /\ attached' = attached \cup {c}
    BY <1>4 DEF GatewayOpens
  <2>3. gen[c] + 1 \in 1..MaxGen /\ gen[c] + 1 \in 0..MaxGen
    BY <1>1, <2>1, <2>2, ConstantsAssumption
  <2>4. s \in Session /\ Unset \in [Kinds -> Value]
    BY <2>1, <2>3, SessionFacts
  <2>5. UNCHANGED <<ui, authed, bounds>>
    BY <1>4 DEF GatewayOpens
  <2> HIDE DEF c, s
  <2>6. down' \in Seq(Downward)
    BY <1>1, <2>1, <2>2, <2>4, AnsweredType
  <2>7. live' \in [Chars -> 0..MaxGen] /\ gen' \in [Chars -> 0..MaxGen]
    BY <1>1, <2>2, <2>3
  <2>8. game' \in [Chars -> [Kinds -> Value]] /\ attached' \in SUBSET Chars
    BY <1>1, <2>1, <2>2, <2>4
  <2> QED BY <1>1, <2>1, <2>5, <2>6, <2>7, <2>8, UiKept DEF bounds
<1>5. CASE GatewayRefuses
  <2>1. net' \in Client /\ Head(net.up).for \in Tag
    BY <1>5, FromClientType DEF GatewayRefuses
  <2>2. [t |-> "refused", for |-> Head(net.up).for] \in Downward
    BY <2>1 DEF Downward
  <2>3. down' \in Seq(Downward)
    BY <1>1, <1>5, <2>2, SaidType DEF GatewayRefuses
  <2>4. UNCHANGED <<ui, gateway, bounds>>
    BY <1>5 DEF GatewayRefuses
  <2> QED BY <1>1, <2>1, <2>3, <2>4, UiKept DEF gateway, bounds
<1>6. CASE GatewayCloses
  <2> DEFINE s == Head(net.up).s
             m == [t |-> "connection", s |-> s, v |-> "closed"]
             e == [t |-> "error", s |-> s]
  <2>1. net' \in Client /\ s \in Session
    BY <1>6, FromClientType DEF GatewayCloses
  <2>2. m \in Downward /\ e \in Downward
    BY <2>1 DEF Downward
  <2>3. /\ down' \in {down, Append(down, m), Append(down, e)}
        /\ live' \in {live, [live EXCEPT ![s.c] = 0]}
        /\ attached' \subseteq attached
    BY <1>6 DEF GatewayCloses, Gone
  <2>4. UNCHANGED <<ui, gen, game, authed, bounds>>
    BY <1>6 DEF GatewayCloses
  <2> HIDE DEF s, m, e
  <2>5. down' \in Seq(Downward)
    <3>1. Append(down, m) \in Seq(Downward) /\ Append(down, e) \in Seq(Downward)
      BY <1>1, <2>2, SaidType
    <3> QED BY <1>1, <2>3, <3>1
  <2>6. live' \in [Chars -> 0..MaxGen]
    BY <1>1, <2>3, ConstantsAssumption
  <2> QED BY <1>1, <2>1, <2>3, <2>4, <2>5, <2>6, UiKept DEF bounds
<1> QED BY <1>2, <1>3, <1>4, <1>5, <1>6 DEF Gateway

LEMMA GameStep ==
    ASSUME TypeOK, LoopInv,
           \/ \E c \in Chars, k \in Kinds, v \in Value : GameEvent(c, k, v)
           \/ \E c \in Chars : SessionLost(c)
    PROVE  Inv'
<1>1. /\ net \in Client /\ down \in Seq(Downward) /\ crossed \in BOOLEAN
      /\ live \in [Chars -> 0..MaxGen] /\ gen \in [Chars -> 0..MaxGen]
      /\ game \in [Chars -> [Kinds -> Value]] /\ attached \in SUBSET Chars
      /\ authed \in BOOLEAN
  BY DEF TypeOK, Client
<1>2. count' \in Counted
  BY SpendType DEF GameEvent, SessionLost
<1>3. \A c \in Chars : live[c] > 0 => [c |-> c, n |-> live[c]] \in Session
  <2>1. \A c \in Chars : live[c] > 0 => live[c] \in 1..MaxGen
    BY <1>1, ConstantsAssumption
  <2> QED BY <2>1, SessionFacts
<1>4. ASSUME NEW c \in Chars, NEW k \in Kinds, NEW v \in Value, GameEvent(c, k, v)
      PROVE  Inv'
  <2> DEFINE m == [t |-> "event", s |-> [c |-> c, n |-> live[c]], k |-> k, v |-> v]
  <2>1. live[c] > 0
    BY <1>4 DEF GameEvent
  <2>2. m \in Downward
    BY <1>3, <2>1 DEF Downward
  <2>3. down' \in {down, Append(down, m)} /\ game' = [game EXCEPT ![c][k] = Stored(k, game[c][k], v)]
    BY <1>4 DEF GameEvent
  <2>4. UNCHANGED <<ui, net, live, gen, attached, authed, crossed>>
    BY <1>4 DEF GameEvent
  <2> HIDE DEF m
  <2>5. down' \in Seq(Downward)
    BY <1>1, <2>2, <2>3, SaidType
  <2>6. Stored(k, game[c][k], v) \in Value
    BY <1>1, StoredType
  <2>7. game' \in [Chars -> [Kinds -> Value]]
    BY <1>1, <2>3, <2>6
  <2> QED BY <1>1, <1>2, <2>4, <2>5, <2>7, UiKept
<1>5. ASSUME NEW c \in Chars, SessionLost(c) PROVE Inv'
  <2> DEFINE m == [t |-> "connection", s |-> [c |-> c, n |-> live[c]], v |-> "closed"]
             e == [t |-> "error", s |-> [c |-> c, n |-> live[c]]]
  <2>1. live[c] > 0
    BY <1>5 DEF SessionLost
  <2>2. m \in Downward /\ e \in Downward
    BY <1>3, <2>1 DEF Downward
  <2>3. /\ down' \in {down, down \o <<m, e>>}
        /\ live' = [live EXCEPT ![c] = 0] /\ attached' \subseteq attached
    BY <1>5 DEF SessionLost, Gone
  <2>4. UNCHANGED <<ui, net, gen, game, authed, crossed>>
    BY <1>5 DEF SessionLost
  <2> HIDE DEF m, e
  <2>5. down' \in Seq(Downward)
    BY <1>1, <2>2, <2>3, SaidType
  <2>6. live' \in [Chars -> 0..MaxGen]
    BY <1>1, <2>3, ConstantsAssumption
  <2> QED BY <1>1, <1>2, <2>3, <2>4, <2>5, <2>6, UiKept
<1> QED BY <1>4, <1>5
-----------------------------------------------------------------------------
LEMMA LeavingStep == TypeOK /\ LeavingInv /\ [Next]_vars => LeavingInv'
<1> SUFFICES ASSUME TypeOK, LeavingInv, [Next]_vars PROVE LeavingInv'
  OBVIOUS
<1>1. /\ leaving \in Nat /\ count.ops \in Nat /\ count \in Counted
  BY ConstantsAssumption DEF TypeOK, Counted
<1>2. ASSUME UNCHANGED <<leaving, count>> PROVE LeavingInv'
  BY <1>2 DEF LeavingInv
<1>3. ASSUME UNCHANGED leaving,
             \/ Spend("closes", MaxCloses) \/ Spend("ops", MaxOps) \/ Spend("events", MaxEvents)
      PROVE  LeavingInv'
  <2>1. count'.ops \in Nat /\ count'.ops >= count.ops
    BY <1>1, <1>3 DEF Spend, Counted
  <2> QED BY <1>1, <1>3, <2>1 DEF LeavingInv
<1>4. CASE Logout
  BY <1>1, <1>4 DEF Logout, Spend, Counted, LeavingInv
<1>5. CASE LoggedOut
  BY <1>1, <1>5 DEF LoggedOut, LeavingInv, bounds
<1>6. CASE SocketCloses \/ Login \/ CloseSession \/ (\E click \in Clicks : ReopenSession(click))
           \/ (\E c \in Chars : Select(c) \/ SessionLost(c))
           \/ (\E c \in Chars, k \in Kinds, v \in Value : GameEvent(c, k, v))
  BY <1>3, <1>6 DEF SocketCloses, Login, CloseSession, ReopenSession, Select, SessionLost,
                    GameEvent, account, ui
<1>7. CASE \/ SocketOpens \/ ReconnectNow \/ (\E tag \in waits : RequestTimesOut(tag))
           \/ (\E ok \in BOOLEAN : LoginEnds(ok))
           \/ (\E s \in Session : SelectTab(s) \/ DismissError(s))
  BY <1>2, <1>7 DEF SocketOpens, ReconnectNow, RequestTimesOut, LoginEnds, SelectTab,
                    DismissError, account, bounds
<1>8. CASE Receive
  BY <1>2, <1>8 DEF Receive, ReceiveAuth, ReceiveOpened, ReceiveRefused, ReceiveSnapshot,
                    ReceiveEvent, ReceiveConnection, ReceiveError, account, bounds
<1>9. CASE Gateway \/ GatewayAuth(FALSE)
  BY <1>2, <1>9 DEF Gateway, GatewayAuth, GatewayReattaches, GatewayOpens, GatewayRefuses,
                    GatewayCloses, ui, account, bounds
<1>10. CASE UNCHANGED vars
  BY <1>2, <1>10 DEF vars
<1> QED BY <1>4, <1>5, <1>6, <1>7, <1>8, <1>9, <1>10 DEF Next

LEMMA InvInit == Init => Inv /\ LeavingInv
<1> SUFFICES ASSUME Init PROVE Inv /\ LeavingInv
  OBVIOUS
<1>1. net \in Client
  BY DEF Init, Client, Unlinked
<1>2. /\ down \in Seq(Downward) /\ todo \in Seq(Session) /\ tabs \in Seq(Session)
  BY DEF Init
<1>3. /\ store \in [Session -> [Kinds -> Value]] /\ game \in [Chars -> [Kinds -> Value]]
      /\ errors \in [Session -> {"none", "shown", "dismissed"}]
      /\ conn \in [Session -> {"connecting", "connected", "closed"}]
  BY SessionFacts DEF Init
<1>4. /\ live \in [Chars -> 0..MaxGen] /\ gen \in [Chars -> 0..MaxGen]
      /\ count \in Counted /\ leaving \in 0..MaxOps /\ LeavingInv
  BY ConstantsAssumption DEF Init, Counted, LeavingInv
<1>5. LoopInv
  BY DEF Init, LoopInv, LoopWaits
<1>6. token \in BOOLEAN /\ loggedIn \in BOOLEAN /\ busy \in BOOLEAN
  BY DEF Init
<1>7. /\ waits = {} /\ first = FALSE /\ loop = FALSE /\ shown = "idle" /\ active = None
      /\ activeTab = None /\ urgent = {} /\ attached = {} /\ authed = FALSE /\ crossed = FALSE
  BY DEF Init
<1> QED BY <1>1, <1>2, <1>3, <1>4, <1>5, <1>6, <1>7 DEF Inv, TypeOK, Client, Counted

LEMMA InvStep == Inv /\ LeavingInv /\ [Next]_vars => Inv'
<1> SUFFICES ASSUME TypeOK, LoopInv, LeavingInv, [Next]_vars PROVE Inv'
  BY DEF Inv
<1>0. Inv
  BY DEF Inv
<1>1. CASE SocketOpens \/ SocketCloses \/ \E tag \in waits : RequestTimesOut(tag)
  BY <1>0, <1>1, SocketOpensStep, SocketClosesStep, TimeoutStep
<1>2. CASE \/ ReconnectNow \/ Login \/ (\E ok \in BOOLEAN : LoginEnds(ok)) \/ LoggedOut
           \/ \E s \in Session : SelectTab(s) \/ DismissError(s)
  BY <1>2, ButtonsStep
<1>3. CASE Logout
  BY <1>3, LogoutStep
<1>4. CASE \/ CloseSession
           \/ \E click \in Clicks : ReopenSession(click)
           \/ \E c \in Chars : Select(c)
  BY <1>4, RequestsStep
<1>5. CASE Receive
  BY <1>5, ReceiveAuthStep, ReceiveOpenedStep, ReceiveRefusedStep, ReceiveStateStep DEF Receive
<1>6. CASE Gateway \/ GatewayAuth(FALSE)
  BY <1>6, GatewayStep
<1>7. CASE \/ \E c \in Chars : SessionLost(c)
           \/ \E c \in Chars, k \in Kinds, v \in Value : GameEvent(c, k, v)
  BY <1>7, GameStep
<1>8. CASE UNCHANGED vars
  <2>1. LoopInv'
    BY <1>8, LoopKept DEF vars
  <2>2. TypeOK'
    BY <1>8 DEF TypeOK, vars
  <2> QED BY <2>1, <2>2 DEF Inv
<1> QED BY <1>1, <1>2, <1>3, <1>4, <1>5, <1>6, <1>7, <1>8 DEF Next

THEOREM Invariance == Spec => [](Inv /\ LeavingInv)
<1>1. Inv /\ LeavingInv /\ [Next]_vars => LeavingInv'
  BY LeavingStep DEF Inv
<1> QED BY <1>1, InvInit, InvStep, PTL DEF Spec
-----------------------------------------------------------------------------
(* Every variable keeps its type: what is sent and shown is a message, a   *)
(* session, a promise of the code's, within every bound.                   *)
THEOREM TypeCorrect == Spec => []TypeOK
<1>1. Inv => TypeOK
  BY DEF Inv
<1> QED BY <1>1, Invariance, PTL

(* reattach() is never stuck: while it goes on, one of its requests is     *)
(* pending.                                                                *)
THEOREM LoopNeverStuck == Spec => []LoopWaits
<1>1. Inv => LoopWaits
  BY DEF Inv, LoopInv
<1> QED BY <1>1, Invariance, PTL
-----------------------------------------------------------------------------
(* Tabs leave with a logout, or one by one when another is shown instead.  *)
LEMMA ShownStep == TypeOK /\ ShownTabExists /\ [Next]_vars => ShownTabExists'
<1> SUFFICES ASSUME TypeOK, ShownTabExists, [Next]_vars PROVE ShownTabExists'
  OBVIOUS
<1> USE DEF ShownTabExists
<1>1. ASSUME UNCHANGED <<sessionStore, activeTab>> PROVE ShownTabExists'
  BY <1>1 DEF sessionStore
<1>2. CASE Logout
  BY <1>2 DEF Logout
<1>3. CASE \E s \in Session : SelectTab(s)
  BY <1>3 DEF SelectTab, Contains, ToSet
<1>4. CASE ReceiveAuth
  BY <1>4 DEF ReceiveAuth, sessionStore
<1>5. CASE ReceiveOpened
  <2> DEFINE s == SessionOf(Message)
             tag == Message.for
  <2>1. CASE tag \notin waits
    BY <1>1, <1>5, <2>1 DEF ReceiveOpened
  <2>2. CASE tag \in waits
    <3>1. active' = s /\ Resumed(s, tag)
      BY <1>5, <2>2 DEF ReceiveOpened
    <3>2. s \in Session /\ tabs \in Seq(Session)
      BY <1>5, MessageTypes DEF ReceiveOpened, Take, SessionOf, TypeOK
    <3> HIDE DEF s, tag
    <3>3. CASE tag.who = "reattach"
      <4>1. tabs' = Added(tabs, s) /\ activeTab' = activeTab
        BY <3>1, <3>3, ClicksApart DEF Resumed
      <4>2. ToSet(tabs') = ToSet(tabs) \cup {s}
        BY <3>2, <4>1, AddedType
      <4> QED BY <3>1, <4>1, <4>2
    <3>4. CASE tag.who # "reattach"
      <4>1. tabs' = Replaced(tabs, tag, s) /\ activeTab' = s
        BY <3>1, <3>4 DEF Resumed
      <4>2. s \in ToSet(tabs')
        BY <3>2, <4>1, AddedType
      <4> QED BY <3>1, <4>1, <4>2
    <3> QED BY <3>3, <3>4
  <2> QED BY <2>1, <2>2
<1>6. CASE \/ ReceiveRefused \/ ReceiveSnapshot \/ ReceiveEvent \/ ReceiveConnection \/ ReceiveError
  BY <1>1, <1>6 DEF ReceiveRefused, ReceiveSnapshot, ReceiveEvent, ReceiveConnection,
                    ReceiveError, uiStore
<1>7. CASE \/ SocketOpens \/ SocketCloses \/ ReconnectNow \/ (\E tag \in waits : RequestTimesOut(tag))
           \/ Login \/ (\E ok \in BOOLEAN : LoginEnds(ok)) \/ LoggedOut
           \/ \E s \in Session : DismissError(s)
  BY <1>1, <1>7 DEF SocketOpens, SocketCloses, ReconnectNow, RequestTimesOut, Login, LoginEnds,
                    LoggedOut, DismissError, uiStore
<1>8. CASE \/ CloseSession
           \/ \E click \in Clicks : ReopenSession(click)
           \/ \E c \in Chars : Select(c)
  BY <1>1, <1>8 DEF CloseSession, ReopenSession, Select, uiStore
<1>9. CASE Gateway \/ GatewayAuth(FALSE)
  BY <1>1, <1>9 DEF Gateway, GatewayAuth, GatewayReattaches, GatewayOpens, GatewayRefuses,
                    GatewayCloses, ui, uiStore
<1>10. CASE \/ \E c \in Chars : SessionLost(c)
            \/ \E c \in Chars, k \in Kinds, v \in Value : GameEvent(c, k, v)
  BY <1>1, <1>10 DEF SessionLost, GameEvent, ui, uiStore
<1>11. CASE UNCHANGED vars
  BY <1>1, <1>11 DEF vars, sessionStore
<1> QED BY <1>2, <1>3, <1>4, <1>5, <1>6, <1>7, <1>8, <1>9, <1>10, <1>11 DEF Next, Receive

(* The tab on the screen and the focused session are tabs, through         *)
(* logout, reopening under a new session and late answers.                 *)
THEOREM ShownTabIsATab == Spec => []ShownTabExists
<1>1. Init => ShownTabExists
  BY DEF Init, ShownTabExists
<1> QED BY <1>1, ShownStep, TypeCorrect, PTL DEF Spec
-----------------------------------------------------------------------------
(* Queues of messages: what a message added, taken or renamed leaves in     *)
(* them.                                                                    *)
LEMMA ConcatAt ==
    ASSUME NEW S, NEW p \in Seq(S), NEW q \in Seq(S)
    PROVE  /\ p \o q \in Seq(S) /\ Len(p \o q) = Len(p) + Len(q)
           /\ \A i \in 1..Len(p) : (p \o q)[i] = p[i] /\ i \in 1..Len(p \o q)
           /\ \A i \in 1..Len(q) :
                (p \o q)[Len(p) + i] = q[i] /\ Len(p) + i \in 1..Len(p \o q)
           /\ \A i \in 1..Len(p \o q) :
                i \in 1..Len(p) \/ \E j \in 1..Len(q) : i = Len(p) + j
<1>1. /\ p \o q \in Seq(S) /\ Len(p \o q) = Len(p) + Len(q)
      /\ Len(p) \in Nat /\ Len(q) \in Nat
  OBVIOUS
<1>2. \A i \in 1..Len(p) : (p \o q)[i] = p[i] /\ i \in 1..Len(p \o q)
  BY <1>1
<1>3. ASSUME NEW i \in 1..Len(q)
      PROVE  (p \o q)[Len(p) + i] = q[i] /\ Len(p) + i \in 1..Len(p \o q)
  BY <1>1
<1>4. ASSUME NEW i \in 1..Len(p \o q), i \notin 1..Len(p)
      PROVE  \E j \in 1..Len(q) : i = Len(p) + j
  <2>1. i - Len(p) \in 1..Len(q) /\ i = Len(p) + (i - Len(p))
    BY <1>1, <1>4
  <2> QED
    BY <2>1
<1> QED
  BY <1>1, <1>2, <1>3, <1>4

LEMMA TailAt ==
    ASSUME NEW S, NEW q \in Seq(S), q # <<>>
    PROVE  /\ Tail(q) \in Seq(S) /\ Head(q) \in S /\ Head(q) = q[1] /\ 1 \in 1..Len(q)
           /\ \A i \in 1..Len(Tail(q)) : Tail(q)[i] = q[i + 1] /\ i + 1 \in 1..Len(q)
           /\ \A i \in 1..Len(q) :
                i = 1 \/ (i - 1 \in 1..Len(Tail(q)) /\ Tail(q)[i - 1] = q[i])
<1>1. /\ Tail(q) \in Seq(S) /\ Head(q) = q[1] /\ 1 \in 1..Len(q)
      /\ Len(Tail(q)) = Len(q) - 1 /\ Len(q) \in Nat
      /\ \A i \in 1..Len(Tail(q)) : Tail(q)[i] = q[i + 1] /\ i + 1 \in 1..Len(q)
  OBVIOUS
<1>2. ASSUME NEW i \in 1..Len(q), i # 1
      PROVE  i - 1 \in 1..Len(Tail(q)) /\ Tail(q)[i - 1] = q[i]
  <2>1. i - 1 \in 1..Len(Tail(q)) /\ (i - 1) + 1 = i
    BY <1>1, <1>2
  <2> QED
    BY <1>1, <2>1
<1> QED
  BY <1>1, <1>2
-----------------------------------------------------------------------------
(* An answer is for the character that was asked for; only a mode or a      *)
(* notice comes without its value.                                          *)
GoodUp == {m \in Upward : m.t = "open" => m.c = m.for.s.c}
GoodDown ==
    {m \in Downward :
        /\ m.t = "opened" => m.s.c = m.for.s.c
        /\ m.t = "event" /\ m.v = 0 => m.k \in {"mode", "notice"}}
GoodInv ==
    /\ net.outbox \in Seq(GoodUp) /\ net.up \in Seq(GoodUp)
    /\ down \in Seq(GoodDown)

(* A session that an answer or an event calls connected is attached, or its *)
(* end has been said after it.                                              *)
Closes(m, s) == m.t = "connection" /\ m.s = s /\ m.v = "closed"
Closing(q, s) == \E i \in 1..Len(q) : Closes(q[i], s)
Announces(m) == m.t = "opened" \/ (m.t = "connection" /\ m.v = "connected")
AnnounceInv ==
    \A i \in 1..Len(down) : Announces(down[i]) =>
        \/ Attached(down[i].s)
        \/ \E j \in 1..Len(down) : j > i /\ Closes(down[j], down[i].s)

(* Before the first socket there is nothing to reattach. *)
FirstInv ==
    ~first => ~net.link /\ net.up = <<>> /\ down = <<>> /\ tabs = <<>> /\ attached = {}

(* A tab is fed, or its end is known or on its way. *)
Known(s) == Attached(s) \/ conn[s] = "closed" \/ Closing(down, s)

(* The tabs are known, or named by a banner, or will be reattached; and     *)
(* reattach() asks for their character and no other.                        *)
Covered ==
    \/ \E s \in ToSet(tabs) : Known(s)
    \/ \E s \in ToSet(tabs), u \in Session : u.c = s.c /\ errors[u] # "none"
    \/ ~net.link /\ ~loop
    \/ \E g \in waits : g.who = "reattach"
LoopTabs ==
    loop => /\ tabs # <<>>
            /\ OneCharacter => \A s \in ToSet(tabs) :
                /\ \A g \in waits : g.who = "reattach" => g.s.c = s.c
                /\ \A t \in ToSet(todo) : t.c = s.c
CoverInv == ~crossed => LoopTabs /\ (tabs # <<>> /\ OneCharacter => Covered)

CInv == GoodInv /\ AnnounceInv /\ FirstInv /\ CoverInv

(* What the gateway says in one of its steps.                              *)
Speaks ==
    \/ Gateway \/ GatewayAuth(FALSE)
    \/ \E c \in Chars : SessionLost(c)
    \/ \E c \in Chars, k \in Kinds, v \in Value : GameEvent(c, k, v)

(* q tells what the step has changed about who is attached.                *)
Tells(q) ==
    /\ q \in Seq(GoodDown) /\ down' = down \o q
    /\ \A s \in Session : Attached(s) => Attached(s)' \/ Closing(q, s)
    /\ \A i \in 1..Len(q) : Announces(q[i]) => Attached(q[i].s)'
    /\ net.up = <<>> /\ attached = {} => q = <<>> /\ attached' = {}

LEMMA GoodTypes ==
    /\ \A q \in Seq(GoodUp) : q \in Seq(Upward)
    /\ \A q \in Seq(GoodDown) : q \in Seq(Downward)
BY DEF GoodUp, GoodDown

LEMMA SayingNothing ==
    ASSUME GoodInv, down' = down, attached = {} => attached' = {},
           \A s \in Session : Attached(s) => Attached(s)'
    PROVE  Tells(<<>>)
<1>1. down \o <<>> = down /\ <<>> \in Seq(GoodDown)
  BY GoodTypes DEF GoodInv
<1>2. \A i \in 1..Len(<<>>) : FALSE
  OBVIOUS
<1> QED
  BY <1>1, <1>2 DEF Tells

(* One message, or a session's end. *)
LEMMA SayingOne ==
    ASSUME GoodInv, NEW m \in GoodDown, ~Announces(m), down' = Append(down, m),
           net.up # <<>> \/ attached # {},
           \A s \in Session : Attached(s) => Attached(s)' \/ Closes(m, s)
    PROVE  Tells(<<m>>)
<1> DEFINE D == GoodDown
<1> HIDE DEF D
<1>1. down \in Seq(D) /\ m \in D
  BY DEF GoodInv, D
<1>2. down \o <<m>> = Append(down, m) /\ <<m>> \in Seq(D)
  BY <1>1
<1>3. Len(<<m>>) = 1 /\ <<m>>[1] = m
  OBVIOUS
<1>4. \A s : Closes(m, s) => Closing(<<m>>, s)
  BY <1>3 DEF Closing
<1> QED
  BY <1>2, <1>3, <1>4 DEF Tells, D

LEMMA SayingAnswer ==
    ASSUME TypeOK, GoodInv, NEW s \in Session, NEW v \in [Kinds -> Value], NEW tag \in Tag,
           Answered(s, v, tag), s.c = tag.s.c, Attached(s)',
           net.up # <<>>,
           \A u \in Session : Attached(u) => Attached(u)'
    PROVE  \E q : Tells(q)
<1> DEFINE m == [t |-> "opened", s |-> s, for |-> tag]
           n == [t |-> "connection", s |-> s, v |-> "connected"]
           o == [t |-> "snapshot", s |-> s, v |-> Snapshot(v)]
           D == GoodDown
<1>1. Snapshot(v) \in [Kinds -> Value]
  BY DEF Snapshot, Value
<1>2. m \in D /\ n \in D /\ o \in D
  BY <1>1 DEF Downward, GoodDown
<1>3. down' \in {down \o <<m>> \o <<n, o>>, down \o <<n, o>> \o <<m>>}
  BY DEF Answered
<1>4. \A u : u \in {m, n, o} => (Announces(u) => Attached(u.s)')
  BY DEF Announces
<1>5. down \in Seq(D)
  BY DEF GoodInv
<1> HIDE DEF m, n, o, D
<1> DEFINE Q == {<<m>> \o <<n, o>>, <<n, o>> \o <<m>>}
<1>6. <<m>> \in Seq(D) /\ <<n, o>> \in Seq(D)
  BY <1>2
<1>7. \E q \in Q : down' = down \o q
  <2>1. (down \o <<m>>) \o <<n, o>> = down \o (<<m>> \o <<n, o>>)
    BY <1>5, <1>6, ConcatAssociative
  <2>2. (down \o <<n, o>>) \o <<m>> = down \o (<<n, o>> \o <<m>>)
    BY <1>5, <1>6, ConcatAssociative
  <2> QED
    BY <1>3, <2>1, <2>2
<1>8. ASSUME NEW q \in Q, NEW i \in 1..Len(q)
      PROVE  q[i] \in {m, n, o}
  <2>1. /\ \A j \in 1..Len(<<m>>) : <<m>>[j] = m
        /\ \A j \in 1..Len(<<n, o>>) : <<n, o>>[j] \in {n, o}
    OBVIOUS
  <2>2. CASE q = <<m>> \o <<n, o>>
    BY <1>6, <2>1, <2>2, ConcatAt
  <2>3. CASE q = <<n, o>> \o <<m>>
    BY <1>6, <2>1, <2>3, ConcatAt
  <2> QED
    BY <2>2, <2>3
<1>9. ASSUME NEW q \in Q, down' = down \o q
      PROVE  Tells(q)
  <2>1. \A i \in 1..Len(q) : Announces(q[i]) => Attached(q[i].s)'
    BY <1>4, <1>8
  <2>2. \A p, r \in Seq(D) : p \o r \in Seq(D)
    OBVIOUS
  <2>3. q \in Seq(D)
    BY <1>6, <2>2
  <2> QED
    BY <1>9, <2>1, <2>3 DEF Tells, D
<1> QED
  BY <1>7, <1>9

LEMMA GoodMessages ==
    ASSUME GoodInv
    PROVE  /\ net.up # <<>> => /\ Tail(net.up) \in Seq(GoodUp) /\ Head(net.up) \in GoodUp
                               /\ Head(net.up).t = "open" =>
                                    Head(net.up).c = Head(net.up).for.s.c
           /\ down # <<>> => Tail(down) \in Seq(GoodDown) /\ Message \in GoodDown
<1>1. ASSUME net.up # <<>>
      PROVE  Tail(net.up) \in Seq(GoodUp) /\ Head(net.up) \in GoodUp
  BY <1>1, TailAt DEF GoodInv
<1>2. ASSUME down # <<>>
      PROVE  Tail(down) \in Seq(GoodDown) /\ Message \in GoodDown
  BY <1>2, TailAt DEF GoodInv, Message
<1> QED
  BY <1>1, <1>2 DEF GoodUp

(* The gateway's steps tell who is no longer attached, and never call a     *)
(* session connected that is not.                                           *)
LEMMA SpeaksTells ==
    ASSUME TypeOK, GoodInv, Speaks
    PROVE  \E q : Tells(q)
<1>1. /\ live \in [Chars -> 0..MaxGen] /\ gen \in [Chars -> 0..MaxGen]
      /\ game \in [Chars -> [Kinds -> Value]] /\ attached \in SUBSET Chars
  BY DEF TypeOK
<1>2. \A s \in Session : s.c \in Chars /\ s.n \in 1..MaxGen
  BY SessionFacts
<1>3. ASSUME NEW ok \in BOOLEAN, GatewayAuth(ok) PROVE \E q : Tells(q)
  <2> DEFINE m == [t |-> "auth", ok |-> ok]
  <2>1. m \in GoodDown /\ ~Announces(m)
    BY DEF GoodDown, Downward, Announces
  <2>2. down' = Append(down, m) /\ net.up # <<>> /\ UNCHANGED <<live, attached>>
    BY <1>3 DEF GatewayAuth, FromClient
  <2> HIDE DEF m
  <2> QED
    BY <2>1, <2>2, SayingOne DEF Attached
<1>4. CASE GatewayReattaches
  <2>1. net.up # <<>> /\ Head(net.up).c \in Chars /\ Head(net.up).for \in Tag
    BY <1>4, FromClientType DEF GatewayReattaches, FromClient
  <2>2. PICK c \in Chars, tag \in Tag : c = Head(net.up).c /\ tag = Head(net.up).for
    BY <2>1
  <2>3. live[c] > 0 /\ live' = live /\ attached' = attached \cup {c} /\ c = tag.s.c
    BY <1>4, <2>2, GoodMessages DEF GatewayReattaches, FromClient
  <2>4. Answered([c |-> c, n |-> live[c]], game[c], tag)
    BY <1>4, <2>2 DEF GatewayReattaches
  <2>5. [c |-> c, n |-> live[c]] \in Session
    BY <1>1, <2>3, SessionFacts, ConstantsAssumption
  <2>6. PICK s \in Session : s = [c |-> c, n |-> live[c]]
    BY <2>5
  <2>7. Attached(s)' /\ s.c = tag.s.c
    BY <2>3, <2>6 DEF Attached
  <2>8. \A u \in Session : Attached(u) => Attached(u)'
    BY <2>3 DEF Attached
  <2>9. game[c] \in [Kinds -> Value] /\ Answered(s, game[c], tag)
    BY <1>1, <2>4, <2>6
  <2> QED
    BY <2>1, <2>7, <2>8, <2>9, SayingAnswer
<1>5. CASE GatewayOpens
  <2>1. net.up # <<>> /\ Head(net.up).c \in Chars /\ Head(net.up).for \in Tag
    BY <1>5, FromClientType DEF GatewayOpens, FromClient
  <2>2. PICK c \in Chars, tag \in Tag : c = Head(net.up).c /\ tag = Head(net.up).for
    BY <2>1
  <2>3. c = tag.s.c
    BY <1>5, <2>2, GoodMessages DEF GatewayOpens, FromClient
  <2>4. PICK n : n = gen[c] + 1
    OBVIOUS
  <2>5. /\ live[c] = 0 /\ n \in 1..MaxGen
        /\ live' = [live EXCEPT ![c] = n] /\ attached' = attached \cup {c}
    <3>1. gen[c] < MaxGen /\ live[c] = 0
      BY <1>5, <2>2 DEF GatewayOpens
    <3>2. gen[c] \in 0..MaxGen /\ MaxGen \in Nat
      BY <1>1, ConstantsAssumption
    <3> QED
      BY <1>5, <2>2, <2>4, <3>1, <3>2 DEF GatewayOpens
  <2>6. PICK s \in Session : s = [c |-> c, n |-> n]
    BY <2>5, SessionFacts
  <2>7. Attached(s)' /\ s.c = tag.s.c
    BY <1>1, <2>3, <2>5, <2>6 DEF Attached
  <2>8. \A u \in Session : Attached(u) => Attached(u)'
    <3> SUFFICES ASSUME NEW u \in Session, Attached(u) PROVE Attached(u)'
      OBVIOUS
    <3>1. u.c \in Chars /\ u.n # 0 /\ live[u.c] = u.n
      BY <1>2, ConstantsAssumption DEF Attached
    <3>2. u.c # c
      BY <2>5, <3>1
    <3> QED
      BY <1>1, <2>5, <3>1, <3>2 DEF Attached
  <2>9. Unset \in [Kinds -> Value] /\ Answered(s, Unset, tag)
    BY <1>5, <2>2, <2>4, <2>6 DEF GatewayOpens, Unset, Value
  <2> QED
    BY <2>1, <2>7, <2>8, <2>9, SayingAnswer
<1>6. CASE GatewayRefuses
  <2> DEFINE m == [t |-> "refused", for |-> Head(net.up).for]
  <2>1. Head(net.up).for \in Tag /\ net.up # <<>>
    BY <1>6, FromClientType DEF GatewayRefuses, FromClient
  <2>2. m \in GoodDown /\ ~Announces(m)
    BY <2>1 DEF GoodDown, Downward, Announces
  <2>3. down' = Append(down, m) /\ UNCHANGED <<live, attached>>
    BY <1>6 DEF GatewayRefuses, gateway
  <2> HIDE DEF m
  <2> QED
    BY <2>1, <2>2, <2>3, SayingOne DEF Attached
<1>7. CASE GatewayCloses
  <2> DEFINE s == Head(net.up).s
             m == [t |-> "connection", s |-> s, v |-> "closed"]
             e == [t |-> "error", s |-> s]
  <2>1. s \in Session /\ net.up # <<>>
    BY <1>7, FromClientType DEF GatewayCloses, FromClient
  <2>2. /\ m \in GoodDown /\ ~Announces(m) /\ e \in GoodDown /\ ~Announces(e)
        /\ Closes(m, s)
    BY <2>1 DEF GoodDown, Downward, Announces, Closes
  <2>3. \/ /\ Gone(s.c) /\ live[s.c] = s.n
           /\ \/ s.c \in attached /\ down' = Append(down, m)
              \/ s.c \notin attached /\ down' = down
        \/ down' = Append(down, e) /\ UNCHANGED <<live, attached>>
    BY <1>7 DEF GatewayCloses
  <2> HIDE DEF s, m, e
  <2>4. ASSUME Gone(s.c), live[s.c] = s.n, NEW u \in Session, Attached(u)
        PROVE  Attached(u)' \/ (u = s /\ s.c \in attached)
    <3>1. CASE u.c = s.c
      BY <2>1, <2>4, <3>1 DEF Attached, Session
    <3>2. CASE u.c # s.c
      BY <1>1, <1>2, <2>4, <3>2 DEF Attached, Gone
    <3> QED
      BY <3>1, <3>2
  <2>5. CASE Gone(s.c) /\ live[s.c] = s.n /\ s.c \in attached /\ down' = Append(down, m)
    BY <2>1, <2>2, <2>4, <2>5, SayingOne
  <2>6. CASE Gone(s.c) /\ live[s.c] = s.n /\ s.c \notin attached /\ down' = down
    <3>1. \A u \in Session : Attached(u) => Attached(u)'
      BY <2>4, <2>6
    <3> QED
      BY <2>1, <2>6, <3>1, SayingNothing DEF Gone
  <2>7. CASE down' = Append(down, e) /\ UNCHANGED <<live, attached>>
    BY <2>1, <2>2, <2>7, SayingOne DEF Attached
  <2> QED
    BY <2>3, <2>5, <2>6, <2>7
<1>8. ASSUME NEW c \in Chars, SessionLost(c) PROVE \E q : Tells(q)
  <2> DEFINE s == [c |-> c, n |-> live[c]]
             m == [t |-> "connection", s |-> s, v |-> "closed"]
             e == [t |-> "error", s |-> s]
             q == <<m, e>>
  <2>1. live[c] > 0 /\ Gone(c) /\ down' = IF c \in attached THEN down \o q ELSE down
    BY <1>8 DEF SessionLost
  <2>2. s \in Session /\ s.c = c
    BY <1>1, <2>1, SessionFacts, ConstantsAssumption
  <2>3. /\ m \in GoodDown /\ ~Announces(m) /\ e \in GoodDown /\ ~Announces(e)
        /\ Closes(m, s)
    BY <2>2 DEF GoodDown, Downward, Announces, Closes
  <2>4. ASSUME NEW u \in Session, Attached(u)
        PROVE  Attached(u)' \/ (u = s /\ c \in attached)
    <3>1. CASE u.c = c
      BY <2>4, <3>1 DEF Attached, Session
    <3>2. CASE u.c # c
      BY <1>1, <1>2, <2>1, <2>4, <3>2 DEF Attached, Gone
    <3> QED
      BY <3>1, <3>2
  <2> HIDE DEF s, m, e
  <2>5. CASE c \in attached
    <3>1. /\ q \in Seq(GoodDown) /\ Closing(q, s)
          /\ \A i \in 1..Len(q) : ~Announces(q[i])
      BY <2>3 DEF Closing
    <3> HIDE DEF q
    <3> QED
      BY <2>1, <2>4, <2>5, <3>1 DEF Tells
  <2>6. CASE c \notin attached
    <3>1. \A u \in Session : Attached(u) => Attached(u)'
      BY <2>4, <2>6
    <3> QED
      BY <2>1, <2>6, <3>1, SayingNothing DEF Gone
  <2> QED
    BY <2>5, <2>6
<1>9. ASSUME NEW c \in Chars, NEW k \in Kinds, NEW v \in Value, GameEvent(c, k, v)
      PROVE  \E q : Tells(q)
  <2> DEFINE s == [c |-> c, n |-> live[c]]
             m == [t |-> "event", s |-> s, k |-> k, v |-> v]
  <2>1. /\ live[c] > 0 /\ (v = 0 => k \in {"mode", "notice"})
        /\ down' = IF c \in attached THEN Append(down, m) ELSE down
        /\ UNCHANGED <<live, attached>>
    BY <1>9 DEF GameEvent
  <2>2. s \in Session
    BY <1>1, <2>1, SessionFacts, ConstantsAssumption
  <2>3. m \in GoodDown /\ ~Announces(m)
    BY <2>1, <2>2 DEF GoodDown, Downward, Announces
  <2> HIDE DEF s, m
  <2>4. CASE c \in attached
    BY <2>1, <2>3, <2>4, SayingOne DEF Attached
  <2>5. CASE c \notin attached
    BY <2>1, <2>5, SayingNothing DEF Attached
  <2> QED
    BY <2>4, <2>5
<1> QED
  BY <1>3, <1>4, <1>5, <1>6, <1>7, <1>8, <1>9 DEF Speaks, Gateway

LEMMA ClosingGrows ==
    ASSUME NEW p \in Seq(GoodDown), NEW q \in Seq(GoodDown), NEW s
    PROVE  /\ Closing(p, s) => Closing(p \o q, s)
           /\ Closing(q, s) => Closing(p \o q, s)
<1> DEFINE r == p \o q
<1>1. /\ \A i \in 1..Len(p) : r[i] = p[i] /\ i \in 1..Len(r)
      /\ \A i \in 1..Len(q) : r[Len(p) + i] = q[i] /\ Len(p) + i \in 1..Len(r)
  BY ConcatAt
<1> HIDE DEF r
<1>2. /\ Closing(p, s) => Closing(r, s)
      /\ Closing(q, s) => Closing(r, s)
  BY <1>1 DEF Closing
<1> QED
  BY <1>2 DEF r

(* What is told keeps the tabs covered. *)
LEMMA ToldIsCovered ==
    ASSUME TypeOK, CInv, NEW q, Tells(q), UNCHANGED <<ui, crossed>>,
           net' = net \/ (net.up # <<>> /\ net' = [net EXCEPT !.up = Tail(@)])
    PROVE  CInv'
<1>1. /\ net'.link = net.link /\ net'.outbox = net.outbox
      /\ net'.up = net.up \/ (net.up # <<>> /\ net'.up = Tail(net.up))
  <2>1. net' = net \/ net' = [net EXCEPT !.up = Tail(net.up)]
    OBVIOUS
  <2>2. CASE net' = net
    BY <2>2
  <2>3. CASE net' = [net EXCEPT !.up = Tail(net.up)] /\ net' # net
    BY <2>3
  <2> QED
    BY <2>1, <2>2, <2>3
<1>2. /\ q \in Seq(GoodDown) /\ down \in Seq(GoodDown) /\ down' = down \o q
      /\ \A s \in Session : Attached(s) => Attached(s)' \/ Closing(q, s)
      /\ \A i \in 1..Len(q) : Announces(q[i]) => Attached(q[i].s)'
      /\ net.up = <<>> /\ attached = {} => q = <<>> /\ attached' = {}
  BY DEF CInv, GoodInv, Tells
<1>3. UNCHANGED <<waits, first, loop, todo, tabs, errors, conn, crossed>>
  BY DEF ui, reattaching, sessionStore, uiStore, stores
<1>4. GoodInv'
  <2>1. net.outbox \in Seq(GoodUp) /\ net.up \in Seq(GoodUp)
    BY DEF CInv, GoodInv
  <2>2. net.up # <<>> => Tail(net.up) \in Seq(GoodUp)
    BY GoodMessages DEF CInv
  <2>3. down' \in Seq(GoodDown)
    BY <1>2
  <2>4. net'.outbox \in Seq(GoodUp) /\ net'.up \in Seq(GoodUp)
    BY <1>1, <2>1, <2>2
  <2> QED
    BY <2>3, <2>4 DEF GoodInv
<1>5. AnnounceInv'
  <2>1. SUFFICES ASSUME NEW i \in 1..Len(down'), NEW m, m = down'[i], Announces(m)
        PROVE  \/ Attached(m.s)'
               \/ \E j \in 1..Len(down') : j > i /\ Closes(down'[j], m.s)
    BY DEF AnnounceInv, Attached
  <2>2. /\ \A k \in 1..Len(down) : down'[k] = down[k] /\ k \in 1..Len(down')
        /\ \A k \in 1..Len(q) : down'[Len(down) + k] = q[k] /\ Len(down) + k \in 1..Len(down')
        /\ \A k \in 1..Len(down') :
             k \in 1..Len(down) \/ \E j \in 1..Len(q) : k = Len(down) + j
    BY <1>2, ConcatAt
  <2>3. CASE i \in 1..Len(down)
    <3>1. m = down[i] /\ m \in GoodDown
      BY <1>2, <2>1, <2>2, <2>3
    <3>2. m.s \in Session
      BY <2>1, <3>1 DEF GoodDown, Downward, Announces
    <3>3. CASE Attached(m.s) /\ Closing(q, m.s)
      <4>1. PICK k \in 1..Len(q) : Closes(q[k], m.s)
        BY <3>3 DEF Closing
      <4>2. Len(down) + k > i
        BY <1>2, <2>3
      <4> QED
        BY <2>2, <4>1, <4>2
    <3>4. CASE \E j \in 1..Len(down) : j > i /\ Closes(down[j], m.s)
      BY <2>2, <3>4
    <3> QED
      BY <1>2, <2>1, <2>3, <3>1, <3>2, <3>3, <3>4 DEF CInv, AnnounceInv
  <2>4. ASSUME NEW j \in 1..Len(q), i = Len(down) + j
        PROVE  Attached(m.s)'
    <3>1. m = q[j]
      BY <2>1, <2>2, <2>4
    <3>2. \A k \in 1..Len(q) : \A n : n = q[k] /\ Announces(n) => Attached(n.s)'
      BY <1>2 DEF Attached
    <3> QED
      BY <2>1, <3>1, <3>2
  <2> QED
    BY <2>1, <2>2, <2>3, <2>4
<1>6. FirstInv'
  <2>1. CASE first
    BY <1>3, <2>1 DEF FirstInv
  <2>2. CASE ~first
    <3>1. net.up = <<>> /\ down = <<>> /\ tabs = <<>> /\ attached = {} /\ ~net.link
      BY <2>2 DEF CInv, FirstInv
    <3>2. down' = <<>> /\ attached' = {} /\ net'.up = <<>>
      BY <1>1, <1>2, <3>1
    <3> QED
      BY <1>1, <1>3, <3>1, <3>2 DEF FirstInv
  <2> QED
    BY <2>1, <2>2
<1>7. ASSUME NEW s \in Session, Known(s) PROVE Known(s)'
  <2>1. Closing(down', s) => Known(s)'
    BY DEF Known
  <2> QED
    BY <1>2, <1>3, <1>7, <2>1, ClosingGrows DEF Known
<1>8. CoverInv'
  <2>1. (LoopTabs => LoopTabs') /\ (OneCharacter' => OneCharacter)
    BY <1>3 DEF LoopTabs, OneCharacter
  <2>2. \A s \in ToSet(tabs) : s \in Session
    BY DEF TypeOK, ToSet
  <2>3. Covered => Covered'
    BY <1>1, <1>3, <1>7, <2>2 DEF Covered
  <2> QED
    BY <1>3, <2>1, <2>3 DEF CInv, CoverInv
<1> QED
  BY <1>4, <1>5, <1>6, <1>8 DEF CInv

LEMMA SpeaksStep == TypeOK /\ CInv /\ Speaks => CInv'
<1> SUFFICES ASSUME TypeOK, CInv, Speaks PROVE CInv'
  OBVIOUS
<1>1. /\ UNCHANGED <<ui, crossed>>
      /\ net' = net \/ (net.up # <<>> /\ net' = [net EXCEPT !.up = Tail(@)])
  BY DEF Speaks, Gateway, GatewayAuth, GatewayReattaches, GatewayOpens, GatewayRefuses,
         GatewayCloses, GameEvent, SessionLost, FromClient, bounds
<1>2. PICK q : Tells(q)
  BY SpeaksTells DEF CInv
<1> QED
  BY <1>1, <1>2, ToldIsCovered
-----------------------------------------------------------------------------
(* The client's operators keep the messages good. *)
GoodNet(n) == n.outbox \in Seq(GoodUp) /\ n.up \in Seq(GoodUp)

LEMMA GoodClientOps ==
    ASSUME NEW n \in Client, GoodNet(n)
    PROVE  /\ \A m \in GoodUp :
                /\ GoodNet(Sent(n, m)) /\ Sent(n, m).link = n.link
                /\ ~n.link => Sent(n, m).up = n.up
           /\ GoodNet(AuthStarted(n, Auth)) /\ AuthStarted(n, Auth).link = n.link
           /\ GoodNet(Flushed(n)) /\ Flushed(n).link = n.link
           /\ \A on \in BOOLEAN :
                /\ GoodNet(WithToken(n, on, Auth)) /\ WithToken(n, on, Auth).link = n.link
                /\ ~n.link => WithToken(n, on, Auth).up = n.up
<1> DEFINE U == GoodUp
<1>1. Auth \in U
  BY AuthType DEF U, GoodUp, Auth
<1>2. n.outbox \in Seq(U) /\ n.up \in Seq(U)
  BY DEF GoodNet
<1> HIDE DEF U
<1>3. /\ <<>> \in Seq(U) /\ n.up \o n.outbox \in Seq(U)
      /\ \A m \in U : Append(n.up, m) \in Seq(U) /\ Append(n.outbox, m) \in Seq(U)
  BY <1>2
<1>4. ASSUME NEW m \in U
      PROVE  /\ Sent(n, m).outbox \in Seq(U) /\ Sent(n, m).up \in Seq(U)
             /\ Sent(n, m).link = n.link
             /\ ~n.link => Sent(n, m).up = n.up
  <2>1. CASE n.link /\ ~n.awaiting
    BY <1>2, <1>3, <2>1 DEF Sent, Client
  <2>2. CASE ~(n.link /\ ~n.awaiting)
    BY <1>2, <1>3, <2>2 DEF Sent, Client
  <2> QED
    BY <2>1, <2>2
<1>5. /\ AuthStarted(n, Auth).outbox \in Seq(U) /\ AuthStarted(n, Auth).up \in Seq(U)
      /\ AuthStarted(n, Auth).link = n.link
  BY <1>1, <1>2, <1>3 DEF AuthStarted, Client
<1>6. /\ Flushed(n).outbox \in Seq(U) /\ Flushed(n).up \in Seq(U)
      /\ Flushed(n).link = n.link
  BY <1>2, <1>3 DEF Flushed, Client
<1>7. ASSUME NEW on \in BOOLEAN
      PROVE  /\ GoodNet(WithToken(n, on, Auth)) /\ WithToken(n, on, Auth).link = n.link
             /\ ~n.link => WithToken(n, on, Auth).up = n.up
  BY <1>5 DEF WithToken, GoodNet, U
<1> QED
  BY <1>4, <1>5, <1>6, <1>7 DEF GoodNet, U

LEMMA GoodRequest ==
    ASSUME NEW who \in {"reattach", "select", "nobody"} \cup Clicks, NEW s,
           For(who, s) \in Tag
    PROVE  OpenRequest(For(who, s)) \in GoodUp
BY OpenRequestType DEF OpenRequest, For, GoodUp

LEMMA GoodLoopOn ==
    ASSUME NEW n \in Client, GoodNet(n), NEW w, NEW q \in Seq(Session), LoopOn(n, w, q)
    PROVE  /\ GoodNet(net') /\ net'.link = n.link
           /\ ~n.link => net'.up = n.up
<1>1. CASE q # <<>> /\ Ask(n, w, For("reattach", Head(q)))
  <2>1. Head(q) \in Session
    BY <1>1
  <2>2. OpenRequest(For("reattach", Head(q))) \in GoodUp
    BY <2>1, ForType, GoodRequest
  <2> QED
    BY <1>1, <2>2, GoodClientOps DEF Ask
<1>2. CASE net' = n
  BY <1>2
<1> QED
  BY <1>1, <1>2 DEF LoopOn

LEMMA GoodRejected ==
    ASSUME TypeOK, NEW n \in Client, GoodNet(n), NEW w, NEW tags, Rejected(n, w, tags)
    PROVE  /\ GoodNet(net') /\ net'.link = n.link
           /\ ~n.link => net'.up = n.up
BY GoodLoopOn DEF Rejected, TypeOK

(* A request without its promise says the same otherwise. *)
LEMMA GoodAbandoned ==
    ASSUME NEW settled
    PROVE  /\ \A q \in Seq(GoodUp) : Abandoned(q, settled) \in Seq(GoodUp)
           /\ \A q \in Seq(GoodDown) :
                /\ Abandoned(q, settled) \in Seq(GoodDown)
                /\ Len(Abandoned(q, settled)) = Len(q)
                /\ \A i \in 1..Len(q) :
                     /\ Announces(Abandoned(q, settled)[i]) => Announces(q[i])
                     /\ Announces(q[i]) => Abandoned(q, settled)[i].s = q[i].s
                     /\ \A s : Closes(q[i], s) => Closes(Abandoned(q, settled)[i], s)
           /\ Abandoned(<<>>, settled) = <<>>
<1> DEFINE A(m) == IF m.t \in {"open", "opened", "refused"} /\ m.for \in settled
                     THEN [m EXCEPT !.for.who = "nobody"] ELSE m
<1>1. \A g \in Tag : [g EXCEPT !.who = "nobody"] \in Tag /\ [g EXCEPT !.who = "nobody"].s = g.s
  BY DEF Tag
<1>2. ASSUME NEW m \in GoodUp PROVE A(m) \in GoodUp
  <2>1. CASE m.t = "open"
    <3>1. m \in [t : {"open"}, c : Chars, for : Tag] /\ m.c = m.for.s.c
      BY <1>2, <2>1 DEF GoodUp, Upward
    <3>2. [m EXCEPT !.for.who = "nobody"] = [m EXCEPT !.for = [m.for EXCEPT !.who = "nobody"]]
      BY <3>1
    <3> QED
      BY <1>1, <1>2, <3>1, <3>2 DEF GoodUp, Upward
  <2>2. CASE m.t # "open"
    BY <1>2, <2>2 DEF GoodUp, Upward
  <2> QED
    BY <2>1, <2>2
<1>3. ASSUME NEW m \in GoodDown
      PROVE  /\ A(m) \in GoodDown
             /\ Announces(A(m)) => Announces(m)
             /\ Announces(m) => A(m).s = m.s
             /\ \A s : Closes(m, s) => Closes(A(m), s)
  <2>1. CASE m.t = "opened"
    <3>1. m \in [t : {"opened"}, s : Session, for : Tag] /\ m.s.c = m.for.s.c
      BY <1>3, <2>1 DEF GoodDown, Downward
    <3>2. [m EXCEPT !.for.who = "nobody"] = [m EXCEPT !.for = [m.for EXCEPT !.who = "nobody"]]
      BY <3>1
    <3>3. A(m).t = "opened" /\ A(m).s = m.s
      BY <3>1, <3>2
    <3>4. A(m) \in GoodDown
      BY <1>1, <1>3, <3>1, <3>2 DEF GoodDown, Downward
    <3> HIDE DEF A
    <3> QED
      BY <2>1, <3>3, <3>4 DEF Announces, Closes
  <2>2. CASE m.t = "refused"
    <3>1. m \in [t : {"refused"}, for : Tag]
      BY <1>3, <2>2 DEF GoodDown, Downward
    <3>2. [m EXCEPT !.for.who = "nobody"] = [m EXCEPT !.for = [m.for EXCEPT !.who = "nobody"]]
      BY <3>1
    <3>3. A(m).t = "refused"
      BY <3>1, <3>2
    <3>4. A(m) \in GoodDown
      BY <1>1, <1>3, <3>1, <3>2 DEF GoodDown, Downward
    <3> HIDE DEF A
    <3> QED
      BY <2>2, <3>3, <3>4 DEF Announces, Closes
  <2>3. CASE m.t \notin {"opened", "refused"}
    <3>1. m.t # "open"
      BY <1>3 DEF GoodDown, Downward
    <3>2. A(m) = m
      BY <2>3, <3>1
    <3> QED
      BY <1>3, <3>2
  <2> QED
    BY <2>1, <2>2, <2>3
<1>4. \A q : Abandoned(q, settled) = [i \in DOMAIN q |-> A(q[i])]
  BY DEF Abandoned
<1> HIDE DEF A
<1>5. ASSUME NEW S, NEW q \in Seq(S), \A m \in S : A(m) \in S
      PROVE  /\ Abandoned(q, settled) \in Seq(S) /\ Len(Abandoned(q, settled)) = Len(q)
             /\ \A i \in 1..Len(q) : Abandoned(q, settled)[i] = A(q[i]) /\ q[i] \in S
  BY <1>4, <1>5
<1>6. ASSUME NEW q \in Seq(GoodUp) PROVE Abandoned(q, settled) \in Seq(GoodUp)
  BY <1>2, <1>5
<1>7. ASSUME NEW q \in Seq(GoodDown)
      PROVE  /\ Abandoned(q, settled) \in Seq(GoodDown)
             /\ Len(Abandoned(q, settled)) = Len(q)
             /\ \A i \in 1..Len(q) : Abandoned(q, settled)[i] = A(q[i]) /\ q[i] \in GoodDown
  BY <1>3, <1>5
<1>8. Abandoned(<<>>, settled) = <<>>
  <2>1. <<>> \in Seq(GoodDown) /\ Len(<<>>) = 0
    OBVIOUS
  <2>2. /\ Abandoned(<<>>, settled) \in Seq(GoodDown)
        /\ Len(Abandoned(<<>>, settled)) = 0
    BY <1>7, <2>1
  <2> QED
    BY <2>2
<1>9. ASSUME NEW q \in Seq(GoodDown), NEW i \in 1..Len(q)
      PROVE  /\ Announces(Abandoned(q, settled)[i]) => Announces(q[i])
             /\ Announces(q[i]) => Abandoned(q, settled)[i].s = q[i].s
             /\ \A s : Closes(q[i], s) => Closes(Abandoned(q, settled)[i], s)
  <2>1. PICK m : m = q[i]
    OBVIOUS
  <2>2. m \in GoodDown /\ Abandoned(q, settled)[i] = A(m)
    BY <1>7, <2>1
  <2> QED
    BY <1>3, <2>1, <2>2
<1> QED
  BY <1>6, <1>7, <1>8, <1>9
-----------------------------------------------------------------------------
(* What is on its way while nobody is attached or detached. *)
LEMMA DownTaken ==
    ASSUME GoodInv, AnnounceInv, UNCHANGED <<live, attached>>,
           down # <<>>, down' = Tail(down)
    PROVE  /\ down' \in Seq(GoodDown) /\ AnnounceInv'
           /\ \A s : Closing(down, s) => Closes(Message, s) \/ Closing(down', s)
           /\ Announces(Message) => Attached(Message.s) \/ Closing(down', Message.s)
<1>1. /\ down' \in Seq(GoodDown) /\ Message = down[1] /\ 1 \in 1..Len(down)
      /\ \A i \in 1..Len(down') : down'[i] = down[i + 1] /\ i + 1 \in 1..Len(down)
      /\ \A i \in 1..Len(down) :
           i = 1 \/ (i - 1 \in 1..Len(down') /\ down'[i - 1] = down[i])
  BY TailAt DEF GoodInv, Message
<1>2. AnnounceInv'
  <2>1. SUFFICES ASSUME NEW i \in 1..Len(down'), NEW m, m = down'[i], Announces(m)
        PROVE  \/ Attached(m.s)'
               \/ \E j \in 1..Len(down') : j > i /\ Closes(down'[j], m.s)
    BY DEF AnnounceInv, Attached
  <2>2. m = down[i + 1] /\ i + 1 \in 1..Len(down)
    BY <1>1, <2>1
  <2>3. CASE Attached(m.s)
    BY <2>3 DEF Attached
  <2>4. ASSUME NEW j \in 1..Len(down), j > i + 1, Closes(down[j], m.s)
        PROVE  j - 1 \in 1..Len(down') /\ j - 1 > i /\ Closes(down'[j - 1], m.s)
    <3>1. j # 1 /\ j - 1 > i
      BY <2>4
    <3> QED
      BY <1>1, <2>4, <3>1
  <2> QED
    BY <2>1, <2>2, <2>3, <2>4 DEF AnnounceInv
<1>3. ASSUME NEW s, Closing(down, s)
      PROVE  Closes(Message, s) \/ Closing(down', s)
  BY <1>1, <1>3 DEF Closing
<1>4. ASSUME Announces(Message)
      PROVE  Attached(Message.s) \/ Closing(down', Message.s)
  <2>1. ASSUME NEW j \in 1..Len(down), j > 1, Closes(down[j], Message.s)
        PROVE  Closing(down', Message.s)
    <3>1. j - 1 \in 1..Len(down') /\ down'[j - 1] = down[j]
      BY <1>1, <2>1
    <3>2. PICK q : q = down'
      OBVIOUS
    <3>3. Closing(q, Message.s)
      BY <2>1, <3>1, <3>2 DEF Closing
    <3> QED
      BY <3>2, <3>3
  <2> QED
    BY <1>1, <1>4, <2>1 DEF AnnounceInv
<1> QED
  BY <1>1, <1>2, <1>3, <1>4

LEMMA DownAbandoned ==
    ASSUME GoodInv, AnnounceInv, UNCHANGED <<live, attached>>,
           NEW settled, down' = Abandoned(down, settled)
    PROVE  /\ down' \in Seq(GoodDown) /\ AnnounceInv'
           /\ \A s : Closing(down, s) => Closing(down', s)
<1>1. /\ down' \in Seq(GoodDown) /\ Len(down') = Len(down)
      /\ \A i \in 1..Len(down) :
           /\ Announces(down'[i]) => Announces(down[i])
           /\ Announces(down[i]) => down'[i].s = down[i].s
           /\ \A s : Closes(down[i], s) => Closes(down'[i], s)
  BY GoodAbandoned DEF GoodInv
<1>2. AnnounceInv'
  <2>1. SUFFICES ASSUME NEW i \in 1..Len(down'), NEW m, m = down'[i], Announces(m)
        PROVE  \/ Attached(m.s)'
               \/ \E j \in 1..Len(down') : j > i /\ Closes(down'[j], m.s)
    BY DEF AnnounceInv, Attached
  <2>2. i \in 1..Len(down) /\ Announces(down[i]) /\ m.s = down[i].s
    BY <1>1, <2>1
  <2>3. \/ Attached(m.s)
        \/ \E j \in 1..Len(down) : j > i /\ Closes(down[j], m.s)
    BY <2>2 DEF AnnounceInv
  <2>4. Attached(m.s) => Attached(m.s)'
    BY DEF Attached
  <2> QED
    BY <1>1, <2>3, <2>4
<1> QED
  BY <1>1, <1>2 DEF Closing

(* Nothing that the tabs' cover rests on is taken away. *)
LEMMA CoverKept ==
    ASSUME TypeOK, CoverInv, UNCHANGED <<tabs, loop, todo>>,
           crossed => crossed', net'.link = net.link,
           \A g \in waits : g.who = "reattach" => g \in waits',
           \A g \in waits' : g.who = "reattach" => g \in waits,
           \A s \in Session : Known(s) => Known(s)',
           \A s \in Session : errors[s] # "none" => errors'[s] # "none"
    PROVE  CoverInv'
<1>1. (LoopTabs => LoopTabs') /\ (OneCharacter' => OneCharacter)
  BY DEF LoopTabs, OneCharacter
<1>2. \A s \in ToSet(tabs) : s \in Session
  BY DEF TypeOK, ToSet
<1>3. Covered => Covered'
  BY <1>2 DEF Covered
<1> QED
  BY <1>1, <1>3 DEF CoverInv

LEMMA KnownKept ==
    ASSUME UNCHANGED <<live, attached>>, NEW s,
           Closing(down, s) => Closing(down', s), conn'[s] = conn[s] \/ conn'[s] = "closed"
    PROVE  Known(s) => Known(s)'
<1>1. Closing(down', s) => Known(s)'
  BY DEF Known
<1> QED
  BY <1>1 DEF Known, Attached

LEMMA FirstOf ==
    ASSUME NEW q \in Seq(Session), q # <<>>
    PROVE  q[1] \in ToSet(q)
<1>1. 1 \in DOMAIN q
  OBVIOUS
<1> QED
  BY <1>1 DEF ToSet

(* A promise is pending for reattach() exactly while it goes on. *)
LEMMA LoopPending ==
    ASSUME TypeOK, LoopInv
    PROVE  loop <=> \E g \in waits : g.who = "reattach"
<1>1. loop => \E g \in waits : g.who = "reattach"
  BY ForType DEF LoopInv, LoopWaits
<1> QED
  BY <1>1, NoLoopNoRequest

(* reattach() goes on, or stops, with the tabs of q. *)
LEMMA LoopOnTabs ==
    ASSUME NEW n, NEW w, NEW q \in Seq(Session), LoopOn(n, w, q),
           \A g \in w : g.who # "reattach",
           NEW c, \A t \in ToSet(q) : t.c = c
    PROVE  /\ \A g \in waits' : g.who = "reattach" => g.s.c = c
           /\ \A t \in ToSet(todo') : t.c = c
           /\ q # <<>> => \E g \in waits' : g.who = "reattach"
           /\ loop' => q # <<>>
<1>1. CASE q # <<>> /\ todo' = Tail(q) /\ Ask(n, w, For("reattach", Head(q)))
  <2>1. /\ Tail(q) \in Seq(Session) /\ Head(q) = q[1] /\ 1 \in 1..Len(q)
        /\ \A i \in 1..Len(Tail(q)) : Tail(q)[i] = q[i + 1] /\ i + 1 \in 1..Len(q)
    BY <1>1, TailAt
  <2>2. Head(q).c = c /\ \A t \in ToSet(Tail(q)) : t.c = c
    BY <2>1 DEF ToSet
  <2>3. /\ waits' = w \cup {For("reattach", Head(q))}
        /\ For("reattach", Head(q)).who = "reattach" /\ For("reattach", Head(q)).s.c = c
    BY <1>1, <2>2 DEF Ask, For
  <2> QED
    BY <1>1, <2>2, <2>3
<1>2. CASE q = <<>> /\ loop' = FALSE /\ todo' = <<>> /\ waits' = w
  BY <1>2 DEF ToSet
<1> QED
  BY <1>1, <1>2 DEF LoopOn

(* A rejected request of reattach() leaves a banner for its character.      *)
LEMMA RejectedCovers ==
    ASSUME TypeOK, LoopInv, CoverInv, NEW n, NEW tags \in SUBSET waits,
           Rejected(n, waits \ tags, tags), UNCHANGED <<tabs, crossed>>,
           \E g \in tags : g.who = "reattach"
    PROVE  CoverInv'
<1> SUFFICES ASSUME ~crossed PROVE LoopTabs' /\ (OneCharacter => Covered')
  BY DEF CoverInv, OneCharacter
<1>1. PICK g \in tags : g.who = "reattach"
  OBVIOUS
<1>2. g \in waits /\ g \in Tag /\ g.s \in Session /\ g = For("reattach", g.s)
  <2>1. g \in waits /\ g \in Tag /\ g.s \in Session
    BY <1>1 DEF TypeOK, LoopInv, ForTab
  <2> QED
    BY <1>1, <2>1 DEF Tag, For
<1>3. loop /\ LoopTabs
  BY <1>1, <1>2, LoopPending DEF CoverInv
<1>4. LoopOn(n, waits \ tags, todo) /\ errors'[g.s] = "shown"
  BY <1>1, <1>2 DEF Rejected
<1>5. \A h \in waits \ tags : h.who # "reattach"
  BY <1>1, <1>2 DEF LoopInv
<1>6. tabs # <<>> /\ todo \in Seq(Session)
  BY <1>3 DEF LoopTabs, TypeOK
<1>7. ASSUME OneCharacter, NEW s \in ToSet(tabs)
      PROVE  /\ g.s.c = s.c
             /\ \A h \in waits' : h.who = "reattach" => h.s.c = s.c
             /\ \A t \in ToSet(todo') : t.c = s.c
  <2>1. g.s.c = s.c /\ \A t \in ToSet(todo) : t.c = s.c
    BY <1>1, <1>2, <1>3, <1>7 DEF LoopTabs
  <2>2. PICK c : c = s.c
    OBVIOUS
  <2>3. \A t \in ToSet(todo) : t.c = c
    BY <2>1, <2>2
  <2>4. PICK w : w = waits \ tags
    OBVIOUS
  <2>5. LoopOn(n, w, todo) /\ \A h \in w : h.who # "reattach"
    BY <1>4, <1>5, <2>4
  <2>6. /\ \A h \in waits' : h.who = "reattach" => h.s.c = c
        /\ \A t \in ToSet(todo') : t.c = c
    BY <1>6, <2>3, <2>5, LoopOnTabs
  <2> QED
    BY <2>1, <2>2, <2>6
<1>8. LoopTabs'
  BY <1>6, <1>7 DEF LoopTabs, OneCharacter
<1>9. OneCharacter => Covered'
  <2>1. tabs[1] \in ToSet(tabs)
    BY <1>6, FirstOf DEF TypeOK
  <2> QED
    BY <1>2, <1>4, <1>7, <2>1 DEF Covered
<1> QED
  BY <1>8, <1>9

LEMMA FirstKept ==
    ASSUME FirstInv, UNCHANGED <<first, tabs>>, net'.link = net.link,
           ~net.link /\ net.up = <<>> => net'.up = <<>>,
           down = <<>> => down' = <<>>, attached = {} => attached' = {}
    PROVE  FirstInv'
BY DEF FirstInv

(* A step of the browser that takes no message and changes no tab. *)
LEMMA TabsKept ==
    ASSUME TypeOK, CInv, UNCHANGED <<down, live, attached, first, tabs, loop, todo, crossed>>,
           GoodNet(net'), net'.link = net.link, ~net.link => net'.up = net.up,
           \A g \in waits : g.who = "reattach" => g \in waits',
           \A g \in waits' : g.who = "reattach" => g \in waits,
           \A s \in Session : conn'[s] = conn[s] \/ conn'[s] = "closed",
           \A s \in Session : errors[s] # "none" => errors'[s] # "none"
    PROVE  CInv'
<1>1. GoodInv'
  BY DEF CInv, GoodInv, GoodNet
<1>2. AnnounceInv'
  BY DEF CInv, AnnounceInv, Attached
<1>3. FirstInv'
  BY FirstKept DEF CInv
<1>4. \A s : Closing(down, s) => Closing(down', s)
  BY DEF Closing
<1>5. \A s \in Session : Known(s) => Known(s)'
  BY <1>4, KnownKept
<1>6. CoverInv'
  BY <1>5, CoverKept DEF CInv
<1> QED
  BY <1>1, <1>2, <1>3, <1>6 DEF CInv

LEMMA GoodClient == TypeOK /\ GoodInv => net \in Client /\ GoodNet(net)
BY DEF TypeOK, GoodInv, GoodNet, Client

Buttons ==
    \/ ReconnectNow \/ Login \/ \E ok \in BOOLEAN : LoginEnds(ok)
    \/ LoggedOut \/ CloseSession \/ \E click \in Clicks : ReopenSession(click)
    \/ \E c \in Chars : Select(c)
    \/ \E s \in Session : SelectTab(s) \/ DismissError(s)

LEMMA ButtonsCovered == TypeOK /\ CInv /\ Buttons => CInv'
<1> SUFFICES ASSUME TypeOK, CInv, Buttons PROVE CInv'
  OBVIOUS
<1>1. net \in Client /\ GoodNet(net)
  BY GoodClient DEF CInv
<1>2. CASE UNCHANGED <<net, waits>> /\ UNCHANGED <<first, loop, todo>> /\ UNCHANGED <<tabs, conn, errors>>
           /\ UNCHANGED <<down, live, attached, crossed>>
  BY <1>1, <1>2, TabsKept
<1>3. CASE ReconnectNow \/ Login \/ LoggedOut
  BY <1>2, <1>3 DEF ReconnectNow, Login, LoggedOut, client, reattaching, sessionStore, uiStore,
                    stores, gateway, bounds
<1>4. ASSUME NEW ok \in BOOLEAN, LoginEnds(ok) PROVE CInv'
  <2>1. net' = WithToken(net, ok, Auth)
    BY <1>4 DEF LoginEnds
  <2>2. GoodNet(net') /\ net'.link = net.link /\ (~net.link => net'.up = net.up)
    BY <1>1, <2>1, GoodClientOps
  <2>3. /\ UNCHANGED <<down, live, attached, first, tabs, loop, todo, crossed>>
        /\ UNCHANGED <<waits, conn, errors>>
    BY <1>4 DEF LoginEnds, reattaching, sessionStore, uiStore, stores, gateway, bounds
  <2> QED
    BY <2>2, <2>3, TabsKept
<1>5. CASE CloseSession
  <2>1. activeTab \in Session /\ net' = Sent(net, [t |-> "close", s |-> activeTab])
    BY <1>5 DEF CloseSession, TypeOK
  <2>2. [t |-> "close", s |-> activeTab] \in GoodUp
    BY <2>1 DEF GoodUp, Upward
  <2>3. GoodNet(net') /\ net'.link = net.link /\ (~net.link => net'.up = net.up)
    BY <1>1, <2>1, <2>2, GoodClientOps
  <2>4. /\ UNCHANGED <<down, live, attached, first, tabs, loop, todo, crossed>>
        /\ UNCHANGED <<waits, errors>>
    BY <1>5 DEF CloseSession, reattaching, sessionStore, uiStore, gateway
  <2>5. \A s \in Session : conn'[s] = conn[s] \/ conn'[s] = "closed"
    BY <1>5, <2>1 DEF CloseSession, TypeOK
  <2> QED
    BY <2>3, <2>4, <2>5, TabsKept
<1>6. ASSUME NEW g \in Tag, g = For(g.who, g.s), g.who \in {"select"} \cup Clicks,
             Ask(net, waits, g),
             UNCHANGED <<down, live, attached, first, tabs, loop, todo, crossed>>,
             UNCHANGED <<conn, errors>>
      PROVE  CInv'
  <2>1. OpenRequest(g) \in GoodUp
    BY <1>6, GoodRequest
  <2>2. net' = Sent(net, OpenRequest(g)) /\ waits' = waits \cup {g}
    BY <1>6 DEF Ask
  <2>3. GoodNet(net') /\ net'.link = net.link /\ (~net.link => net'.up = net.up)
    BY <1>1, <2>1, <2>2, GoodClientOps
  <2>4. g.who # "reattach"
    BY <1>6, ClicksApart
  <2> QED
    BY <1>6, <2>2, <2>3, <2>4, TabsKept
<1>7. ASSUME NEW click \in Clicks, ReopenSession(click) PROVE CInv'
  <2>1. activeTab \in Session
    BY <1>7 DEF ReopenSession, TypeOK
  <2>2. PICK g : g = For(click, activeTab)
    OBVIOUS
  <2>3. g \in Tag /\ g.who \in Clicks /\ g = For(g.who, g.s)
    BY <2>1, <2>2, ForType
  <2>4. /\ Ask(net, waits, g) /\ UNCHANGED <<conn, errors>>
        /\ UNCHANGED <<down, live, attached, first, tabs, loop, todo, crossed>>
    BY <1>7, <2>2 DEF ReopenSession, reattaching, sessionStore, uiStore, stores, gateway
  <2> QED
    BY <1>6, <2>3, <2>4
<1>8. ASSUME NEW c \in Chars, Select(c) PROVE CInv'
  <2>1. PICK g : g = For("select", [c |-> c, n |-> 0])
    OBVIOUS
  <2>2. g \in Tag /\ g.who = "select" /\ g = For(g.who, g.s)
    BY <2>1, ConstantsAssumption DEF For, Tag
  <2>3. /\ Ask(net, waits, g) /\ UNCHANGED <<conn, errors>>
        /\ UNCHANGED <<down, live, attached, first, tabs, loop, todo, crossed>>
    BY <1>8, <2>1 DEF Select, reattaching, sessionStore, uiStore, stores, gateway
  <2> QED
    BY <1>6, <2>2, <2>3
<1>9. ASSUME NEW s \in Session, SelectTab(s) PROVE CInv'
  BY <1>2, <1>9 DEF SelectTab, client, reattaching, stores, gateway, bounds
<1>10. ASSUME NEW s \in Session, DismissError(s) PROVE CInv'
  <2>1. \A u \in Session : errors[u] # "none" => errors'[u] # "none"
    BY <1>10 DEF DismissError, TypeOK
  <2>2. /\ UNCHANGED <<down, live, attached, first, tabs, loop, todo, crossed>>
        /\ UNCHANGED <<net, waits, conn>>
    BY <1>10 DEF DismissError, client, reattaching, sessionStore, stores, gateway, bounds
  <2> QED
    BY <1>1, <2>1, <2>2, TabsKept
<1> QED
  BY <1>3, <1>4, <1>5, <1>7, <1>8, <1>9, <1>10 DEF Buttons

LEMMA LogoutCovered == TypeOK /\ LoopInv /\ CInv /\ Logout => CInv'
<1> SUFFICES ASSUME TypeOK, LoopInv, CInv, Logout PROVE CInv'
  OBVIOUS
<1>1. /\ UNCHANGED <<net, down, waits, live, attached>> /\ UNCHANGED <<first, loop, todo>>
      /\ tabs' = <<>> /\ crossed' = (crossed \/ waits # {})
  BY DEF Logout, client, reattaching, gateway
<1>2. GoodInv' /\ AnnounceInv' /\ FirstInv'
  BY <1>1 DEF CInv, GoodInv, AnnounceInv, Attached, FirstInv
<1>3. ~crossed' => ~loop'
  BY <1>1, LoopPending
<1>4. CoverInv'
  BY <1>1, <1>3 DEF CoverInv, LoopTabs
<1> QED
  BY <1>2, <1>4 DEF CInv

LEMMA SocketOpensCovered == TypeOK /\ LoopInv /\ CInv /\ SocketOpens => CInv'
<1> SUFFICES ASSUME TypeOK, LoopInv, CInv, SocketOpens PROVE CInv'
  OBVIOUS
<1>0. net \in Client /\ GoodNet(net) /\ tabs \in Seq(Session)
  BY GoodClient DEF CInv, TypeOK
<1>1. PICK n : n = [net EXCEPT !.link = TRUE]
  OBVIOUS
<1>2. n \in Client /\ GoodNet(n)
  <2>1. n \in Client
    BY <1>0, <1>1, ClientChanges
  <2>2. n.outbox = net.outbox /\ n.up = net.up
    BY <1>0, <1>1 DEF Client
  <2> QED
    BY <1>0, <2>1, <2>2 DEF GoodNet
<1>3. PICK m : m = (IF token THEN AuthStarted(n, Auth) ELSE Flushed(n))
  OBVIOUS
<1>4. m \in Client /\ GoodNet(m)
  BY <1>2, <1>3, ClientTypes, GoodClientOps
<1>5. IF first /\ ~loop /\ token
        THEN LoopOn(m, waits, tabs)
        ELSE net' = m /\ UNCHANGED <<waits, loop, todo>>
  BY <1>1, <1>3 DEF SocketOpens, Opened
<1>6. /\ UNCHANGED <<down, live, attached, tabs, errors, conn>>
      /\ first' = TRUE /\ crossed' = (crossed \/ (~token /\ tabs # <<>>))
  BY DEF SocketOpens, sessionStore, uiStore, stores, gateway
<1>7. GoodNet(net')
  BY <1>0, <1>4, <1>5, GoodLoopOn
<1>8. GoodInv' /\ AnnounceInv' /\ FirstInv'
  BY <1>6, <1>7 DEF CInv, GoodInv, GoodNet, AnnounceInv, Attached, FirstInv
<1>9. ASSUME ~crossed' PROVE LoopTabs' /\ (tabs # <<>> /\ OneCharacter => Covered')
  <2>1. (token \/ tabs = <<>>) /\ ~crossed /\ LoopTabs
    BY <1>6, <1>9 DEF CInv, CoverInv
  <2>2. CASE first /\ ~loop /\ token
    <3>1. LoopOn(m, waits, tabs) /\ \A g \in waits : g.who # "reattach"
      BY <1>5, <2>1, <2>2, NoLoopNoRequest
    <3>2. PICK w : w = waits
      OBVIOUS
    <3>3. ASSUME tabs # <<>>, OneCharacter, NEW s \in ToSet(tabs)
          PROVE  /\ \A g \in waits' : g.who = "reattach" => g.s.c = s.c
                 /\ \A t \in ToSet(todo') : t.c = s.c
                 /\ \E g \in waits' : g.who = "reattach"
      <4>1. PICK c : c = s.c
        OBVIOUS
      <4>2. \A t \in ToSet(tabs) : t.c = c
        BY <3>3, <4>1 DEF OneCharacter
      <4>3. PICK q \in Seq(Session) : q = tabs
        BY <1>0
      <4>4. LoopOn(m, w, q) /\ (\A t \in ToSet(q) : t.c = c) /\ \A g \in w : g.who # "reattach"
        BY <3>1, <3>2, <4>2, <4>3
      <4>5. /\ \A g \in waits' : g.who = "reattach" => g.s.c = c
            /\ \A t \in ToSet(todo') : t.c = c
            /\ q # <<>> => \E g \in waits' : g.who = "reattach"
        BY <4>3, <4>4, LoopOnTabs
      <4> QED
        BY <3>3, <4>1, <4>3, <4>5
    <3>4. loop' => tabs # <<>>
      BY <3>1 DEF LoopOn
    <3>5. LoopTabs'
      BY <1>6, <3>3, <3>4 DEF LoopTabs, OneCharacter
    <3>6. tabs # <<>> /\ OneCharacter => Covered'
      <4>1. tabs # <<>> => tabs[1] \in ToSet(tabs)
        BY <1>0, FirstOf
      <4> QED
        BY <3>3, <4>1 DEF Covered
    <3> QED
      BY <3>5, <3>6
  <2>3. CASE ~first
    <3>1. tabs = <<>> /\ ~loop
      BY <2>1, <2>3 DEF CInv, FirstInv, LoopTabs
    <3>2. ~loop'
      BY <1>5, <2>3, <3>1
    <3> QED
      BY <3>1, <3>2 DEF LoopTabs
  <2>4. CASE ~loop /\ ~token
    <3>1. ~loop' /\ tabs = <<>>
      BY <1>5, <2>1, <2>4
    <3> QED
      BY <3>1 DEF LoopTabs
  <2>5. CASE loop
    <3>1. UNCHANGED <<waits, loop, todo>>
      BY <1>5, <2>5
    <3>2. LoopTabs'
      BY <1>6, <2>1, <3>1 DEF LoopTabs, OneCharacter
    <3>3. Covered'
      BY <2>5, <3>1, LoopPending DEF Covered
    <3> QED
      BY <3>2, <3>3
  <2> QED
    BY <2>2, <2>3, <2>4, <2>5
<1>10. CoverInv'
  BY <1>6, <1>9 DEF CoverInv, OneCharacter
<1> QED
  BY <1>8, <1>10 DEF CInv

LEMMA NotReattach ==
    ASSUME TypeOK, LoopInv, NEW tags \in SUBSET waits,
           ~\E g \in tags : g.who = "reattach"
    PROVE  ~\E s \in Session : For("reattach", s) \in tags
BY ForType

LEMMA SocketClosesCovered == TypeOK /\ LoopInv /\ CInv /\ SocketCloses => CInv'
<1> SUFFICES ASSUME TypeOK, LoopInv, CInv, SocketCloses PROVE CInv'
  OBVIOUS
<1>1. PICK n : n = [link |-> FALSE, awaiting |-> FALSE, up |-> <<>>,
                    outbox |-> Abandoned(net.outbox, waits)]
  OBVIOUS
<1>2. n \in Client /\ GoodNet(n) /\ ~n.link /\ n.up = <<>>
  <2>1. /\ Abandoned(net.outbox, waits) \in Seq(GoodUp)
        /\ Abandoned(net.outbox, waits) \in Seq(Upward)
    BY GoodAbandoned, GoodTypes DEF CInv, GoodInv
  <2>2. <<>> \in Seq(GoodUp) /\ <<>> \in Seq(Upward)
    OBVIOUS
  <2>3. n \in Client
    BY <1>1, <2>1, <2>2 DEF Client
  <2> QED
    BY <1>1, <2>1, <2>2, <2>3 DEF GoodNet
<1>3. /\ Rejected(n, {}, waits)
      /\ UNCHANGED <<first, tabs, conn, live, crossed>>
      /\ down' = <<>> /\ attached' = {}
  BY <1>1 DEF SocketCloses, sessionStore, stores, Unlinked
<1>4. GoodNet(net') /\ net'.link = FALSE /\ net'.up = <<>>
  BY <1>2, <1>3, GoodRejected
<1>5. GoodInv' /\ AnnounceInv' /\ FirstInv'
  <2>1. <<>> \in Seq(GoodDown) /\ \A i \in 1..Len(<<>>) : FALSE
    OBVIOUS
  <2>2. GoodInv' /\ AnnounceInv'
    BY <1>3, <1>4, <2>1 DEF GoodNet, GoodInv, AnnounceInv
  <2>3. FirstInv'
    BY <1>3, <1>4 DEF CInv, FirstInv
  <2> QED
    BY <2>2, <2>3
<1>6. CASE \E g \in waits : g.who = "reattach"
  <2>1. PICK tags : tags = waits
    OBVIOUS
  <2>2. tags \in SUBSET waits /\ Rejected(n, waits \ tags, tags)
    BY <1>3, <2>1
  <2> QED
    BY <1>3, <1>5, <1>6, <2>1, <2>2, RejectedCovers DEF CInv
<1>7. CASE ~\E g \in waits : g.who = "reattach"
  <2>1. ~\E s \in Session : For("reattach", s) \in waits
    BY <1>7, NotReattach
  <2>2. UNCHANGED <<loop, todo>> /\ ~loop
    BY <1>3, <1>7, <2>1, LoopPending DEF Rejected
  <2>3. CoverInv'
    BY <1>3, <1>4, <2>2 DEF CoverInv, LoopTabs, Covered
  <2> QED
    BY <1>5, <2>3 DEF CInv
<1> QED
  BY <1>6, <1>7

(* A message is taken that changes no tab. *)
LEMMA MessageTaken ==
    ASSUME TypeOK, CInv, UNCHANGED <<live, attached, first, tabs, loop, todo, crossed>>,
           GoodNet(net'), net'.link = net.link, UNCHANGED waits, down # <<>>, down' \in Seq(GoodDown), AnnounceInv',
           \A s \in Session : Known(s) => Known(s)',
           \A s \in Session : errors[s] # "none" => errors'[s] # "none"
    PROVE  CInv'
<1>1. GoodInv'
  BY DEF GoodInv, GoodNet
<1>2. FirstInv'
  BY DEF CInv, FirstInv
<1>3. CoverInv'
  BY CoverKept DEF CInv
<1> QED
  BY <1>1, <1>2, <1>3 DEF CInv

(* One promise is rejected, and what is said to it is abandoned or taken.   *)
LEMMA OneRejected ==
    ASSUME TypeOK, LoopInv, CInv, NEW n \in Client, GoodNet(n), n.link = net.link,
           net.up = <<>> => n.up = <<>>,
           NEW g \in waits, Rejected(n, waits \ {g}, {g}),
           UNCHANGED <<live, attached, first, tabs, conn, crossed>>,
           down' \in Seq(GoodDown), AnnounceInv', down = <<>> => down' = <<>>,
           \A s : Closing(down, s) => Closing(down', s)
    PROVE  CInv'
<1>1. GoodNet(net') /\ net'.link = net.link /\ (~net.link => net'.up = n.up)
  BY GoodRejected
<1>2. GoodInv' /\ AnnounceInv' /\ FirstInv'
  BY <1>1, FirstKept DEF CInv, GoodInv, GoodNet
<1>3. CASE g.who = "reattach"
  <2>1. CoverInv'
    BY <1>3, RejectedCovers DEF CInv
  <2> QED
    BY <1>2, <2>1 DEF CInv
<1>4. CASE g.who # "reattach"
  <2>1. \A s \in Session : For("reattach", s) # g
    BY <1>4 DEF For
  <2>2. waits' = waits \ {g} /\ UNCHANGED <<loop, todo>>
    BY <2>1 DEF Rejected
  <2>3. \A s \in Session : errors'[s] = errors[s]
    BY <2>1 DEF Rejected
  <2>4. \A s \in Session : Known(s) => Known(s)'
    BY KnownKept
  <2>5. CoverInv'
    BY <1>1, <1>4, <2>2, <2>3, <2>4, CoverKept DEF CInv
  <2> QED
    BY <1>2, <2>5 DEF CInv
<1> QED
  BY <1>3, <1>4

LEMMA TimesOutCovered ==
    TypeOK /\ LoopInv /\ CInv /\ (\E g \in waits : RequestTimesOut(g)) => CInv'
<1> SUFFICES ASSUME TypeOK, LoopInv, CInv, NEW g \in waits, RequestTimesOut(g) PROVE CInv'
  OBVIOUS
<1>0. net \in Client /\ GoodNet(net)
  BY GoodClient DEF CInv
<1>1. PICK n : n = [net EXCEPT !.outbox = Abandoned(@, {g}), !.up = Abandoned(@, {g})]
  OBVIOUS
<1>2. /\ n \in Client /\ GoodNet(n) /\ n.link = net.link
      /\ net.up = <<>> => n.up = <<>>
  <2>1. /\ Abandoned(net.outbox, {g}) \in Seq(GoodUp)
        /\ Abandoned(net.up, {g}) \in Seq(GoodUp)
    BY <1>0, GoodAbandoned DEF GoodNet
  <2>2. n.outbox = Abandoned(net.outbox, {g}) /\ n.up = Abandoned(net.up, {g})
    BY <1>0, <1>1 DEF Client
  <2>3. n \in Client /\ n.link = net.link
    <3>1. /\ Abandoned(net.outbox, {g}) \in Seq(Upward)
          /\ Abandoned(net.up, {g}) \in Seq(Upward)
      BY <2>1, GoodTypes
    <3> QED
      BY <1>0, <1>1, <3>1 DEF Client
  <2> QED
    BY <2>1, <2>2, <2>3, GoodAbandoned DEF GoodNet
<1>3. /\ Rejected(n, waits \ {g}, {g}) /\ down' = Abandoned(down, {g})
      /\ UNCHANGED <<live, attached, first, tabs, conn, crossed>>
  BY <1>1 DEF RequestTimesOut, sessionStore, stores, gateway, bounds
<1>4. /\ down' \in Seq(GoodDown) /\ AnnounceInv'
      /\ \A s : Closing(down, s) => Closing(down', s)
  BY <1>3, DownAbandoned DEF CInv
<1>5. down = <<>> => down' = <<>>
  BY <1>3, GoodAbandoned
<1> QED
  BY <1>2, <1>3, <1>4, <1>5, OneRejected

LEMMA ReceiveRefusedCovered == TypeOK /\ LoopInv /\ CInv /\ ReceiveRefused => CInv'
<1> SUFFICES ASSUME TypeOK, LoopInv, CInv, ReceiveRefused PROVE CInv'
  OBVIOUS
<1>0. net \in Client /\ GoodNet(net)
  BY GoodClient DEF CInv
<1>1. /\ down # <<>> /\ Message.t = "refused" /\ down' = Tail(down)
      /\ UNCHANGED <<live, attached, first, tabs, conn, crossed>>
  BY DEF ReceiveRefused, Take, sessionStore, stores, gateway, bounds
<1>2. \A s : ~Closes(Message, s)
  BY <1>1 DEF Closes
<1>3. /\ down' \in Seq(GoodDown) /\ AnnounceInv'
      /\ \A s : Closing(down, s) => Closing(down', s)
  BY <1>1, <1>2, DownTaken DEF CInv
<1>4. CASE Message.for \in waits
  <2>1. PICK g \in waits : g = Message.for
    BY <1>4
  <2>2. Rejected(net, waits \ {g}, {g})
    BY <2>1 DEF ReceiveRefused
  <2> QED
    BY <1>0, <1>1, <1>3, <2>1, <2>2, OneRejected
<1>5. CASE Message.for \notin waits
  <2>1. UNCHANGED <<net, waits, errors, loop, todo>>
    BY <1>5 DEF ReceiveRefused, client
  <2> QED
    BY <1>0, <1>1, <1>3, <2>1, KnownKept, MessageTaken
<1> QED
  BY <1>4, <1>5

(* The answer's session is a tab from now on, and known. *)
LEMMA AnsweredCovers ==
    ASSUME TypeOK, LoopInv, CoverInv, UNCHANGED crossed,
           NEW s \in Session, NEW g \in waits, g.s.c = s.c, Known(s)',
           Resumed(s, g)
    PROVE  CoverInv'
<1> SUFFICES ASSUME ~crossed PROVE LoopTabs' /\ Covered'
  BY DEF CoverInv
<1>1. tabs \in Seq(Session) /\ todo \in Seq(Session) /\ g \in Tag
  BY DEF TypeOK
<1>2. s \in ToSet(tabs') /\ ToSet(tabs) \subseteq ToSet(tabs') \cup {g.s}
  <2>1. PICK q \in Seq(Session) : q = tabs
    BY <1>1
  <2>2. /\ ToSet(Added(q, s)) = ToSet(q) \cup {s}
        /\ ToSet(q) \cup {s} \subseteq ToSet(Replaced(q, g, s)) \cup {g.s}
        /\ s \in ToSet(Replaced(q, g, s))
    BY AddedType
  <2>3. tabs' = Added(q, s) \/ tabs' = Replaced(q, g, s)
    BY <2>1 DEF Resumed
  <2> QED
    BY <2>1, <2>2, <2>3
<1>3. Covered'
  BY <1>2 DEF Covered
<1>4. tabs' # <<>>
  BY <1>2 DEF ToSet
<1>5. ASSUME OneCharacter'
      PROVE  /\ \A u \in ToSet(tabs') : u.c = s.c
             /\ \A u \in ToSet(tabs) : u.c = s.c
             /\ OneCharacter
  BY <1>2, <1>5 DEF OneCharacter
<1>6. CASE g.who = "reattach"
  <2>1. LoopOn(net, waits \ {g}, todo)
    BY <1>6, ClicksApart DEF Resumed
  <2>2. loop /\ LoopTabs
    BY <1>6, LoopPending DEF CoverInv
  <2>3. \A h \in waits \ {g} : h.who # "reattach"
    BY <1>6, OthersRemain
  <2>4. ASSUME OneCharacter'
        PROVE  /\ \A h \in waits' : h.who = "reattach" => h.s.c = s.c
               /\ \A t \in ToSet(todo') : t.c = s.c
    <3>1. tabs[1] \in ToSet(tabs)
      BY <1>1, <2>2, FirstOf DEF LoopTabs
    <3>2. PICK c : c = s.c
      OBVIOUS
    <3>3. \A t \in ToSet(todo) : t.c = c
      BY <1>5, <2>2, <2>4, <3>1, <3>2 DEF LoopTabs
    <3>4. PICK q \in Seq(Session) : q = todo
      BY <1>1
    <3>5. PICK n : n = net
      OBVIOUS
    <3>6. PICK w : w = waits \ {g}
      OBVIOUS
    <3>7. /\ LoopOn(n, w, q)
          /\ \A h \in w : h.who # "reattach"
          /\ \A t \in ToSet(q) : t.c = c
      BY <2>1, <2>3, <3>3, <3>4, <3>5, <3>6
    <3>8. /\ \A h \in waits' : h.who = "reattach" => h.s.c = c
          /\ \A t \in ToSet(todo') : t.c = c
      BY <3>7, LoopOnTabs, SMTT(30)
    <3> QED
      BY <3>2, <3>8
  <2>5. LoopTabs'
    BY <1>4, <1>5, <2>4 DEF LoopTabs
  <2> QED
    BY <1>3, <2>5
<1>7. CASE g.who # "reattach"
  <2>1. waits' = waits \ {g} /\ UNCHANGED <<loop, todo>>
    BY <1>7 DEF Resumed
  <2>2. ASSUME loop, OneCharacter'
        PROVE  /\ \A h \in waits' : h.who = "reattach" => h.s.c = s.c
               /\ \A t \in ToSet(todo') : t.c = s.c
    <3>1. LoopTabs
      BY DEF CoverInv
    <3>2. tabs[1] \in ToSet(tabs)
      BY <1>1, <2>2, <3>1, FirstOf DEF LoopTabs
    <3> QED
      BY <1>5, <2>1, <2>2, <3>1, <3>2 DEF LoopTabs
  <2>3. LoopTabs'
    BY <1>4, <1>5, <2>1, <2>2 DEF LoopTabs
  <2> QED
    BY <1>3, <2>3
<1> QED
  BY <1>6, <1>7

LEMMA GoodResumed ==
    ASSUME TypeOK, GoodInv, NEW s, NEW g, Resumed(s, g)
    PROVE  /\ GoodNet(net') /\ net'.link = net.link
           /\ ~net.link => net'.up = net.up
<1>1. net \in Client /\ GoodNet(net) /\ todo \in Seq(Session)
  BY GoodClient DEF TypeOK
<1>2. CASE LoopOn(net, waits \ {g}, todo)
  BY <1>1, <1>2, GoodLoopOn
<1>3. CASE net' = net
  BY <1>1, <1>3
<1> QED
  BY <1>2, <1>3 DEF Resumed

LEMMA ReceiveOpenedCovered == TypeOK /\ LoopInv /\ CInv /\ ReceiveOpened => CInv'
<1> SUFFICES ASSUME TypeOK, LoopInv, CInv, ReceiveOpened PROVE CInv'
  OBVIOUS
<1>0. net \in Client /\ GoodNet(net)
  BY GoodClient DEF CInv
<1>1. /\ down # <<>> /\ Message.t = "opened" /\ down' = Tail(down)
      /\ UNCHANGED <<live, attached, first, conn, errors, crossed>>
  BY DEF ReceiveOpened, Take, stores, gateway, bounds
<1>2. /\ Announces(Message) /\ \A s : ~Closes(Message, s)
      /\ Message.s \in Session /\ Message.s.c = Message.for.s.c
  <2>1. Message \in GoodDown
    BY <1>1, GoodMessages DEF CInv
  <2> QED
    BY <1>1, <2>1 DEF Announces, Closes, GoodDown, Downward
<1>3. /\ down' \in Seq(GoodDown) /\ AnnounceInv'
      /\ \A s : Closing(down, s) => Closing(down', s)
      /\ Attached(Message.s) \/ Closing(down', Message.s)
  BY <1>1, <1>2, DownTaken DEF CInv
<1>4. CASE Message.for \in waits
  <2>1. PICK s \in Session, g \in waits : s = Message.s /\ g = Message.for
    BY <1>2, <1>4
  <2>2. Resumed(s, g)
    BY <2>1 DEF ReceiveOpened, SessionOf
  <2>3. GoodNet(net') /\ net'.link = net.link /\ (~net.link => net'.up = net.up)
    BY <2>2, GoodResumed DEF CInv
  <2>4. GoodInv'
    BY <1>3, <2>3 DEF GoodInv, GoodNet
  <2>5. FirstInv'
    BY <1>1 DEF CInv, FirstInv
  <2>6. Known(s)'
    <3>1. Closing(down', s) => Known(s)'
      BY DEF Known
    <3>2. Attached(s) => Attached(s)'
      BY <1>1 DEF Attached
    <3> QED
      BY <1>3, <2>1, <3>1, <3>2 DEF Known
  <2>7. CoverInv'
    BY <1>1, <1>2, <2>1, <2>2, <2>6, AnsweredCovers DEF CInv
  <2> QED
    BY <1>3, <2>4, <2>5, <2>7 DEF CInv
<1>5. CASE Message.for \notin waits
  <2>1. UNCHANGED <<net, waits, tabs, loop, todo>>
    BY <1>5 DEF ReceiveOpened, client, sessionStore
  <2> QED
    BY <1>0, <1>1, <1>3, <2>1, KnownKept, MessageTaken
<1> QED
  BY <1>4, <1>5

LEMMA ReceivesCovered ==
    ASSUME TypeOK, LoopInv, CInv,
           \/ ReceiveAuth \/ ReceiveSnapshot \/ ReceiveEvent \/ ReceiveConnection
           \/ ReceiveError
    PROVE  CInv'
<1>0. net \in Client /\ GoodNet(net)
  BY GoodClient DEF CInv
<1>1. /\ down # <<>> /\ down' = Tail(down)
      /\ UNCHANGED <<live, attached, first, tabs, loop, todo, crossed>> /\ UNCHANGED waits
  BY DEF ReceiveAuth, ReceiveSnapshot, ReceiveEvent, ReceiveConnection, ReceiveError, Take,
         client, reattaching, sessionStore, gateway, bounds
<1>2. /\ down' \in Seq(GoodDown) /\ AnnounceInv'
      /\ \A s : Closing(down, s) => Closes(Message, s) \/ Closing(down', s)
      /\ Announces(Message) => Attached(Message.s) \/ Closing(down', Message.s)
  BY <1>1, DownTaken DEF CInv
<1>3. Message \in GoodDown
  BY <1>1, GoodMessages DEF CInv
<1>4. GoodNet(net') /\ net'.link = net.link
  <2>1. CASE net' = net
    BY <1>0, <2>1
  <2>2. CASE ReceiveAuth /\ net' # net
    <3>1. PICK n : n = [net EXCEPT !.awaiting = FALSE]
      OBVIOUS
    <3>2. n \in Client /\ n.link = net.link /\ n.outbox = net.outbox /\ n.up = net.up
      BY <1>0, <3>1 DEF Client
    <3>3. GoodNet(n)
      BY <1>0, <3>2 DEF GoodNet
    <3>4. net' = Flushed(n)
      BY <2>2, <3>1 DEF ReceiveAuth, Granted
    <3> QED
      BY <3>2, <3>3, <3>4, GoodClientOps
  <2> QED
    BY <2>1, <2>2 DEF ReceiveSnapshot, ReceiveEvent, ReceiveConnection, ReceiveError, client
<1>5. CASE ReceiveConnection
  <2>1. /\ Message.t = "connection" /\ UNCHANGED <<net, errors>>
        /\ conn' = [conn EXCEPT ![Message.s] = Message.v]
    BY <1>5 DEF ReceiveConnection, Take, client, uiStore
  <2>2. Message.s \in Session /\ Message.v \in {"connected", "closed"}
    BY <1>3, <2>1 DEF GoodDown, Downward
  <2>3. conn \in [Session -> {"connecting", "connected", "closed"}]
    BY DEF TypeOK
  <2>4. ASSUME NEW s \in Session, Known(s) PROVE Known(s)'
    <3>1. Closing(down', s) => Known(s)'
      BY DEF Known
    <3>2. Attached(s) => Known(s)'
      BY <1>1 DEF Known, Attached
    <3>3. CASE s # Message.s
      <4>1. conn'[s] = conn[s] /\ ~Closes(Message, s)
        BY <2>1, <2>2, <2>3, <3>3 DEF Closes
      <4>2. conn[s] = "closed" => Known(s)'
        BY <4>1 DEF Known
      <4> QED
        BY <1>2, <2>4, <3>1, <3>2, <4>1, <4>2 DEF Known
    <3>4. CASE s = Message.s /\ Message.v = "closed"
      <4>1. conn'[s] = "closed"
        BY <2>1, <2>2, <2>3, <3>4
      <4> QED
        BY <4>1 DEF Known
    <3>5. CASE s = Message.s /\ Message.v = "connected"
      <4>1. Announces(Message)
        BY <2>1, <3>5 DEF Announces
      <4> QED
        BY <1>2, <3>1, <3>2, <3>5, <4>1
    <3> QED
      BY <2>2, <3>3, <3>4, <3>5
  <2> QED
    BY <1>1, <1>2, <1>4, <2>1, <2>4, MessageTaken
<1>6. CASE ~ReceiveConnection
  <2>1. Message.t # "connection" /\ UNCHANGED conn
    BY <1>6 DEF ReceiveAuth, ReceiveSnapshot, ReceiveEvent, ReceiveError, Take, stores
  <2>2. \A s \in Session : Known(s) => Known(s)'
    BY <1>1, <1>2, <2>1, KnownKept DEF Closes
  <2>3. \A s \in Session : errors[s] # "none" => errors'[s] # "none"
    <3>1. CASE ReceiveError
      <4>1. Message.s \in Session
        BY <1>3, <3>1 DEF ReceiveError, Take, GoodDown, Downward
      <4> QED
        BY <3>1, <4>1 DEF ReceiveError, TypeOK
    <3>2. CASE ~ReceiveError
      BY <1>6, <3>2 DEF ReceiveAuth, ReceiveSnapshot, ReceiveEvent, uiStore
    <3> QED
      BY <3>1, <3>2
  <2> QED
    BY <1>1, <1>2, <1>4, <2>2, <2>3, MessageTaken
<1> QED
  BY <1>5, <1>6

LEMMA CInvInit == Init => CInv
<1> SUFFICES ASSUME Init PROVE CInv
  OBVIOUS
<1>1. /\ net.link = FALSE /\ net.outbox = <<>> /\ net.up = <<>>
      /\ down = <<>> /\ tabs = <<>> /\ attached = {} /\ loop = FALSE
  BY DEF Init, Unlinked
<1>2. /\ <<>> \in Seq(GoodUp) /\ <<>> \in Seq(GoodDown)
      /\ \A i \in 1..Len(<<>>) : FALSE
  OBVIOUS
<1>3. GoodInv /\ AnnounceInv
  BY <1>1, <1>2 DEF GoodInv, AnnounceInv
<1>4. FirstInv /\ CoverInv
  BY <1>1 DEF FirstInv, CoverInv, LoopTabs
<1> QED
  BY <1>3, <1>4 DEF CInv

LEMMA CInvStep == Inv /\ CInv /\ [Next]_vars => CInv'
<1> SUFFICES ASSUME TypeOK, LoopInv, CInv, [Next]_vars PROVE CInv'
  BY DEF Inv
<1>1. CASE SocketOpens
  BY <1>1, SocketOpensCovered
<1>2. CASE SocketCloses
  BY <1>2, SocketClosesCovered
<1>3. CASE \E tag \in waits : RequestTimesOut(tag)
  BY <1>3, TimesOutCovered
<1>4. CASE Buttons
  BY <1>4, ButtonsCovered
<1>5. CASE Logout
  BY <1>5, LogoutCovered
<1>6. CASE Receive
  BY <1>6, ReceiveOpenedCovered, ReceiveRefusedCovered, ReceivesCovered DEF Receive
<1>7. CASE Speaks
  BY <1>7, SpeaksStep
<1>8. CASE UNCHANGED vars
  <2>1. /\ UNCHANGED <<net, down, waits, first, loop, todo, tabs>>
        /\ UNCHANGED <<errors, conn, live, attached, crossed>>
    BY <1>8 DEF vars
  <2> QED
    BY <2>1, GoodClient, TabsKept DEF CInv
<1> QED
  BY <1>1, <1>2, <1>3, <1>4, <1>5, <1>6, <1>7, <1>8 DEF Next, Buttons, Speaks

(* A character's tabs are never forgotten: when all is quiet again after    *)
(* losses, refusals, timeouts and reattachments that crossed one another,   *)
(* one of them is fed or says that it is closed, or a banner has named it   *)
(* (attach, reattach, onclose, controller.ts).                              *)
THEOREM NoTabIsForgotten == Spec => []NoTabForgotten
<1>1. CInv => NoTabForgotten
  <2> SUFFICES ASSUME CInv, Quiet, ~crossed, OneCharacter, NEW s \in ToSet(tabs)
      PROVE  \/ \E u \in ToSet(tabs) : Attached(u) \/ conn[u] = "closed"
             \/ \E u \in Session : u.c = s.c /\ errors[u] # "none"
    BY DEF NoTabForgotten
  <2>1. tabs # <<>>
    BY DEF ToSet
  <2>2. Covered
    BY <2>1 DEF CInv, CoverInv
  <2>3. \A u : ~Closing(down, u)
    BY DEF Quiet, Closing
  <2>4. CASE \E u \in ToSet(tabs) : Known(u)
    BY <2>3, <2>4 DEF Known
  <2>5. CASE \E t \in ToSet(tabs), u \in Session : u.c = t.c /\ errors[u] # "none"
    BY <2>5 DEF OneCharacter
  <2> QED
    BY <2>2, <2>4, <2>5 DEF Covered, Quiet
<1> QED
  BY <1>1, CInvInit, CInvStep, InvInit, InvStep, LeavingStep, PTL DEF Spec, Inv
-----------------------------------------------------------------------------
(* The tags of the requests and answers on their way whose promise is still *)
(* awaited: each is on one message, and in waits.                           *)
Tagged(m) == m.t \in {"open", "opened", "refused"} /\ m.for.who # "nobody"
TagOf(m) == IF Tagged(m) THEN {m.for} ELSE {}
Tags(q) == {g \in Tag : \E i \in 1..Len(q) : Tagged(q[i]) /\ q[i].for = g}
Once(q) ==
    \A i, j \in 1..Len(q) :
        Tagged(q[i]) /\ Tagged(q[j]) /\ q[i].for = q[j].for => i = j

NetTags(n) == Tags(n.outbox) \cup Tags(n.up)
NetOnce(n) == Once(n.outbox) /\ Once(n.up) /\ Tags(n.outbox) \cap Tags(n.up) = {}
TagsFit(n, w, d) ==
    /\ \A g \in w : g.who # "nobody"
    /\ NetOnce(n) /\ Once(d) /\ NetTags(n) \cap Tags(d) = {}
    /\ NetTags(n) \cup Tags(d) \subseteq w
TagsInv == TagsFit(net, waits, down)

(* Messages with their tags. *)
Messages == GoodUp \cup GoodDown

LEMMA MessagesTagged ==
    /\ \A m \in Messages : Tagged(m) => m.for \in Tag
    /\ \A m \in Messages : TagOf(m) \subseteq Tag
    /\ \A q \in Seq(GoodUp) : q \in Seq(Messages)
    /\ \A q \in Seq(GoodDown) : q \in Seq(Messages)
<1>1. ASSUME NEW m \in GoodUp, Tagged(m) PROVE m.for \in Tag
  BY <1>1 DEF GoodUp, Upward, Tagged
<1>2. ASSUME NEW m \in GoodDown, Tagged(m) PROVE m.for \in Tag
  BY <1>2 DEF GoodDown, Downward, Tagged
<1>3. GoodUp \subseteq Messages /\ GoodDown \subseteq Messages
  BY DEF Messages
<1>4. \A m \in Messages : Tagged(m) => m.for \in Tag
  BY <1>1, <1>2 DEF Messages
<1>5. ASSUME NEW S, NEW T, S \subseteq T PROVE \A q \in Seq(S) : q \in Seq(T)
  BY <1>5
<1> QED
  BY <1>3, <1>4, <1>5 DEF TagOf

LEMMA TagsConcat ==
    ASSUME NEW p \in Seq(Messages), NEW q \in Seq(Messages)
    PROVE  /\ Tags(p \o q) = Tags(p) \cup Tags(q)
           /\ Once(p) /\ Once(q) /\ Tags(p) \cap Tags(q) = {} => Once(p \o q)
<1> DEFINE r == p \o q
<1>1. /\ r \in Seq(Messages) /\ Len(r) = Len(p) + Len(q)
      /\ \A i \in 1..Len(p) : r[i] = p[i] /\ i \in 1..Len(r)
      /\ \A i \in 1..Len(q) : r[Len(p) + i] = q[i] /\ Len(p) + i \in 1..Len(r)
      /\ \A i \in 1..Len(r) : i \in 1..Len(p) \/ \E j \in 1..Len(q) : i = Len(p) + j
  BY ConcatAt
<1> HIDE DEF r
<1>2. Tags(r) = Tags(p) \cup Tags(q)
  <2>1. ASSUME NEW g \in Tags(r) PROVE g \in Tags(p) \cup Tags(q)
    <3>1. PICK i \in 1..Len(r) : Tagged(r[i]) /\ r[i].for = g
      BY DEF Tags
    <3>2. CASE i \in 1..Len(p)
      BY <1>1, <2>1, <3>1, <3>2 DEF Tags
    <3>3. ASSUME NEW j \in 1..Len(q), i = Len(p) + j PROVE g \in Tags(q)
      <4>1. r[i] = q[j]
        BY <1>1, <3>3
      <4> QED
        BY <2>1, <3>1, <4>1 DEF Tags
    <3> QED
      BY <1>1, <3>2, <3>3
  <2>2. Tags(p) \subseteq Tags(r)
    BY <1>1 DEF Tags
  <2>3. ASSUME NEW g \in Tags(q) PROVE g \in Tags(r)
    <3>1. PICK j \in 1..Len(q) : Tagged(q[j]) /\ q[j].for = g
      BY DEF Tags
    <3>2. PICK i : i = Len(p) + j
      OBVIOUS
    <3>3. r[i] = q[j] /\ i \in 1..Len(r)
      BY <1>1, <3>2
    <3> QED
      BY <2>3, <3>1, <3>3 DEF Tags
  <2> QED
    BY <2>1, <2>2, <2>3
<1>3. ASSUME Once(p), Once(q), Tags(p) \cap Tags(q) = {},
             NEW i \in 1..Len(r), NEW j \in 1..Len(r),
             Tagged(r[i]), Tagged(r[j]), r[i].for = r[j].for
      PROVE  i = j
  <2>0. r[i].for \in Tag
    BY <1>1, <1>3, MessagesTagged
  <2>1. CASE i \in 1..Len(p) /\ j \in 1..Len(p)
    BY <1>1, <1>3, <2>1 DEF Once
  <2>2. ASSUME NEW k \in 1..Len(q), NEW l \in 1..Len(q), i = Len(p) + k, j = Len(p) + l
        PROVE  i = j
    <3>1. r[i] = q[k] /\ r[j] = q[l]
      BY <1>1, <2>2
    <3>2. k = l
      BY <1>3, <3>1 DEF Once
    <3> QED
      BY <2>2, <3>2
  <2>3. ASSUME NEW a \in 1..Len(p), NEW k \in 1..Len(q), NEW b, b = Len(p) + k,
               Tagged(r[a]), Tagged(r[b]), r[a].for = r[b].for, r[a].for \in Tag
        PROVE  FALSE
    <3>1. r[a] = p[a] /\ r[b] = q[k]
      BY <1>1, <2>3
    <3>2. r[a].for \in Tags(p) /\ r[a].for \in Tags(q)
      BY <2>3, <3>1 DEF Tags
    <3> QED
      BY <1>3, <3>2
  <2> QED
    BY <1>1, <1>3, <2>0, <2>1, <2>2, <2>3
<1>4. Once(p) /\ Once(q) /\ Tags(p) \cap Tags(q) = {} => Once(r)
  BY <1>3 DEF Once
<1> QED
  BY <1>2, <1>4 DEF r

LEMMA TagsOne ==
    ASSUME NEW m \in Messages
    PROVE  Tags(<<m>>) = TagOf(m) /\ Once(<<m>>) /\ <<m>> \in Seq(Messages)
<1>1. Len(<<m>>) = 1 /\ <<m>>[1] = m /\ <<m>> \in Seq(Messages)
  OBVIOUS
<1>2. \A i \in 1..1 : i = 1
  OBVIOUS
<1> QED
  BY <1>1, <1>2, MessagesTagged DEF Tags, TagOf, Once

LEMMA TagsAppend ==
    ASSUME NEW q \in Seq(Messages), NEW m \in Messages
    PROVE  /\ Tags(Append(q, m)) = Tags(q) \cup TagOf(m)
           /\ Once(q) /\ TagOf(m) \cap Tags(q) = {} => Once(Append(q, m))
<1>1. Append(q, m) = q \o <<m>>
  OBVIOUS
<1>2. PICK p : p = <<m>>
  OBVIOUS
<1>3. p \in Seq(Messages) /\ Tags(p) = TagOf(m) /\ Once(p)
  BY <1>2, TagsOne
<1>4. /\ Tags(q \o p) = Tags(q) \cup TagOf(m)
      /\ Once(q) /\ TagOf(m) \cap Tags(q) = {} => Once(q \o p)
  BY <1>3, TagsConcat
<1> QED
  BY <1>1, <1>2, <1>4

LEMMA TagsNone == Tags(<<>>) = {} /\ Once(<<>>)
<1>1. \A i \in 1..Len(<<>>) : FALSE
  OBVIOUS
<1> QED
  BY <1>1 DEF Tags, Once

LEMMA TagsTail ==
    ASSUME NEW q \in Seq(Messages), q # <<>>
    PROVE  /\ Tags(q) = TagOf(Head(q)) \cup Tags(Tail(q))
           /\ Once(q) => Once(Tail(q)) /\ TagOf(Head(q)) \cap Tags(Tail(q)) = {}
<1> DEFINE r == Tail(q)
<1>1. /\ r \in Seq(Messages) /\ Head(q) \in Messages /\ Head(q) = q[1] /\ 1 \in 1..Len(q)
      /\ \A i \in 1..Len(r) : r[i] = q[i + 1] /\ i + 1 \in 1..Len(q)
  BY TailAt
<1>2. q = <<q[1]>> \o r
  BY DEF r
<1> HIDE DEF r
<1>3. Tags(q) = TagOf(q[1]) \cup Tags(r)
  <2>1. PICK m \in Messages : m = q[1]
    BY <1>1
  <2> QED
    BY <1>1, <1>2, <2>1, TagsConcat, TagsOne
<1>4. Once(q) => Once(r)
  BY <1>1 DEF Once
<1>5. ASSUME Once(q), NEW g \in TagOf(q[1]), g \in Tags(r) PROVE FALSE
  <2>1. PICK i \in 1..Len(r) : Tagged(r[i]) /\ r[i].for = g
    BY <1>5 DEF Tags
  <2>2. Tagged(q[1]) /\ q[1].for = g
    BY <1>5 DEF TagOf
  <2>3. PICK j : j = i + 1
    OBVIOUS
  <2>4. j # 1 /\ j \in 1..Len(q) /\ q[j] = r[i]
    BY <1>1, <2>3
  <2> QED
    BY <1>1, <1>5, <2>1, <2>2, <2>4 DEF Once
<1> QED
  BY <1>1, <1>3, <1>4, <1>5 DEF r

LEMMA TagsAbandoned ==
    ASSUME NEW settled, NEW q \in Seq(Messages)
    PROVE  /\ Tags(Abandoned(q, settled)) = Tags(q) \ settled
           /\ Once(q) => Once(Abandoned(q, settled))
<1> DEFINE A(m) == IF m.t \in {"open", "opened", "refused"} /\ m.for \in settled
                     THEN [m EXCEPT !.for.who = "nobody"] ELSE m
           r == Abandoned(q, settled)
<1>1. ASSUME NEW m \in Messages
      PROVE  /\ Tagged(A(m)) <=> Tagged(m) /\ m.for \notin settled
             /\ Tagged(A(m)) => A(m).for = m.for
  <2>1. CASE m.t \in {"open", "opened", "refused"} /\ m.for \in settled
    <3>1. m.for \in Tag
      BY <1>1, <2>1 DEF Messages, GoodUp, GoodDown, Upward, Downward
    <3>2. A(m).for.who = "nobody"
      <4>1. CASE m.t = "open"
        <5>1. m \in [t : {"open"}, c : Chars, for : Tag]
          BY <1>1, <4>1 DEF Messages, GoodUp, GoodDown, Upward, Downward
        <5> QED
          BY <2>1, <3>1, <5>1 DEF Tag
      <4>2. CASE m.t = "opened"
        <5>1. m \in [t : {"opened"}, s : Session, for : Tag]
          BY <1>1, <4>2 DEF Messages, GoodUp, GoodDown, Upward, Downward
        <5> QED
          BY <2>1, <3>1, <5>1 DEF Tag
      <4>3. CASE m.t = "refused"
        <5>1. m \in [t : {"refused"}, for : Tag]
          BY <1>1, <4>3 DEF Messages, GoodUp, GoodDown, Upward, Downward
        <5> QED
          BY <2>1, <3>1, <5>1 DEF Tag
      <4> QED
        BY <2>1, <4>1, <4>2, <4>3
    <3> HIDE DEF A
    <3> QED
      BY <2>1, <3>2 DEF Tagged
  <2>2. CASE ~(m.t \in {"open", "opened", "refused"} /\ m.for \in settled)
    BY <2>2 DEF Tagged
  <2> QED
    BY <2>1, <2>2
<1>2. r = [i \in DOMAIN q |-> A(q[i])] /\ DOMAIN q = 1..Len(q) /\ Len(q) \in Nat
  BY DEF Abandoned
<1> HIDE DEF A, r
<1>3. Len(r) = Len(q) /\ \A i \in 1..Len(q) : r[i] = A(q[i]) /\ q[i] \in Messages
  BY <1>2
<1>4. \A i \in 1..Len(q) :
        /\ Tagged(r[i]) <=> Tagged(q[i]) /\ q[i].for \notin settled
        /\ Tagged(r[i]) => r[i].for = q[i].for
  BY <1>1, <1>3
<1>5. Tags(r) = Tags(q) \ settled
  BY <1>3, <1>4 DEF Tags
<1>6. Once(q) => Once(r)
  BY <1>3, <1>4 DEF Once
<1> QED
  BY <1>5, <1>6 DEF r

(* A message for nobody changes no tag; a new tag goes on one message.      *)
LEMMA TagsClientOps ==
    ASSUME NEW n \in Client, GoodNet(n), NetOnce(n)
    PROVE  /\ \A m \in GoodUp : TagOf(m) \cap NetTags(n) = {} =>
                /\ NetTags(Sent(n, m)) = NetTags(n) \cup TagOf(m)
                /\ NetOnce(Sent(n, m))
           /\ NetTags(AuthStarted(n, Auth)) = NetTags(n) /\ NetOnce(AuthStarted(n, Auth))
           /\ NetTags(Flushed(n)) = NetTags(n) /\ NetOnce(Flushed(n))
           /\ \A on \in BOOLEAN :
                NetTags(WithToken(n, on, Auth)) = NetTags(n) /\ NetOnce(WithToken(n, on, Auth))
<1>1. n.outbox \in Seq(Messages) /\ n.up \in Seq(Messages)
  BY MessagesTagged DEF GoodNet
<1>2. Auth \in Messages /\ TagOf(Auth) = {}
  BY AuthType DEF Messages, GoodUp, Auth, TagOf, Tagged
<1>3. ASSUME NEW m \in GoodUp, TagOf(m) \cap NetTags(n) = {}
      PROVE  /\ NetTags(Sent(n, m)) = NetTags(n) \cup TagOf(m)
             /\ NetOnce(Sent(n, m))
  <2>0. m \in Messages
    BY DEF Messages
  <2>1. /\ Tags(Append(n.up, m)) = Tags(n.up) \cup TagOf(m)
        /\ Tags(Append(n.outbox, m)) = Tags(n.outbox) \cup TagOf(m)
        /\ Once(Append(n.up, m)) /\ Once(Append(n.outbox, m))
    BY <1>1, <1>3, <2>0, TagsAppend DEF NetTags, NetOnce
  <2>2. CASE n.link /\ ~n.awaiting
    <3>1. Sent(n, m).up = Append(n.up, m) /\ Sent(n, m).outbox = n.outbox
      BY <2>2 DEF Sent, Client
    <3> QED
      BY <1>3, <2>1, <3>1 DEF NetTags, NetOnce
  <2>3. CASE ~(n.link /\ ~n.awaiting)
    <3>1. Sent(n, m).up = n.up /\ Sent(n, m).outbox = Append(n.outbox, m)
      BY <2>3 DEF Sent, Client
    <3> QED
      BY <1>3, <2>1, <3>1 DEF NetTags, NetOnce
  <2> QED
    BY <2>2, <2>3
<1>4. NetTags(AuthStarted(n, Auth)) = NetTags(n) /\ NetOnce(AuthStarted(n, Auth))
  <2>1. Tags(Append(n.up, Auth)) = Tags(n.up) /\ Once(Append(n.up, Auth))
    BY <1>1, <1>2, TagsAppend DEF NetOnce
  <2>2. AuthStarted(n, Auth).up = Append(n.up, Auth) /\ AuthStarted(n, Auth).outbox = n.outbox
    BY DEF AuthStarted, Client
  <2> QED
    BY <2>1, <2>2 DEF NetTags, NetOnce
<1>5. NetTags(Flushed(n)) = NetTags(n) /\ NetOnce(Flushed(n))
  <2>1. /\ Tags(n.up \o n.outbox) = Tags(n.up) \cup Tags(n.outbox)
        /\ Once(n.up \o n.outbox)
    BY <1>1, TagsConcat DEF NetOnce
  <2>2. Flushed(n).up = n.up \o n.outbox /\ Flushed(n).outbox = <<>>
    BY DEF Flushed, Client
  <2> QED
    BY <2>1, <2>2, TagsNone DEF NetTags, NetOnce
<1> QED
  BY <1>3, <1>4, <1>5 DEF WithToken

LEMMA AskFits ==
    ASSUME NEW n \in Client, GoodNet(n), NEW w, NEW d, TagsFit(n, w, d),
           NEW who \in {"reattach", "select"} \cup Clicks, NEW s,
           For(who, s) \in Tag, For(who, s) \notin w, Ask(n, w, For(who, s))
    PROVE  TagsFit(net', waits', d)
<1> DEFINE g == For(who, s)
<1>1. OpenRequest(g) \in GoodUp
  BY GoodRequest
<1>2. TagOf(OpenRequest(g)) = {g} /\ g.who # "nobody"
  BY ClicksApart DEF TagOf, Tagged, OpenRequest, For
<1>3. net' = Sent(n, OpenRequest(g)) /\ waits' = w \cup {g} /\ g \notin w
  BY DEF Ask
<1> HIDE DEF g
<1>4. NetTags(net') = NetTags(n) \cup {g} /\ NetOnce(net')
  <2>1. TagOf(OpenRequest(g)) \cap NetTags(n) = {}
    BY <1>2, <1>3 DEF TagsFit
  <2> QED
    BY <1>1, <1>2, <1>3, <2>1, TagsClientOps DEF TagsFit
<1> QED
  BY <1>2, <1>3, <1>4 DEF TagsFit

LEMMA LoopOnFits ==
    ASSUME NEW n \in Client, GoodNet(n), NEW w, NEW d, TagsFit(n, w, d),
           \A g \in w : g.who # "reattach",
           NEW q \in Seq(Session), LoopOn(n, w, q)
    PROVE  TagsFit(net', waits', d)
<1>1. CASE q # <<>> /\ Ask(n, w, For("reattach", Head(q)))
  <2>1. Head(q) \in Session
    BY <1>1
  <2>2. For("reattach", Head(q)) \in Tag /\ For("reattach", Head(q)) \notin w
    BY <2>1, ForType
  <2> QED
    BY <1>1, <2>2, AskFits
<1>2. CASE net' = n /\ waits' = w
  BY <1>2
<1> QED
  BY <1>1, <1>2 DEF LoopOn

LEMMA RejectedFits ==
    ASSUME TypeOK, LoopInv, NEW n \in Client, GoodNet(n), NEW d,
           NEW tags \in SUBSET waits, TagsFit(n, waits \ tags, d),
           Rejected(n, waits \ tags, tags)
    PROVE  TagsFit(net', waits', d)
<1>1. CASE \E s \in Session : For("reattach", s) \in tags
  <2>1. LoopOn(n, waits \ tags, todo) /\ todo \in Seq(Session)
    BY <1>1 DEF Rejected, TypeOK
  <2>2. \A g \in waits \ tags : g.who # "reattach"
    BY <1>1, ForType DEF LoopInv
  <2> QED
    BY <2>1, <2>2, LoopOnFits
<1>2. CASE ~\E s \in Session : For("reattach", s) \in tags
  BY <1>2 DEF Rejected
<1> QED
  BY <1>1, <1>2

(* What has been taken or abandoned is awaited no more. *)
LEMMA TakenFits ==
    ASSUME GoodInv, NEW w, TagsFit(net, w, down), down # <<>>
    PROVE  /\ TagsFit(net, w, Tail(down))
           /\ \A g : TagOf(Message) = {g} => TagsFit(net, w \ {g}, Tail(down))
<1>1. down \in Seq(Messages)
  BY MessagesTagged DEF GoodInv
<1>2. /\ Tags(down) = TagOf(Message) \cup Tags(Tail(down))
      /\ Once(Tail(down)) /\ TagOf(Message) \cap Tags(Tail(down)) = {}
  BY <1>1, TagsTail DEF TagsFit, Message
<1> QED
  BY <1>2 DEF TagsFit

LEMMA AbandonedFits ==
    ASSUME GoodInv, TagsInv, NEW n, NEW settled,
           n.outbox = Abandoned(net.outbox, settled), n.up = Abandoned(net.up, settled)
    PROVE  TagsFit(n, waits \ settled, Abandoned(down, settled))
<1>1. net.outbox \in Seq(Messages) /\ net.up \in Seq(Messages) /\ down \in Seq(Messages)
  BY MessagesTagged DEF GoodInv
<1>2. /\ Tags(n.outbox) = Tags(net.outbox) \ settled
      /\ Tags(n.up) = Tags(net.up) \ settled
      /\ Tags(Abandoned(down, settled)) = Tags(down) \ settled
      /\ Once(net.outbox) => Once(n.outbox)
      /\ Once(net.up) => Once(n.up)
      /\ Once(down) => Once(Abandoned(down, settled))
  BY <1>1, TagsAbandoned
<1> QED
  BY <1>2 DEF TagsInv, TagsFit, NetTags, NetOnce
-----------------------------------------------------------------------------
(* What a message says of the state of a kind of a session, 0 for nothing;  *)
(* the state that the browser shows once it has taken all that is in d.     *)
Says(m, s, k) ==
    IF m.t = "snapshot" /\ m.s = s THEN m.v[k]
    ELSE IF m.t = "event" /\ m.s = s /\ m.k = k THEN m.v ELSE 0
Silent(d, s, k) == \A i \in 1..Len(d) : Says(d[i], s, k) = 0
LastSaid(d, s, k, v) ==
    \E i \in 1..Len(d) :
        /\ Says(d[i], s, k) = v
        /\ \A j \in 1..Len(d) : j > i => Says(d[j], s, k) = 0
Latest(d, old, s, k, v) ==
    \/ old = v /\ Silent(d, s, k)
    \/ v # 0 /\ LastSaid(d, s, k, v)

LEMMA SilentConcat ==
    ASSUME NEW p \in Seq(GoodDown), NEW q \in Seq(GoodDown), NEW s, NEW k
    PROVE  Silent(p \o q, s, k) <=> Silent(p, s, k) /\ Silent(q, s, k)
<1> DEFINE r == p \o q
<1>1. /\ r \in Seq(GoodDown) /\ Len(r) = Len(p) + Len(q)
      /\ \A i \in 1..Len(p) : r[i] = p[i] /\ i \in 1..Len(r)
      /\ \A i \in 1..Len(q) : r[Len(p) + i] = q[i] /\ Len(p) + i \in 1..Len(r)
      /\ \A i \in 1..Len(r) : i \in 1..Len(p) \/ \E j \in 1..Len(q) : i = Len(p) + j
  BY ConcatAt
<1> HIDE DEF r
<1>2. ASSUME Silent(p, s, k), Silent(q, s, k), NEW i \in 1..Len(r)
      PROVE  Says(r[i], s, k) = 0
  <2>1. CASE i \in 1..Len(p)
    <3>1. Says(p[i], s, k) = 0 /\ r[i] = p[i]
      BY <1>1, <1>2, <2>1 DEF Silent
    <3> QED BY <3>1
  <2>2. ASSUME NEW j \in 1..Len(q), i = Len(p) + j PROVE Says(r[i], s, k) = 0
    <3>1. Says(q[j], s, k) = 0 /\ r[i] = q[j]
      BY <1>1, <1>2, <2>2 DEF Silent
    <3> QED BY <3>1
  <2> QED BY <1>1, <2>1, <2>2
<1>3. ASSUME Silent(r, s, k), NEW i \in 1..Len(p) PROVE Says(p[i], s, k) = 0
  <2>1. r[i] = p[i] /\ i \in 1..Len(r)
    BY <1>1
  <2>2. Says(r[i], s, k) = 0
    BY <1>3, <2>1 DEF Silent
  <2> QED BY <2>1, <2>2
<1>4. ASSUME Silent(r, s, k), NEW j \in 1..Len(q) PROVE Says(q[j], s, k) = 0
  <2>1. PICK i : i = Len(p) + j
    OBVIOUS
  <2>2. r[i] = q[j] /\ i \in 1..Len(r)
    BY <1>1, <2>1
  <2>3. Says(r[i], s, k) = 0
    BY <1>4, <2>2 DEF Silent
  <2> QED
    BY <2>2, <2>3
<1> QED
  BY <1>2, <1>3, <1>4 DEF r, Silent

LEMMA LatestConcat ==
    ASSUME NEW p \in Seq(GoodDown), NEW q \in Seq(GoodDown), NEW s, NEW k, NEW v, NEW old
    PROVE  /\ Latest(p, old, s, k, v) /\ Silent(q, s, k) => Latest(p \o q, old, s, k, v)
           /\ v # 0 /\ LastSaid(q, s, k, v) => Latest(p \o q, old, s, k, v)
<1> DEFINE r == p \o q
<1>1. /\ r \in Seq(GoodDown) /\ Len(r) = Len(p) + Len(q) /\ Len(p) \in Nat /\ Len(q) \in Nat
      /\ \A i \in 1..Len(p) : r[i] = p[i] /\ i \in 1..Len(r)
      /\ \A i \in 1..Len(q) : r[Len(p) + i] = q[i] /\ Len(p) + i \in 1..Len(r)
      /\ \A i \in 1..Len(r) : i \in 1..Len(p) \/ \E j \in 1..Len(q) : i = Len(p) + j
  BY ConcatAt
<1>2. Silent(p, s, k) /\ Silent(q, s, k) => Silent(r, s, k)
  BY SilentConcat
<1> HIDE DEF r
<1>3. ASSUME NEW j \in 1..Len(q), NEW i, i = Len(p) + j
      PROVE  r[i] = q[j] /\ Says(r[i], s, k) = Says(q[j], s, k) /\ i \in 1..Len(r)
  BY <1>1, <1>3
<1>4. ASSUME LastSaid(p, s, k, v), Silent(q, s, k) PROVE LastSaid(r, s, k, v)
  <2>1. PICK i \in 1..Len(p) :
          /\ Says(p[i], s, k) = v
          /\ \A j \in 1..Len(p) : j > i => Says(p[j], s, k) = 0
    BY <1>4 DEF LastSaid
  <2>2. ASSUME NEW j \in 1..Len(r), j > i PROVE Says(r[j], s, k) = 0
    <3>1. CASE j \in 1..Len(p)
      BY <1>1, <2>1, <2>2, <3>1
    <3>2. ASSUME NEW l \in 1..Len(q), j = Len(p) + l PROVE Says(r[j], s, k) = 0
      BY <1>3, <1>4, <3>2 DEF Silent
    <3> QED
      BY <1>1, <3>1, <3>2
  <2>3. Says(r[i], s, k) = v /\ i \in 1..Len(r)
    BY <1>1, <2>1
  <2> QED
    BY <2>2, <2>3 DEF LastSaid
<1>5. ASSUME LastSaid(q, s, k, v) PROVE LastSaid(r, s, k, v)
  <2>1. PICK i \in 1..Len(q) :
          /\ Says(q[i], s, k) = v
          /\ \A j \in 1..Len(q) : j > i => Says(q[j], s, k) = 0
    BY <1>5 DEF LastSaid
  <2>2. PICK a : a = Len(p) + i
    OBVIOUS
  <2>3. ASSUME NEW j \in 1..Len(r), j > a PROVE Says(r[j], s, k) = 0
    <3>0. j \notin 1..Len(p)
      BY <1>1, <2>2, <2>3
    <3>1. PICK l \in 1..Len(q) : j = Len(p) + l
      BY <1>1, <3>0
    <3>2. l > i
      BY <1>1, <2>2, <2>3, <3>1
    <3> QED
      BY <1>3, <2>1, <3>1, <3>2
  <2>4. Says(r[a], s, k) = v /\ a \in 1..Len(r)
    BY <1>3, <2>1, <2>2
  <2> QED
    BY <2>3, <2>4 DEF LastSaid
<1> QED
  BY <1>2, <1>4, <1>5 DEF Latest, r

(* Taking a message: its word replaces what was shown. *)
Taken(old, word) == IF word = 0 THEN old ELSE word

LEMMA LatestTail ==
    ASSUME NEW d \in Seq(GoodDown), d # <<>>, NEW s, NEW k, NEW v, NEW old
    PROVE  /\ Silent(d, s, k) => Says(Head(d), s, k) = 0 /\ Silent(Tail(d), s, k)
           /\ Latest(d, old, s, k, v) =>
                Latest(Tail(d), Taken(old, Says(Head(d), s, k)), s, k, v)
<1> DEFINE r == Tail(d)
<1>1. /\ Head(d) = d[1] /\ 1 \in 1..Len(d)
      /\ \A i \in 1..Len(r) : r[i] = d[i + 1] /\ i + 1 \in 1..Len(d)
      /\ \A i \in 1..Len(d) : i = 1 \/ (i - 1 \in 1..Len(r) /\ r[i - 1] = d[i])
  BY TailAt
<1> HIDE DEF r
<1>2. Silent(d, s, k) => Says(d[1], s, k) = 0 /\ Silent(r, s, k)
  BY <1>1 DEF Silent
<1>3. ASSUME v # 0, NEW i \in 1..Len(d), Says(d[i], s, k) = v,
             \A j \in 1..Len(d) : j > i => Says(d[j], s, k) = 0
      PROVE  Latest(r, Taken(old, Says(d[1], s, k)), s, k, v)
  <2>1. ASSUME NEW j \in 1..Len(r), j + 1 > i PROVE Says(r[j], s, k) = 0
    BY <1>1, <1>3, <2>1
  <2>2. CASE i = 1
    <3>1. Silent(r, s, k)
      BY <2>1, <2>2 DEF Silent
    <3>2. Taken(old, Says(d[1], s, k)) = v
      BY <1>3, <2>2 DEF Taken
    <3> QED
      BY <3>1, <3>2 DEF Latest
  <2>3. CASE i # 1
    <3>1. PICK a : a = i - 1
      OBVIOUS
    <3>2. a \in 1..Len(r) /\ r[a] = d[i]
      BY <1>1, <2>3, <3>1
    <3>3. \A j \in 1..Len(r) : j > a => j + 1 > i
      BY <3>1
    <3>4. LastSaid(r, s, k, v)
      BY <1>3, <2>1, <3>2, <3>3 DEF LastSaid
    <3> QED
      BY <1>3, <3>4 DEF Latest
  <2> QED
    BY <2>2, <2>3
<1>4. ASSUME old = v, Silent(d, s, k)
      PROVE  Latest(r, Taken(old, Says(d[1], s, k)), s, k, v)
  BY <1>2, <1>4 DEF Latest, Taken
<1> QED
  BY <1>1, <1>2, <1>3, <1>4 DEF Latest, LastSaid, r

(* What neither the snapshot nor an event tells: the eagle eye, and that a  *)
(* list or an edit has ended.                                               *)
Untold(k, v) == k = "eagleEye" \/ (k \in {"list", "edit"} /\ v # Open)

(* Nothing is known of a session that has not been opened, nor of what the  *)
(* game has not sent.                                                       *)
NewsInv ==
    /\ \A c \in Chars : live[c] =< gen[c]
    /\ \A s \in Session, k \in Kinds :
         s.n > gen[s.c] \/ (live[s.c] = s.n /\ game[s.c][k] = 0) =>
            store[s][k] = 0 /\ Silent(down, s, k)

(* The session of a tab, or of an answer that makes it one, has told all.   *)
Promised(d, s) == \E i \in 1..Len(d) : d[i].t = "opened" /\ Tagged(d[i]) /\ d[i].s = s
FeedInv ==
    ~crossed => \A s \in Session :
        Attached(s) /\ (s \in ToSet(tabs) \/ Promised(down, s)) => \A k \in Kinds :
            \/ Untold(k, game[s.c][k])
            \/ Latest(down, store[s][k], s, k, game[s.c][k])

TInv == TagsInv /\ NewsInv /\ FeedInv

LEMMA NewsPrimed ==
    NewsInv' <=>
      /\ \A c \in Chars : live'[c] =< gen'[c]
      /\ \A s \in Session, k \in Kinds :
           s.n > gen'[s.c] \/ (live'[s.c] = s.n /\ game'[s.c][k] = 0) =>
              store'[s][k] = 0 /\ Silent(down', s, k)
BY DEF NewsInv, Silent

(* The browser takes a word at a time. *)
LEMMA NewsTaken ==
    ASSUME NewsInv, UNCHANGED <<live, gen, game>>,
           \A s \in Session, k \in Kinds :
             store[s][k] = 0 /\ Silent(down, s, k) =>
               store'[s][k] = 0 /\ Silent(down', s, k)
    PROVE  NewsInv'
<1>1. \A c \in Chars : live'[c] =< gen'[c]
  BY DEF NewsInv
<1>2. ASSUME NEW s \in Session, NEW k \in Kinds,
             s.n > gen'[s.c] \/ (live'[s.c] = s.n /\ game'[s.c][k] = 0)
      PROVE  store'[s][k] = 0 /\ Silent(down', s, k)
  BY <1>2 DEF NewsInv
<1> QED
  BY <1>1, <1>2, NewsPrimed

LEMMA FeedPrimed ==
    FeedInv' <=>
      (~crossed' => \A s \in Session :
         Attached(s)' /\ (s \in ToSet(tabs') \/ Promised(down', s)) => \A k \in Kinds :
            \/ Untold(k, game'[s.c][k])
            \/ Latest(down', store'[s][k], s, k, game'[s.c][k]))
BY DEF FeedInv, Promised, Latest, Silent, LastSaid, ToSet

LEMMA FeedTaken ==
    ASSUME FeedInv, UNCHANGED <<live, attached, game>>, crossed => crossed',
           \A s \in Session :
             s \in ToSet(tabs') \/ Promised(down', s) => s \in ToSet(tabs) \/ Promised(down, s),
           \A s \in Session, k \in Kinds : \A v :
             Latest(down, store[s][k], s, k, v) => Latest(down', store'[s][k], s, k, v)
    PROVE  FeedInv'
<1>1. SUFFICES ASSUME ~crossed', NEW s \in Session, Attached(s)',
                      s \in ToSet(tabs') \/ Promised(down', s), NEW k \in Kinds
      PROVE  \/ Untold(k, game'[s.c][k])
             \/ Latest(down', store'[s][k], s, k, game'[s.c][k])
  BY FeedPrimed
<1>2. Attached(s)
  BY <1>1 DEF Attached
<1>3. Untold(k, game[s.c][k]) \/ Latest(down, store[s][k], s, k, game[s.c][k])
  BY <1>1, <1>2 DEF FeedInv
<1> QED
  BY <1>3

LEMMA ReceiveTakes ==
    ASSUME TypeOK, GoodInv, Receive, NEW s \in Session, NEW k \in Kinds
    PROVE  store'[s][k] = Taken(store[s][k], Says(Message, s, k))
<1>1. down # <<>>
  BY DEF Receive, ReceiveAuth, ReceiveOpened, ReceiveRefused, ReceiveSnapshot, ReceiveEvent,
         ReceiveConnection, ReceiveError, Take
<1>2. Message \in GoodDown
  BY <1>1, GoodMessages
<1>3. store \in [Session -> [Kinds -> Value]]
  BY DEF TypeOK
<1>4. CASE ReceiveSnapshot
  <2>1. Message.t = "snapshot" /\ Message.s \in Session
    BY <1>2, <1>4 DEF ReceiveSnapshot, Take, GoodDown, Downward
  <2>2. store' = [store EXCEPT ![Message.s] =
                   [j \in Kinds |-> Restored(j, store[Message.s][j], Message.v[j])]]
    BY <1>4 DEF ReceiveSnapshot
  <2>3. CASE s = Message.s
    <3>1. store'[s][k] = Restored(k, store[s][k], Message.v[k])
      BY <1>3, <2>2, <2>3
    <3>2. Says(Message, s, k) = Message.v[k]
      BY <2>1, <2>3 DEF Says
    <3> QED
      BY <3>1, <3>2 DEF Restored, Stored, SetMode, SetNotice, Taken
  <2>4. CASE s # Message.s
    <3>1. store'[s][k] = store[s][k] /\ Says(Message, s, k) = 0
      BY <1>3, <2>1, <2>2, <2>4 DEF Says
    <3> QED
      BY <3>1 DEF Taken
  <2> QED
    BY <2>3, <2>4
<1>5. CASE ReceiveEvent
  <2>1. /\ Message.t = "event" /\ Message.s \in Session /\ Message.k \in Kinds
        /\ Message.v = 0 => Message.k \in {"mode", "notice"}
    BY <1>2, <1>5 DEF ReceiveEvent, Take, GoodDown, Downward
  <2>2. store' = [store EXCEPT ![Message.s][Message.k] =
                    Stored(Message.k, store[Message.s][Message.k], Message.v)]
    BY <1>5 DEF ReceiveEvent
  <2>3. CASE s = Message.s /\ k = Message.k
    <3>1. store'[s][k] = Stored(k, store[s][k], Message.v)
      BY <1>3, <2>2, <2>3
    <3>2. Says(Message, s, k) = Message.v
      BY <2>1, <2>3 DEF Says
    <3> QED
      BY <2>1, <2>3, <3>1, <3>2 DEF Stored, SetMode, SetNotice, Taken
  <2>4. CASE ~(s = Message.s /\ k = Message.k)
    <3>1. store'[s][k] = store[s][k]
      BY <1>3, <2>1, <2>2, <2>4
    <3>2. Says(Message, s, k) = 0
      BY <2>1, <2>4 DEF Says
    <3> QED
      BY <3>1, <3>2 DEF Taken
  <2> QED
    BY <2>3, <2>4
<1>6. CASE ReceiveAuth \/ ReceiveOpened \/ ReceiveRefused \/ ReceiveConnection \/ ReceiveError
  <2>1. store' = store
    BY <1>6 DEF ReceiveAuth, ReceiveOpened, ReceiveRefused, ReceiveConnection, ReceiveError, stores
  <2>2. Message.t \in {"auth", "opened", "refused", "connection", "error"}
    BY <1>6 DEF ReceiveAuth, ReceiveOpened, ReceiveRefused, ReceiveConnection, ReceiveError, Take
  <2> QED
    BY <2>1, <2>2 DEF Says, Taken
<1> QED
  BY <1>4, <1>5, <1>6 DEF Receive

LEMMA PromisedTail ==
    ASSUME NEW d \in Seq(GoodDown), d # <<>>, NEW s, Promised(Tail(d), s)
    PROVE  Promised(d, s)
BY TailAt DEF Promised

(* A message taken tells of no other session. *)
LEMMA ReceiveTells ==
    ASSUME TypeOK, GoodInv, NewsInv, FeedInv, Receive,
           \A s \in ToSet(tabs') : s \in ToSet(tabs) \/ Promised(down, s)
    PROVE  NewsInv' /\ FeedInv'
<1>1. /\ down # <<>> /\ down' = Tail(down) /\ Message = Head(down) /\ down \in Seq(GoodDown)
      /\ UNCHANGED <<live, attached, gen, game, crossed>>
  BY DEF Receive, ReceiveAuth, ReceiveOpened, ReceiveRefused, ReceiveSnapshot, ReceiveEvent,
         ReceiveConnection, ReceiveError, Take, gateway, bounds, GoodInv, Message
<1>2. \A s : Promised(down', s) => Promised(down, s)
  BY <1>1, PromisedTail
<1>3. ASSUME NEW s \in Session, NEW k \in Kinds, store[s][k] = 0 /\ Silent(down, s, k)
      PROVE  store'[s][k] = 0 /\ Silent(down', s, k)
  <2>1. Says(Message, s, k) = 0 /\ Silent(down', s, k)
    BY <1>1, <1>3, LatestTail
  <2> QED
    BY <1>3, <2>1, ReceiveTakes DEF Taken
<1>4. ASSUME NEW s \in Session, NEW k \in Kinds, NEW v, Latest(down, store[s][k], s, k, v)
      PROVE  Latest(down', store'[s][k], s, k, v)
  <2>1. Latest(Tail(down), Taken(store[s][k], Says(Head(down), s, k)), s, k, v)
    BY <1>1, <1>4, LatestTail
  <2> QED
    BY <1>1, <2>1, ReceiveTakes
<1>5. NewsInv'
  BY <1>1, <1>3, NewsTaken
<1>6. FeedInv'
  BY <1>1, <1>2, <1>4, FeedTaken
<1> QED
  BY <1>5, <1>6

(* An abandoned request tells the same, and promises no more. *)
LEMMA AbandonedTells ==
    ASSUME GoodInv, NewsInv, FeedInv, NEW settled, down' = Abandoned(down, settled),
           UNCHANGED <<live, attached, gen, game, tabs, store>>, crossed => crossed'
    PROVE  NewsInv' /\ FeedInv'
<1>0. /\ down \in Seq(GoodDown) /\ Len(down) \in Nat /\ DOMAIN down = 1..Len(down)
      /\ \A i \in 1..Len(down) : down[i] \in GoodDown
  BY DEF GoodInv
<1>1. Len(down') = Len(down)
  BY <1>0, GoodAbandoned
<1>2. ASSUME NEW i \in 1..Len(down)
      PROVE  /\ \A s, k : Says(down'[i], s, k) = Says(down[i], s, k)
             /\ \A s : down'[i].t = "opened" /\ Tagged(down'[i]) /\ down'[i].s = s =>
                       down[i].t = "opened" /\ Tagged(down[i]) /\ down[i].s = s
  <2>1. PICK m \in GoodDown : m = down[i]
    BY <1>0
  <2>2. down'[i] = IF m.t \in {"open", "opened", "refused"} /\ m.for \in settled
                     THEN [m EXCEPT !.for.who = "nobody"] ELSE m
    BY <1>0, <2>1 DEF Abandoned
  <2>3. CASE m.t = "opened" /\ m.for \in settled
    <3>1. m \in [t : {"opened"}, s : Session, for : Tag]
      BY <2>3 DEF GoodDown, Downward
    <3>2. down'[i].t = "opened" /\ ~Tagged(down'[i])
      BY <2>2, <2>3, <3>1 DEF Tagged, Tag
    <3> QED
      BY <2>1, <2>3, <3>2 DEF Says
  <2>4. CASE m.t = "refused" /\ m.for \in settled
    <3>1. m \in [t : {"refused"}, for : Tag]
      BY <2>4 DEF GoodDown, Downward
    <3>2. down'[i].t = "refused"
      BY <2>2, <2>4, <3>1
    <3> QED
      BY <2>1, <2>4, <3>2 DEF Says
  <2>5. CASE ~(m.t \in {"opened", "refused"} /\ m.for \in settled)
    <3>1. m.t # "open"
      BY DEF GoodDown, Downward
    <3>2. down'[i] = m
      BY <2>2, <2>5, <3>1
    <3> QED
      BY <2>1, <3>2
  <2> QED
    BY <2>3, <2>4, <2>5
<1>3. \A s : Promised(down', s) => Promised(down, s)
  BY <1>1, <1>2 DEF Promised
<1>4. \A s, k : Silent(down, s, k) => Silent(down', s, k)
  BY <1>1, <1>2 DEF Silent
<1>5. ASSUME NEW s, NEW k, NEW v, LastSaid(down, s, k, v) PROVE LastSaid(down', s, k, v)
  <2>1. PICK i \in 1..Len(down) :
          /\ Says(down[i], s, k) = v
          /\ \A j \in 1..Len(down) : j > i => Says(down[j], s, k) = 0
    BY <1>5 DEF LastSaid
  <2>2. \A j \in 1..Len(down) : Says(down'[j], s, k) = Says(down[j], s, k)
    BY <1>2
  <2> QED
    BY <1>1, <2>1, <2>2 DEF LastSaid
<1>6. \A s, k, v, old : Latest(down, old, s, k, v) => Latest(down', old, s, k, v)
  BY <1>4, <1>5 DEF Latest
<1>7. NewsInv'
  BY <1>4, NewsTaken
<1>8. FeedInv'
  BY <1>3, <1>6, FeedTaken
<1> QED
  BY <1>7, <1>8

LEMMA UntouchedTells ==
    ASSUME NewsInv, FeedInv, crossed => crossed',
           UNCHANGED <<down, live, attached, gen, game, tabs, store>>
    PROVE  NewsInv' /\ FeedInv'
BY NewsTaken, FeedTaken

LEMMA ButtonsTell ==
    ASSUME TypeOK, GoodInv, TInv, Buttons
    PROVE  TInv'
<1>0. net \in Client /\ GoodNet(net) /\ TagsFit(net, waits, down) /\ NetOnce(net)
  BY GoodClient DEF TInv, TagsInv, TagsFit
<1>1. UNCHANGED <<down, live, attached, gen, game, tabs, store, crossed>>
  BY DEF Buttons, ReconnectNow, Login, LoginEnds, LoggedOut, CloseSession, ReopenSession, Select,
         SelectTab, DismissError, sessionStore, stores, gateway, bounds
<1>2. NewsInv' /\ FeedInv'
  BY <1>1, UntouchedTells DEF TInv
<1>3. TagsFit(net', waits', down)
  <2>1. CASE net' = net /\ waits' = waits
    BY <1>0, <2>1
  <2>2. ASSUME NEW ok \in BOOLEAN, LoginEnds(ok) PROVE TagsFit(net', waits', down)
    <3>1. net' = WithToken(net, ok, Auth) /\ waits' = waits
      BY <2>2 DEF LoginEnds
    <3>2. NetTags(net') = NetTags(net) /\ NetOnce(net')
      BY <1>0, <3>1, TagsClientOps
    <3> QED
      BY <1>0, <3>1, <3>2 DEF TagsFit
  <2>3. CASE CloseSession
    <3>1. PICK m : m = [t |-> "close", s |-> activeTab]
      OBVIOUS
    <3>2. m \in GoodUp /\ TagOf(m) = {}
      BY <2>3, <3>1 DEF CloseSession, TypeOK, GoodUp, Upward, TagOf, Tagged
    <3>3. net' = Sent(net, m) /\ waits' = waits
      BY <2>3, <3>1 DEF CloseSession
    <3>4. NetTags(net') = NetTags(net) /\ NetOnce(net')
      <4>1. PICK n : n = net
        OBVIOUS
      <4>2. n \in Client /\ GoodNet(n) /\ NetOnce(n) /\ TagOf(m) \cap NetTags(n) = {}
        BY <1>0, <3>2, <4>1
      <4>3. NetTags(Sent(n, m)) = NetTags(n) \cup TagOf(m) /\ NetOnce(Sent(n, m))
        BY <3>2, <4>2, TagsClientOps
      <4> QED BY <3>2, <3>3, <4>1, <4>3
    <3> QED
      BY <1>0, <3>3, <3>4 DEF TagsFit
  <2>4. ASSUME NEW click \in Clicks, ReopenSession(click) PROVE TagsFit(net', waits', down)
    <3>1. PICK s \in Session : s = activeTab
      BY <2>4 DEF ReopenSession, TypeOK
    <3>2. For(click, s) \in Tag /\ For(click, s) \notin waits
      BY <2>4, <3>1, ForType DEF ReopenSession
    <3>3. Ask(net, waits, For(click, s))
      BY <2>4, <3>1 DEF ReopenSession
    <3> QED
      BY <1>0, <3>2, <3>3, AskFits
  <2>5. ASSUME NEW c \in Chars, Select(c) PROVE TagsFit(net', waits', down)
    <3>1. PICK s : s = [c |-> c, n |-> 0]
      OBVIOUS
    <3>2. For("select", s) \in Tag /\ For("select", s).who = "select"
      BY <3>1, ConstantsAssumption DEF For, Tag
    <3>3. For("select", s) \notin waits
      BY <2>5, <3>2 DEF Select, Busy
    <3>4. Ask(net, waits, For("select", s))
      BY <2>5, <3>1 DEF Select
    <3> QED
      BY <1>0, <3>2, <3>3, <3>4, AskFits
  <2> QED
    BY <2>1, <2>2, <2>3, <2>4, <2>5
       DEF Buttons, ReconnectNow, Login, LoggedOut, SelectTab, DismissError, client
<1> QED
  BY <1>1, <1>2, <1>3 DEF TInv, TagsInv

(* logout() empties the stores when no answer is on its way, or is crossed. *)
LEMMA LogoutTells ==
    ASSUME TypeOK, GoodInv, TInv, Logout
    PROVE  TInv'
<1>1. /\ UNCHANGED <<net, down, waits, live, attached, gen, game>>
      /\ tabs' = <<>> /\ crossed' = (crossed \/ waits # {})
      /\ store' = [s \in Session |-> Unset]
  BY DEF Logout, client, gateway
<1>2. TagsInv'
  BY <1>1 DEF TInv, TagsInv
<1>3. \A s \in Session, k \in Kinds : store'[s][k] = 0
  BY <1>1 DEF Unset
<1>4. NewsInv'
  BY <1>1, <1>3, NewsTaken DEF TInv
<1>5. ASSUME ~crossed', NEW s, Promised(down, s) PROVE FALSE
  <2>1. PICK i \in 1..Len(down) : Tagged(down[i])
    BY <1>5 DEF Promised
  <2>2. down[i] \in Messages
    BY DEF GoodInv, Messages
  <2>3. down[i].for \in Tags(down)
    BY <2>1, <2>2, MessagesTagged DEF Tags
  <2>4. waits = {}
    BY <1>1, <1>5
  <2> QED
    BY <2>3, <2>4 DEF TInv, TagsInv, TagsFit
<1>6. \A s : s \notin ToSet(tabs')
  BY <1>1 DEF ToSet
<1>7. FeedInv'
  BY <1>1, <1>5, <1>6, FeedPrimed
<1> QED
  BY <1>2, <1>4, <1>7 DEF TInv

LEMMA SocketOpensTells ==
    ASSUME TypeOK, LoopInv, GoodInv, TInv, SocketOpens
    PROVE  TInv'
<1>0. /\ net \in Client /\ GoodNet(net) /\ TagsFit(net, waits, down) /\ NetOnce(net)
      /\ tabs \in Seq(Session)
  BY GoodClient DEF TInv, TagsInv, TagsFit, TypeOK
<1>1. PICK n : n = [net EXCEPT !.link = TRUE]
  OBVIOUS
<1>2. n \in Client /\ GoodNet(n) /\ NetOnce(n) /\ NetTags(n) = NetTags(net)
  <2>1. n \in Client
    BY <1>0, <1>1, ClientChanges
  <2>2. n.outbox = net.outbox /\ n.up = net.up
    BY <1>0, <1>1 DEF Client
  <2> QED
    BY <1>0, <2>1, <2>2 DEF GoodNet, NetOnce, NetTags
<1>3. PICK m : m = (IF token THEN AuthStarted(n, Auth) ELSE Flushed(n))
  OBVIOUS
<1>4. m \in Client /\ GoodNet(m)
  BY <1>2, <1>3, ClientTypes, GoodClientOps
<1>5. TagsFit(m, waits, down)
  BY <1>0, <1>2, <1>3, TagsClientOps DEF TagsFit
<1>6. IF first /\ ~loop /\ token
        THEN LoopOn(m, waits, tabs)
        ELSE net' = m /\ UNCHANGED <<waits, loop, todo>>
  BY <1>1, <1>3 DEF SocketOpens, Opened
<1>7. TagsFit(net', waits', down)
  <2>1. CASE first /\ ~loop /\ token
    BY <1>0, <1>4, <1>5, <1>6, <2>1, NoLoopNoRequest, LoopOnFits
  <2>2. CASE ~(first /\ ~loop /\ token)
    BY <1>5, <1>6, <2>2
  <2> QED
    BY <2>1, <2>2
<1>8. UNCHANGED <<down, live, attached, gen, game, tabs, store>> /\ (crossed => crossed')
  BY DEF SocketOpens, sessionStore, stores, gateway
<1> QED
  BY <1>7, <1>8, UntouchedTells DEF TInv, TagsInv

LEMMA SocketClosesTells ==
    ASSUME TypeOK, LoopInv, GoodInv, TInv, SocketCloses
    PROVE  TInv'
<1>1. PICK n : n = [link |-> FALSE, awaiting |-> FALSE, up |-> <<>>,
                    outbox |-> Abandoned(net.outbox, waits)]
  OBVIOUS
<1>2. n \in Client /\ GoodNet(n)
  <2>1. /\ Abandoned(net.outbox, waits) \in Seq(GoodUp)
        /\ Abandoned(net.outbox, waits) \in Seq(Upward)
    BY GoodAbandoned, GoodTypes DEF GoodInv
  <2>2. <<>> \in Seq(GoodUp) /\ <<>> \in Seq(Upward)
    OBVIOUS
  <2> QED
    BY <1>1, <2>1, <2>2 DEF Client, GoodNet
<1>3. TagsFit(n, waits \ waits, <<>>)
  <2>1. net.outbox \in Seq(Messages)
    BY MessagesTagged DEF GoodInv
  <2>2. Tags(n.outbox) = Tags(net.outbox) \ waits /\ Once(n.outbox)
    BY <1>1, <2>1, TagsAbandoned DEF TInv, TagsInv, TagsFit, NetOnce
  <2>3. Tags(n.outbox) = {} /\ n.up = <<>>
    BY <1>1, <2>2 DEF TInv, TagsInv, TagsFit, NetTags
  <2> QED
    BY <2>2, <2>3, TagsNone DEF TagsFit, NetTags, NetOnce
<1>4. /\ Rejected(n, waits \ waits, waits)
      /\ UNCHANGED <<tabs, store, live, gen, game>>
      /\ down' = <<>> /\ attached' = {}
  BY <1>1 DEF SocketCloses, sessionStore, stores, Unlinked
<1>5. TagsFit(net', waits', <<>>)
  BY <1>2, <1>3, <1>4, RejectedFits
<1>6. NewsInv'
  <2>1. \A s, k : Silent(down', s, k)
    BY <1>4 DEF Silent
  <2> QED
    BY <1>4, <2>1, NewsTaken DEF TInv
<1>7. FeedInv'
  BY <1>4 DEF FeedInv, Attached
<1> QED
  BY <1>4, <1>5, <1>6, <1>7 DEF TInv, TagsInv

LEMMA TimesOutTells ==
    ASSUME TypeOK, LoopInv, GoodInv, TInv, NEW g \in waits, RequestTimesOut(g)
    PROVE  TInv'
<1>0. net \in Client /\ GoodNet(net)
  BY GoodClient
<1>1. PICK n : n = [net EXCEPT !.outbox = Abandoned(@, {g}), !.up = Abandoned(@, {g})]
  OBVIOUS
<1>2. n.outbox = Abandoned(net.outbox, {g}) /\ n.up = Abandoned(net.up, {g})
  BY <1>0, <1>1 DEF Client
<1>3. n \in Client /\ GoodNet(n)
  <2>1. /\ Abandoned(net.outbox, {g}) \in Seq(GoodUp)
        /\ Abandoned(net.up, {g}) \in Seq(GoodUp)
    BY <1>0, GoodAbandoned DEF GoodNet
  <2>2. /\ Abandoned(net.outbox, {g}) \in Seq(Upward)
        /\ Abandoned(net.up, {g}) \in Seq(Upward)
    BY <2>1, GoodTypes
  <2>3. n \in Client
    BY <1>0, <1>1, <2>2 DEF Client
  <2> QED
    BY <1>2, <2>1, <2>3 DEF GoodNet
<1>4. /\ Rejected(n, waits \ {g}, {g}) /\ down' = Abandoned(down, {g})
      /\ UNCHANGED <<live, attached, gen, game, tabs, store, crossed>>
  BY <1>1 DEF RequestTimesOut, sessionStore, stores, gateway, bounds
<1>5. TagsFit(n, waits \ {g}, down')
  BY <1>2, <1>4, AbandonedFits DEF TInv
<1>6. TagsFit(net', waits', down')
  <2>1. PICK d : d = down'
    OBVIOUS
  <2> QED
    BY <1>3, <1>4, <1>5, <2>1, RejectedFits
<1> QED
  BY <1>4, <1>6, AbandonedTells DEF TInv, TagsInv

LEMMA ReceiveKeepsTags ==
    ASSUME TypeOK, LoopInv, GoodInv, TInv, Receive
    PROVE  TagsInv'
<1>0. /\ net \in Client /\ GoodNet(net) /\ TagsFit(net, waits, down) /\ NetOnce(net)
      /\ todo \in Seq(Session)
  BY GoodClient DEF TInv, TagsInv, TagsFit, TypeOK
<1>1. down # <<>> /\ down' = Tail(down)
  BY DEF Receive, ReceiveAuth, ReceiveOpened, ReceiveRefused, ReceiveSnapshot, ReceiveEvent,
         ReceiveConnection, ReceiveError, Take
<1>2. PICK d : d = down'
  OBVIOUS
<1>3. /\ TagsFit(net, waits, d)
      /\ \A g : TagOf(Message) = {g} => TagsFit(net, waits \ {g}, d)
  BY <1>0, <1>1, <1>2, TakenFits
<1>4. ASSUME NEW g \in waits, g = Message.for, Message.t \in {"opened", "refused"}
      PROVE  TagsFit(net, waits \ {g}, d)
  BY <1>0, <1>3, <1>4 DEF TagOf, Tagged, TagsFit
<1>5. TagsFit(net', waits', d)
  <2>1. CASE net' = net /\ waits' = waits
    BY <1>3, <2>1
  <2>2. CASE ReceiveAuth /\ net' # net
    <3>1. PICK n : n = [net EXCEPT !.awaiting = FALSE]
      OBVIOUS
    <3>2. n \in Client /\ n.outbox = net.outbox /\ n.up = net.up
      BY <1>0, <3>1 DEF Client
    <3>3. GoodNet(n) /\ NetOnce(n) /\ NetTags(n) = NetTags(net)
      BY <1>0, <3>2 DEF GoodNet, NetOnce, NetTags
    <3>4. net' = Flushed(n) /\ waits' = waits
      BY <2>2, <3>1 DEF ReceiveAuth, Granted
    <3>5. NetTags(net') = NetTags(net) /\ NetOnce(net')
      BY <3>2, <3>3, <3>4, TagsClientOps
    <3> QED
      BY <1>3, <3>4, <3>5 DEF TagsFit
  <2>3. CASE ReceiveOpened /\ Message.for \in waits
    <3>1. PICK g \in waits : g = Message.for
      BY <2>3
    <3>2. Message.t = "opened" /\ Resumed(Message.s, g)
      BY <2>3, <3>1 DEF ReceiveOpened, Take, SessionOf
    <3>3. PICK w : w = waits \ {g}
      OBVIOUS
    <3>4. TagsFit(net, w, d)
      BY <1>4, <3>1, <3>2, <3>3
    <3>5. CASE g.who = "reattach"
      <4>1. LoopOn(net, w, todo)
        BY <3>2, <3>3, <3>5, ClicksApart DEF Resumed
      <4>2. \A h \in w : h.who # "reattach"
        BY <3>3, <3>5, OthersRemain
      <4> QED
        BY <1>0, <3>4, <4>1, <4>2, LoopOnFits
    <3>6. CASE g.who # "reattach"
      <4>1. net' = net /\ waits' = w
        BY <3>2, <3>3, <3>6 DEF Resumed
      <4> QED
        BY <3>4, <4>1
    <3> QED
      BY <3>5, <3>6
  <2>4. CASE ReceiveRefused /\ Message.for \in waits
    <3>1. PICK g \in waits : g = Message.for
      BY <2>4
    <3>2. Message.t = "refused" /\ Rejected(net, waits \ {g}, {g})
      BY <2>4, <3>1 DEF ReceiveRefused, Take
    <3>3. TagsFit(net, waits \ {g}, d)
      BY <1>4, <3>1, <3>2
    <3> QED
      BY <1>0, <3>2, <3>3, RejectedFits
  <2>5. CASE (ReceiveOpened \/ ReceiveRefused) /\ Message.for \notin waits
    BY <2>1, <2>5 DEF ReceiveOpened, ReceiveRefused, client
  <2> QED
    BY <2>1, <2>2, <2>3, <2>4, <2>5
       DEF Receive, ReceiveAuth, ReceiveSnapshot, ReceiveEvent, ReceiveConnection, ReceiveError,
           client
<1> QED
  BY <1>2, <1>5 DEF TagsInv

LEMMA ReplacedTabs ==
    ASSUME NEW q \in Seq(Session), NEW s \in Session, NEW tag
    PROVE  ToSet(Replaced(q, tag, s)) \subseteq ToSet(q) \cup {s}
<1>1. Added(q, s) \in Seq(Session) /\ ToSet(Added(q, s)) = ToSet(q) \cup {s}
  BY AddedType
<1>2. CASE ~(tag.s # s /\ Contains(q, tag.s))
  BY <1>1, <1>2 DEF Replaced
<1>3. CASE tag.s # s /\ Contains(q, tag.s)
  <2>1. PICK r \in Seq(Session) : r = Added(q, s)
    BY <1>1
  <2>2. PICK i : i = CHOOSE j \in DOMAIN q : q[j] = tag.s
    OBVIOUS
  <2>3. i \in 1..Len(r)
    <3>1. i \in DOMAIN q
      BY <1>3, <2>2 DEF Contains
    <3>2. DOMAIN q \subseteq 1..Len(r)
      BY <2>1 DEF Added
    <3> QED
      BY <3>1, <3>2
  <2>4. Replaced(q, tag, s) = RemoveAt(r, i)
    BY <1>3, <2>1, <2>2 DEF Replaced
  <2>5. ToSet(RemoveAt(r, i)) \subseteq ToSet(r)
    <3> DEFINE S == Session
               a == SubSeq(r, 1, i - 1)
               b == SubSeq(r, i + 1, Len(r))
    <3>1. r \in Seq(S)
      BY <2>1
    <3> HIDE DEF S
    <3>2. /\ a \in Seq(S) /\ b \in Seq(S) /\ Len(a) = i - 1 /\ Len(b) = Len(r) - i
          /\ \A k \in 1..i - 1 : a[k] = r[k]
          /\ \A k \in 1..Len(r) - i : b[k] = r[i + k]
      BY <2>3, <3>1
    <3>3. RemoveAt(r, i) = a \o b
      BY DEF RemoveAt
    <3> HIDE DEF a, b
    <3>4. a \in Seq(S) /\ b \in Seq(S)
      BY <3>2
    <3>5. /\ \A k \in 1..Len(a) : (a \o b)[k] = a[k]
          /\ \A k \in 1..Len(b) : (a \o b)[Len(a) + k] = b[k]
          /\ \A k \in 1..Len(a \o b) :
               k \in 1..Len(a) \/ \E j \in 1..Len(b) : k = Len(a) + j
      BY <3>4, ConcatAt
    <3>6. (\A k \in 1..i - 1 : k \in DOMAIN r) /\ \A k \in 1..Len(r) - i : i + k \in DOMAIN r
      BY <2>3, <3>1
    <3>7. ASSUME NEW k \in DOMAIN (a \o b) PROVE (a \o b)[k] \in ToSet(r)
      <4>1. k \in 1..Len(a \o b)
        BY <3>2
      <4>2. CASE k \in 1..Len(a)
        <5>1. (a \o b)[k] = a[k]
          BY <3>5, <4>2
        <5> QED
          BY <3>2, <3>6, <4>2, <5>1 DEF ToSet
      <4>3. ASSUME NEW l \in 1..Len(b), k = Len(a) + l PROVE (a \o b)[k] \in ToSet(r)
        <5>1. (a \o b)[k] = b[l]
          BY <3>5, <4>3
        <5> QED
          BY <3>2, <3>6, <4>3, <5>1 DEF ToSet
      <4> QED
        BY <3>5, <4>1, <4>2, <4>3
    <3> QED
      BY <3>3, <3>7 DEF ToSet
  <2> QED
    BY <1>1, <2>1, <2>4, <2>5
<1> QED
  BY <1>2, <1>3

LEMMA ReceiveTabs ==
    ASSUME TypeOK, GoodInv, TInv, Receive
    PROVE  \A s \in ToSet(tabs') : s \in ToSet(tabs) \/ Promised(down, s)
<1>1. CASE tabs' = tabs
  BY <1>1
<1>2. CASE ReceiveOpened /\ Message.for \in waits
  <2>1. /\ down # <<>> /\ Message.t = "opened" /\ Resumed(Message.s, Message.for)
        /\ Message = down[1] /\ 1 \in 1..Len(down) /\ Message \in GoodDown
    BY <1>2, TailAt DEF ReceiveOpened, Take, SessionOf, GoodInv, Message
  <2>2. PICK s \in Session, g \in waits : s = Message.s /\ g = Message.for
    BY <1>2, <2>1 DEF GoodDown, Downward
  <2>3. Promised(down, s)
    BY <2>1, <2>2 DEF Promised, Tagged, TInv, TagsInv, TagsFit
  <2>4. PICK q \in Seq(Session) : q = tabs
    BY DEF TypeOK
  <2>5. tabs' = Added(q, s) \/ tabs' = Replaced(q, g, s)
    BY <2>1, <2>2, <2>4 DEF Resumed
  <2>6. ToSet(tabs') \subseteq ToSet(q) \cup {s}
    BY <2>5, AddedType, ReplacedTabs
  <2> QED
    BY <2>3, <2>4, <2>6
<1> QED
  BY <1>1, <1>2 DEF Receive, ReceiveAuth, ReceiveOpened, ReceiveRefused, ReceiveSnapshot,
     ReceiveEvent, ReceiveConnection, ReceiveError, sessionStore

LEMMA ReceiveTellsAll ==
    ASSUME TypeOK, LoopInv, GoodInv, TInv, Receive
    PROVE  TInv'
BY ReceiveKeepsTags, ReceiveTabs, ReceiveTells DEF TInv
-----------------------------------------------------------------------------
(* q is what the gateway says in a step: all that the step changes about    *)
(* the sessions that are attached, and the answer of one request at most.   *)
NewWords(q) ==
    /\ q \in Seq(GoodDown) /\ down' = down \o q /\ Once(q)
    /\ \/ net' = net /\ Tags(q) = {}
       \/ /\ net.up # <<>> /\ net' = [net EXCEPT !.up = Tail(net.up)]
          /\ Tags(q) \subseteq TagOf(Head(net.up))
    /\ \A c \in Chars : gen'[c] \in Nat /\ live'[c] =< gen'[c] /\ gen[c] =< gen'[c]
    /\ \A s \in Session, k \in Kinds :
         /\ s.n > gen'[s.c] => Silent(q, s, k)
         /\ live'[s.c] = s.n /\ game'[s.c][k] = 0 =>
              /\ Silent(q, s, k)
              /\ s.n > gen[s.c] \/ (live[s.c] = s.n /\ game[s.c][k] = 0)
         /\ Attached(s)' =>
              \/ Untold(k, game'[s.c][k])
              \/ game'[s.c][k] = 0
              \/ LastSaid(q, s, k, game'[s.c][k])
              \/ /\ Attached(s) /\ ~Promised(q, s) /\ Silent(q, s, k)
                 /\ game'[s.c][k] = game[s.c][k]

LEMMA PromisedConcat ==
    ASSUME NEW p \in Seq(GoodDown), NEW q \in Seq(GoodDown), NEW s, Promised(p \o q, s)
    PROVE  Promised(p, s) \/ Promised(q, s)
<1>1. PICK i \in 1..Len(p \o q) :
        (p \o q)[i].t = "opened" /\ Tagged((p \o q)[i]) /\ (p \o q)[i].s = s
  BY DEF Promised
<1>2. CASE i \in 1..Len(p)
  <2>1. (p \o q)[i] = p[i]
    BY <1>2, ConcatAt
  <2> QED
    BY <1>1, <1>2, <2>1 DEF Promised
<1>3. ASSUME NEW j \in 1..Len(q), i = Len(p) + j PROVE Promised(q, s)
  <2>1. (p \o q)[i] = q[j]
    BY <1>3, ConcatAt
  <2> QED
    BY <1>1, <2>1 DEF Promised
<1>4. i \in 1..Len(p) \/ \E j \in 1..Len(q) : i = Len(p) + j
  BY ConcatAt
<1> QED
  BY <1>2, <1>3, <1>4

LEMMA WordsTell ==
    ASSUME TypeOK, GoodInv, TInv, NEW q, NewWords(q), UNCHANGED <<ui, crossed>>
    PROVE  TInv'
<1>0. UNCHANGED <<waits, tabs, store>>
  BY DEF ui, sessionStore, stores
<1>1. q \in Seq(GoodDown) /\ down' = down \o q /\ Once(q) /\ down \in Seq(GoodDown)
  BY DEF NewWords, GoodInv
<1>2. \A s \in Session : s.c \in Chars /\ s.n \in 1..MaxGen
  BY SessionFacts
<1>3. TagsInv'
  <2>1. /\ net.up \in Seq(Messages) /\ down \in Seq(Messages) /\ q \in Seq(Messages)
        /\ net \in Client
    BY <1>1, MessagesTagged, GoodClient DEF GoodInv
  <2>2. /\ Tags(down') = Tags(down) \cup Tags(q)
        /\ Tags(down) \cap Tags(q) = {} /\ Once(down) => Once(down')
    BY <1>1, <2>1, TagsConcat
  <2>3. CASE net' = net /\ Tags(q) = {}
    BY <1>0, <2>2, <2>3 DEF TInv, TagsInv, TagsFit
  <2>4. CASE /\ net.up # <<>> /\ net' = [net EXCEPT !.up = Tail(net.up)]
             /\ Tags(q) \subseteq TagOf(Head(net.up))
    <3>1. /\ Tags(net.up) = TagOf(Head(net.up)) \cup Tags(Tail(net.up))
          /\ Once(net.up) => /\ Once(Tail(net.up))
                             /\ TagOf(Head(net.up)) \cap Tags(Tail(net.up)) = {}
      BY <2>1, <2>4, TagsTail
    <3>2. net'.up = Tail(net.up) /\ net'.outbox = net.outbox
      BY <2>1, <2>4 DEF Client
    <3>3. /\ NetOnce(net) /\ Once(down) /\ NetTags(net) \cap Tags(down) = {}
          /\ NetTags(net) \cup Tags(down) \subseteq waits
          /\ \A g \in waits : g.who # "nobody"
      BY DEF TInv, TagsInv, TagsFit
    <3>4. NetOnce(net') /\ NetTags(net') \subseteq NetTags(net) /\ NetTags(net') \cap Tags(q) = {}
      BY <2>4, <3>1, <3>2, <3>3 DEF NetOnce, NetTags
    <3>5. Tags(q) \subseteq NetTags(net)
      BY <2>4, <3>1 DEF NetTags
    <3> QED
      BY <1>0, <2>2, <3>3, <3>4, <3>5 DEF TagsInv, TagsFit
  <2> QED
    BY <2>3, <2>4 DEF NewWords
<1>4. ASSUME NEW s \in Session, NEW k \in Kinds,
             s.n > gen'[s.c] \/ (live'[s.c] = s.n /\ game'[s.c][k] = 0)
      PROVE  store'[s][k] = 0 /\ Silent(down', s, k)
  <2>1. Silent(q, s, k)
    BY <1>4 DEF NewWords
  <2>2. s.n > gen[s.c] \/ (live[s.c] = s.n /\ game[s.c][k] = 0)
    <3>1. CASE live'[s.c] = s.n /\ game'[s.c][k] = 0
      BY <3>1 DEF NewWords
    <3>2. CASE s.n > gen'[s.c]
      <4>1. gen[s.c] =< gen'[s.c] /\ gen'[s.c] \in Nat
        BY <1>2 DEF NewWords
      <4>2. gen[s.c] \in Nat /\ s.n \in Nat
        BY <1>2, ConstantsAssumption DEF TypeOK
      <4> QED
        BY <3>2, <4>1, <4>2
    <3> QED
      BY <1>4, <3>1, <3>2
  <2>3. store[s][k] = 0 /\ Silent(down, s, k)
    BY <2>2 DEF TInv, NewsInv
  <2> QED
    BY <1>0, <1>1, <2>1, <2>3, SilentConcat
<1>5. NewsInv'
  <2>1. \A c \in Chars : live'[c] =< gen'[c]
    BY DEF NewWords
  <2> QED
    BY <1>4, <2>1, NewsPrimed
<1>6. FeedInv'
  <2>1. SUFFICES ASSUME ~crossed', NEW s \in Session, Attached(s)',
                        s \in ToSet(tabs') \/ Promised(down', s), NEW k \in Kinds
        PROVE  \/ Untold(k, game'[s.c][k])
               \/ Latest(down', store'[s][k], s, k, game'[s.c][k])
    BY FeedPrimed
  <2>2. CASE game'[s.c][k] = 0
    <3>1. live'[s.c] = s.n
      BY <2>1 DEF Attached
    <3> QED
      BY <1>4, <2>2, <3>1 DEF Latest
  <2>3. CASE game'[s.c][k] # 0 /\ LastSaid(q, s, k, game'[s.c][k])
    <3>1. PICK v : v = game'[s.c][k]
      OBVIOUS
    <3>2. Latest(down \o q, store[s][k], s, k, v)
      BY <1>1, <2>3, <3>1, LatestConcat
    <3> QED
      BY <1>0, <1>1, <3>1, <3>2
  <2>4. CASE /\ Attached(s) /\ ~Promised(q, s) /\ Silent(q, s, k)
             /\ game'[s.c][k] = game[s.c][k]
    <3>1. s \in ToSet(tabs) \/ Promised(down, s)
      BY <1>0, <1>1, <2>1, <2>4, PromisedConcat
    <3>2. PICK v : v = game[s.c][k]
      OBVIOUS
    <3>3. Untold(k, v) \/ Latest(down, store[s][k], s, k, v)
      BY <1>0, <2>1, <2>4, <3>1, <3>2 DEF TInv, FeedInv
    <3>4. Latest(down, store[s][k], s, k, v) => Latest(down \o q, store[s][k], s, k, v)
      BY <1>1, <2>4, LatestConcat
    <3> QED
      BY <1>0, <1>1, <2>4, <3>2, <3>3, <3>4
  <2> QED
    BY <2>1, <2>2, <2>3, <2>4 DEF NewWords
<1> QED
  BY <1>3, <1>5, <1>6 DEF TInv

Dull == {m \in GoodDown : m.t \in {"auth", "refused", "connection", "error"}}

LEMMA DullSays ==
    ASSUME NEW q \in Seq(Dull)
    PROVE  /\ q \in Seq(GoodDown)
           /\ \A s, k : Silent(q, s, k)
           /\ \A s : ~Promised(q, s)
<1>1. q \in Seq(GoodDown) /\ \A i \in 1..Len(q) : q[i] \in Dull
  BY DEF Dull
<1> QED
  BY <1>1 DEF Dull, Silent, Says, Promised

LEMMA DullWords ==
    ASSUME TypeOK, NewsInv, NEW q \in Seq(Dull), down' = down \o q, Once(q),
           \/ net' = net /\ Tags(q) = {}
           \/ /\ net.up # <<>> /\ net' = [net EXCEPT !.up = Tail(net.up)]
              /\ Tags(q) \subseteq TagOf(Head(net.up)),
           UNCHANGED <<gen, game>>,
           \A c \in Chars : live'[c] = live[c] \/ live'[c] = 0,
           \A s \in Session : Attached(s)' => Attached(s)
    PROVE  NewWords(q)
<1>1. \A s \in Session : s.c \in Chars /\ s.n \in 1..MaxGen /\ s.n # 0
  BY SessionFacts, ConstantsAssumption
<1>2. \A c \in Chars : gen[c] \in Nat /\ live[c] =< gen[c]
  BY ConstantsAssumption DEF TypeOK, NewsInv
<1>3. ASSUME NEW c \in Chars
      PROVE  gen'[c] \in Nat /\ live'[c] =< gen'[c] /\ gen[c] =< gen'[c]
  <2>1. gen'[c] = gen[c] /\ (live'[c] = live[c] \/ live'[c] = 0)
    OBVIOUS
  <2> QED
    BY <1>2, <2>1
<1>4. \A s \in Session : live'[s.c] = s.n => live[s.c] = s.n
  BY <1>1
<1> QED
  BY <1>3, <1>4, DullSays DEF NewWords

(* One message, or none. *)
LEMMA DullOne ==
    ASSUME TypeOK, GoodInv, NewsInv, NEW m \in Dull,
           \/ down' = down
           \/ down' = Append(down, m),
           net' = net \/ (net.up # <<>> /\ net' = [net EXCEPT !.up = Tail(net.up)]),
           \/ TagOf(m) = {}
           \/ net.up # <<>> /\ net' = [net EXCEPT !.up = Tail(net.up)] /\ TagOf(m) \subseteq TagOf(Head(net.up)),
           UNCHANGED <<gen, game>>,
           \A c \in Chars : live'[c] = live[c] \/ live'[c] = 0,
           \A s \in Session : Attached(s)' => Attached(s)
    PROVE  \E q : NewWords(q)
<1>1. m \in Messages /\ <<m>> \in Seq(Dull) /\ <<>> \in Seq(Dull)
  BY DEF Dull, Messages
<1>2. Tags(<<m>>) = TagOf(m) /\ Once(<<m>>)
  BY <1>1, TagsOne
<1>3. down \o <<>> = down /\ down \o <<m>> = Append(down, m)
  BY GoodTypes DEF GoodInv
<1>4. CASE down' = down
  <2>1. PICK q \in Seq(Dull) : q = <<>>
    BY <1>1
  <2>2. Tags(q) = {} /\ Once(q) /\ down' = down \o q
    BY <1>3, <1>4, <2>1, TagsNone
  <2>3. NewWords(q)
    BY <2>2, DullWords
  <2> QED
    BY <2>3
<1>5. CASE down' = Append(down, m)
  <2>1. PICK q \in Seq(Dull) : q = <<m>>
    BY <1>1
  <2>2. Tags(q) = TagOf(m) /\ Once(q) /\ down' = down \o q
    BY <1>2, <1>3, <1>5, <2>1
  <2>3. NewWords(q)
    BY <2>2, DullWords
  <2> QED
    BY <2>3
<1> QED
  BY <1>4, <1>5

(* Once a session is gone, no other is attached for it. *)
LEMMA GoneAttached ==
    ASSUME TypeOK, NEW c \in Chars, Gone(c)
    PROVE  /\ \A d \in Chars : live'[d] = live[d] \/ live'[d] = 0
           /\ \A s \in Session : Attached(s)' => Attached(s)
<1>1. live \in [Chars -> 0..MaxGen] /\ attached \in SUBSET Chars
  BY DEF TypeOK
<1>2. \A s \in Session : s.c \in Chars
  BY SessionFacts
<1> QED
  BY <1>1, <1>2 DEF Gone, Attached

LEMMA ThreeSaid ==
    ASSUME NEW D, NEW m \in D, NEW n \in D, NEW o \in D,
           NEW p \in Seq(D), NEW r \in Seq(D), p = <<m>>, r = <<n, o>>
    PROVE  /\ p \o r \in Seq(D) /\ Len(p \o r) = 3
           /\ (p \o r)[1] = m /\ (p \o r)[2] = n /\ (p \o r)[3] = o
           /\ r \o p \in Seq(D) /\ Len(r \o p) = 3
           /\ (r \o p)[1] = n /\ (r \o p)[2] = o /\ (r \o p)[3] = m
  OBVIOUS

LEMMA AnswerWords ==
    ASSUME TypeOK, GoodInv, NewsInv, NEW s \in Session, NEW v \in [Kinds -> Value], NEW g \in Tag,
           Answered(s, v, g), s.c = g.s.c,
           net.up # <<>>, net' = [net EXCEPT !.up = Tail(net.up)],
           Head(net.up).t = "open", Head(net.up).for = g,
           \A c \in Chars : gen'[c] \in Nat /\ live'[c] =< gen'[c] /\ gen[c] =< gen'[c],
           s.n =< gen'[s.c], live'[s.c] = s.n, game'[s.c] = v,
           s.n > gen[s.c] \/ (live[s.c] = s.n /\ game[s.c] = v),
           \A u \in Session : u.c # s.c =>
             /\ live'[u.c] = live[u.c] /\ game'[u.c] = game[u.c]
             /\ Attached(u)' => Attached(u)
    PROVE  \E q : NewWords(q)
<1> DEFINE m == [t |-> "opened", s |-> s, for |-> g]
           n == [t |-> "connection", s |-> s, v |-> "connected"]
           o == [t |-> "snapshot", s |-> s, v |-> Snapshot(v)]
           D == GoodDown
<1>1. Snapshot(v) \in [Kinds -> Value]
  BY DEF Snapshot, Value
<1>2. m \in D /\ n \in D /\ o \in D
  BY <1>1 DEF Downward, GoodDown
<1>3. /\ Tagged(m) => TagOf(m) = {g}
      /\ ~Tagged(m) => TagOf(m) = {}
      /\ TagOf(n) = {} /\ TagOf(o) = {}
      /\ Tagged(m) <=> Tagged(Head(net.up))
  BY DEF TagOf, Tagged
<1>4. /\ \A u, k : Says(m, u, k) = 0 /\ Says(n, u, k) = 0
      /\ \A u, k : u # s => Says(o, u, k) = 0
      /\ \A k \in Kinds : Says(o, s, k) = Snapshot(v)[k]
  BY DEF Says
<1>5. /\ \A k \in Kinds : v[k] = 0 => Snapshot(v)[k] = 0
      /\ \A k \in Kinds : ~Untold(k, v[k]) => Snapshot(v)[k] = v[k]
  BY DEF Snapshot, Untold
<1>6. down' \in {(down \o <<m>>) \o <<n, o>>, (down \o <<n, o>>) \o <<m>>}
  BY DEF Answered
<1>7. n.t # "opened" /\ o.t # "opened" /\ m.s = s
  OBVIOUS
<1>8. m \in Messages /\ n \in Messages /\ o \in Messages
  BY <1>2 DEF Messages
<1> HIDE DEF m, n, o
<1>9. PICK S, e, a, b, z, p, r :
         S = D /\ e = down /\ a = m /\ b = n /\ z = o /\ p = <<m>> /\ r = <<n, o>>
  OBVIOUS
<1>10. PICK q : q \in {p \o r, r \o p} /\ down' = down \o q
  <2>1. e \in Seq(S)
    BY <1>9 DEF GoodInv
  <2>2. a \in S /\ b \in S /\ z \in S /\ p = <<a>> /\ r = <<b, z>>
    BY <1>2, <1>9
  <2>3. p \in Seq(S) /\ r \in Seq(S)
    BY <2>2
  <2>4. (e \o p) \o r = e \o (p \o r) /\ (e \o r) \o p = e \o (r \o p)
    <3>1. (e \o p) \o r = e \o (p \o r)
      BY <2>1, <2>3, ConcatAssociative
    <3>2. (e \o r) \o p = e \o (r \o p)
      BY <2>1, <2>3, ConcatAssociative
    <3> QED BY <3>1, <3>2
  <2>5. down' \in {(e \o p) \o r, (e \o r) \o p}
    BY <1>6, <1>9
  <2> QED
    BY <1>9, <2>4, <2>5
<1>11. /\ q \in Seq(D) /\ Len(q) = 3 /\ 1..Len(q) = {1, 2, 3}
       /\ \/ q[1] = m /\ q[2] = n /\ q[3] = o
          \/ q[1] = n /\ q[2] = o /\ q[3] = m
  <2>1. a \in S /\ b \in S /\ z \in S /\ p = <<a>> /\ r = <<b, z>>
    BY <1>2, <1>9
  <2>2. p \in Seq(S) /\ r \in Seq(S)
    BY <2>1
  <2>3. /\ p \o r \in Seq(S) /\ Len(p \o r) = 3
        /\ (p \o r)[1] = a /\ (p \o r)[2] = b /\ (p \o r)[3] = z
        /\ r \o p \in Seq(S) /\ Len(r \o p) = 3
        /\ (r \o p)[1] = b /\ (r \o p)[2] = z /\ (r \o p)[3] = a
    BY <2>1, <2>2, ThreeSaid
  <2>4. 1..3 = {1, 2, 3}
    OBVIOUS
  <2> HIDE DEF D
  <2> QED
    BY <1>9, <1>10, <2>3, <2>4
<1>12. PICK i \in 1..3 : q[i] = o /\ (\A j \in 1..3 : j # i => q[j] \in {m, n})
  <2>1. CASE q[1] = m /\ q[2] = n /\ q[3] = o
    BY <2>1
  <2>2. CASE q[1] = n /\ q[2] = o /\ q[3] = m
    BY <2>2
  <2> QED
    BY <1>11, <2>1, <2>2
<1>13. Once(q) /\ Tags(q) \subseteq TagOf(m)
  <2>1. Tags(<<n, o>>) = {} /\ Once(<<n, o>>) /\ <<n, o>> \in Seq(Messages)
    <3>1. <<n, o>> = Append(<<n>>, o)
      OBVIOUS
    <3>2. PICK h : h = <<n>>
      OBVIOUS
    <3>3. h \in Seq(Messages) /\ Tags(h) = {} /\ Once(h)
      BY <1>3, <1>8, <3>2, TagsOne
    <3>4. /\ Tags(Append(h, o)) = {}
          /\ Once(Append(h, o)) /\ Append(h, o) \in Seq(Messages)
      BY <1>3, <1>8, <3>3, TagsAppend
    <3> QED
      BY <3>1, <3>2, <3>4
  <2>2. Tags(<<m>>) = TagOf(m) /\ Once(<<m>>) /\ <<m>> \in Seq(Messages)
    BY <1>8, TagsOne
  <2>4. /\ p \in Seq(Messages) /\ r \in Seq(Messages)
        /\ Tags(p) = TagOf(m) /\ Once(p) /\ Tags(r) = {} /\ Once(r)
    BY <1>9, <2>1, <2>2
  <2>5. /\ Tags(p \o r) = TagOf(m) /\ Once(p \o r)
        /\ Tags(r \o p) = TagOf(m) /\ Once(r \o p)
    BY <2>4, TagsConcat
  <2>6. q = p \o r \/ q = r \o p
    BY <1>10
  <2> QED
    BY <2>5, <2>6
<1>14. \A u, k : u # s => Silent(q, u, k)
  BY <1>4, <1>11, <1>12 DEF Silent
<1>15. \A k \in Kinds : v[k] = 0 => Silent(q, s, k)
  BY <1>4, <1>5, <1>11, <1>12 DEF Silent
<1>16. \A k \in Kinds : ~Untold(k, v[k]) => LastSaid(q, s, k, v[k])
  BY <1>4, <1>5, <1>11, <1>12 DEF LastSaid
<1>17. \A u : u # s => ~Promised(q, u)
  BY <1>7, <1>11, <1>12 DEF Promised
<1>18. ASSUME NEW u \in Session, NEW k \in Kinds
       PROVE
         /\ u.n > gen'[u.c] => Silent(q, u, k)
         /\ live'[u.c] = u.n /\ game'[u.c][k] = 0 =>
              /\ Silent(q, u, k)
              /\ u.n > gen[u.c] \/ (live[u.c] = u.n /\ game[u.c][k] = 0)
         /\ Attached(u)' =>
              \/ Untold(k, game'[u.c][k])
              \/ game'[u.c][k] = 0
              \/ LastSaid(q, u, k, game'[u.c][k])
              \/ /\ Attached(u) /\ ~Promised(q, u) /\ Silent(q, u, k)
                 /\ game'[u.c][k] = game[u.c][k]
  <2>1. CASE u = s
    <3>1. ~(u.n > gen'[u.c])
      <4>1. gen'[s.c] \in Nat /\ s.n \in Nat
        BY SessionFacts, ConstantsAssumption
      <4> QED
        BY <2>1, <4>1
    <3> QED
      BY <1>15, <1>16, <2>1, <3>1
  <2>2. CASE u # s /\ u.c = s.c
    <3>1. u.n # s.n
      BY <2>2 DEF Session
    <3> QED
      BY <1>14, <2>2, <3>1 DEF Attached
  <2>3. CASE u.c # s.c
    BY <1>14, <1>17, <2>3
  <2> QED
    BY <2>1, <2>2, <2>3
<1>19. Tags(q) \subseteq TagOf(Head(net.up))
  BY <1>3, <1>13 DEF TagOf
<1>20. NewWords(q)
  BY <1>10, <1>11, <1>13, <1>18, <1>19 DEF NewWords
<1> QED
  BY <1>20

(* A message of the game: only of what it is about. *)
LEMMA EventWords ==
    ASSUME TypeOK, GoodInv, NewsInv, NEW c \in Chars, NEW k \in Kinds, NEW v \in Value,
           GameEvent(c, k, v)
    PROVE  \E q : NewWords(q)
<1>1. /\ live \in [Chars -> 0..MaxGen] /\ gen \in [Chars -> 0..MaxGen]
      /\ game \in [Chars -> [Kinds -> Value]]
  BY DEF TypeOK
<1>2. \A u \in Session : u.c \in Chars /\ u.n \in 1..MaxGen
  BY SessionFacts
<1>3. /\ live[c] > 0 /\ (v = 0 => k \in {"mode", "notice"})
      /\ UNCHANGED <<net, live, gen, attached>>
  BY DEF GameEvent
<1>4. \A d \in Chars : gen'[d] \in Nat /\ live'[d] =< gen'[d] /\ gen[d] =< gen'[d]
  <2>1. \A d \in Chars : gen[d] \in Nat /\ live[d] =< gen[d]
    BY <1>1, ConstantsAssumption DEF NewsInv
  <2> QED
    BY <1>3, <2>1
<1>5. PICK s \in Session : s = [c |-> c, n |-> live[c]]
  <2>1. [c |-> c, n |-> live[c]] \in Session
    BY <1>1, <1>3, SessionFacts, ConstantsAssumption
  <2> QED
    BY <2>1
<1>6. \A d \in Chars, j \in Kinds :
        game'[d][j] = IF d = c /\ j = k /\ v # 0 THEN v ELSE game[d][j]
  <2>1. game' = [game EXCEPT ![c][k] = Stored(k, @, v)]
    BY DEF GameEvent
  <2>2. Stored(k, game[c][k], v) = IF v # 0 THEN v ELSE game[c][k]
    BY <1>3 DEF Stored, SetMode, SetNotice
  <2>3. \A d \in Chars, j \in Kinds :
          game'[d][j] = IF d = c /\ j = k THEN Stored(k, game[c][k], v) ELSE game[d][j]
    BY <1>1, <2>1
  <2> QED
    BY <2>2, <2>3
<1>7. PICK m : m = [t |-> "event", s |-> s, k |-> k, v |-> v]
  OBVIOUS
<1>8. m \in GoodDown /\ m \in Messages /\ TagOf(m) = {} /\ m.t # "opened"
  BY <1>3, <1>7 DEF GoodDown, Downward, Messages, TagOf, Tagged
<1>9. \A u, j : Says(m, u, j) = IF u = s /\ j = k THEN v ELSE 0
  BY <1>7 DEF Says
<1>10. CASE c \in attached
  <2>1. down' = Append(down, m)
    BY <1>5, <1>7, <1>10 DEF GameEvent
  <2>2. PICK q : q = <<m>>
    OBVIOUS
  <2>3. q \in Seq(GoodDown) /\ Len(q) = 1 /\ q[1] = m /\ 1..Len(q) = {1}
    BY <1>8, <2>2
  <2>4. down' = down \o q
    BY <1>8, <2>1, <2>2 DEF GoodInv
  <2>5. Once(q) /\ Tags(q) = {}
    BY <1>8, <2>2, TagsOne
  <2>6. \A u, j : Silent(q, u, j) <=> (u = s /\ j = k => v = 0)
    BY <1>9, <2>3 DEF Silent
  <2>7. v # 0 => LastSaid(q, s, k, v)
    BY <1>9, <2>3 DEF LastSaid
  <2>8. \A u : ~Promised(q, u)
    BY <1>8, <2>3 DEF Promised
  <2>9. ASSUME NEW u \in Session, NEW j \in Kinds
        PROVE
          /\ u.n > gen'[u.c] => Silent(q, u, j)
          /\ live'[u.c] = u.n /\ game'[u.c][j] = 0 =>
               /\ Silent(q, u, j)
               /\ u.n > gen[u.c] \/ (live[u.c] = u.n /\ game[u.c][j] = 0)
          /\ Attached(u)' =>
               \/ Untold(j, game'[u.c][j])
               \/ game'[u.c][j] = 0
               \/ LastSaid(q, u, j, game'[u.c][j])
               \/ /\ Attached(u) /\ ~Promised(q, u) /\ Silent(q, u, j)
                  /\ game'[u.c][j] = game[u.c][j]
    <3>1. game'[u.c][j] = IF u.c = c /\ j = k /\ v # 0 THEN v ELSE game[u.c][j]
      BY <1>2, <1>6
    <3>2. Attached(u)' => Attached(u)
      BY <1>3 DEF Attached
    <3>3. CASE u = s /\ j = k /\ v # 0
      <4>1. game'[u.c][j] = v
        BY <1>5, <3>1, <3>3
      <4>2. ~(u.n > gen'[u.c])
        <5>1. s.n = live[c] /\ s.c = c
          BY <1>5
        <5> QED
          BY <1>1, <1>3, <1>4, <3>3, <5>1, ConstantsAssumption
      <4> QED
        BY <2>7, <3>3, <4>1, <4>2
    <3>4. CASE ~(u = s /\ j = k /\ v # 0)
      <4>1. Silent(q, u, j)
        BY <2>6, <3>4
      <4>2. CASE live[u.c] = u.n
        <5>1. u.c = c => u = s
          BY <1>5, <4>2 DEF Session
        <5>2. game'[u.c][j] = game[u.c][j]
          BY <3>1, <3>4, <5>1
        <5> QED
          BY <1>3, <2>8, <3>2, <4>1, <4>2, <5>2
      <4>3. CASE live[u.c] # u.n
        BY <1>3, <4>1, <4>3 DEF Attached
      <4> QED
        BY <4>2, <4>3
    <3> QED
      BY <3>3, <3>4
  <2> QED
    BY <1>3, <1>4, <2>3, <2>4, <2>5, <2>9 DEF NewWords
<1>11. CASE c \notin attached
  <2>1. down' = down
    BY <1>11 DEF GameEvent
  <2>2. PICK q : q = <<>>
    OBVIOUS
  <2>3. q \in Seq(GoodDown) /\ down' = down \o q
    BY <2>1, <2>2 DEF GoodInv
  <2>4. Once(q) /\ Tags(q) = {}
    BY <2>2, TagsNone
  <2>5. \A i \in 1..Len(q) : FALSE
    BY <2>2
  <2>6. \A u, j : Silent(q, u, j) /\ ~Promised(q, u)
    BY <2>5 DEF Silent, Promised
  <2>7. ASSUME NEW u \in Session, NEW j \in Kinds
        PROVE
          /\ game'[u.c][j] = 0 => game[u.c][j] = 0
          /\ Attached(u)' => Attached(u) /\ game'[u.c][j] = game[u.c][j]
    <3>1. game'[u.c][j] = IF u.c = c /\ j = k /\ v # 0 THEN v ELSE game[u.c][j]
      BY <1>2, <1>6
    <3>2. Attached(u)' => Attached(u) /\ u.c # c
      BY <1>3, <1>11 DEF Attached
    <3> QED
      BY <3>1, <3>2
  <2> QED
    BY <1>3, <1>4, <2>3, <2>4, <2>6, <2>7 DEF NewWords
<1> QED
  BY <1>10, <1>11

(* The gateway tells what it changes. *)
LEMMA SpeaksWords ==
    ASSUME TypeOK, GoodInv, NewsInv, Speaks
    PROVE  \E q : NewWords(q)
<1>1. /\ live \in [Chars -> 0..MaxGen] /\ gen \in [Chars -> 0..MaxGen]
      /\ game \in [Chars -> [Kinds -> Value]] /\ attached \in SUBSET Chars
  BY DEF TypeOK
<1>2. \A s \in Session : s.c \in Chars /\ s.n \in 1..MaxGen
  BY SessionFacts
<1>3. \A c \in Chars : gen[c] \in Nat /\ live[c] =< gen[c]
  BY <1>1, ConstantsAssumption DEF NewsInv
<1>4. ASSUME NEW ok \in BOOLEAN, GatewayAuth(ok) PROVE \E q : NewWords(q)
  <2>1. PICK m : m = [t |-> "auth", ok |-> ok]
    OBVIOUS
  <2>2. m \in Dull /\ TagOf(m) = {}
    BY <2>1 DEF Dull, GoodDown, Downward, TagOf, Tagged
  <2>3. /\ down' = Append(down, m) /\ UNCHANGED <<live, gen, game, attached>>
        /\ net.up # <<>> /\ net' = [net EXCEPT !.up = Tail(net.up)]
    BY <1>4, <2>1 DEF GatewayAuth, FromClient
  <2>4. \A s \in Session : Attached(s)' => Attached(s)
    BY <2>3 DEF Attached
  <2> QED
    BY <2>2, <2>3, <2>4, DullOne
<1>5. CASE GatewayRefuses
  <2>1. Head(net.up).for \in Tag /\ net.up # <<>>
    BY <1>5, FromClientType DEF GatewayRefuses, FromClient
  <2>2. PICK m : m = [t |-> "refused", for |-> Head(net.up).for]
    OBVIOUS
  <2>3. m \in Dull
    BY <2>1, <2>2 DEF Dull, GoodDown, Downward
  <2>4. TagOf(m) \subseteq TagOf(Head(net.up))
    BY <1>5, <2>2 DEF TagOf, Tagged, GatewayRefuses, FromClient
  <2>5. /\ down' = Append(down, m) /\ UNCHANGED <<live, gen, game, attached>>
        /\ net' = [net EXCEPT !.up = Tail(net.up)]
    BY <1>5, <2>2 DEF GatewayRefuses, FromClient, gateway
  <2>6. \A s \in Session : Attached(s)' => Attached(s)
    BY <2>5 DEF Attached
  <2> QED
    BY <2>1, <2>3, <2>4, <2>5, <2>6, DullOne
<1>6. CASE GatewayCloses
  <2>1. Head(net.up).s \in Session /\ net.up # <<>>
    BY <1>6, FromClientType DEF GatewayCloses, FromClient
  <2>2. PICK s \in Session : s = Head(net.up).s
    BY <2>1
  <2>3. PICK m, e : /\ m = [t |-> "connection", s |-> s, v |-> "closed"]
                    /\ e = [t |-> "error", s |-> s]
    OBVIOUS
  <2>4. m \in Dull /\ e \in Dull /\ TagOf(m) = {} /\ TagOf(e) = {}
    BY <2>3 DEF Dull, GoodDown, Downward, TagOf, Tagged
  <2>5. /\ net' = [net EXCEPT !.up = Tail(net.up)] /\ UNCHANGED <<gen, game>>
        /\ \/ Gone(s.c) /\ down' \in {down, Append(down, m)}
           \/ down' = Append(down, e) /\ UNCHANGED <<live, attached>>
    BY <1>6, <2>2, <2>3 DEF GatewayCloses, FromClient
  <2>6. /\ \A d \in Chars : live'[d] = live[d] \/ live'[d] = 0
        /\ \A u \in Session : Attached(u)' => Attached(u)
    <3>1. CASE Gone(s.c)
      BY <1>2, <3>1, GoneAttached
    <3>2. CASE UNCHANGED <<live, attached>>
      BY <3>2 DEF Attached
    <3> QED
      BY <2>5, <3>1, <3>2
  <2>7. CASE down' \in {down, Append(down, m)}
    BY <2>1, <2>4, <2>5, <2>6, <2>7, DullOne
  <2>8. CASE down' = Append(down, e)
    BY <2>1, <2>4, <2>5, <2>6, <2>8, DullOne
  <2> QED
    BY <2>5, <2>7, <2>8
<1>7. ASSUME NEW c \in Chars, SessionLost(c) PROVE \E q : NewWords(q)
  <2>1. /\ live[c] > 0 /\ Gone(c) /\ UNCHANGED <<net, gen, game>>
    BY <1>7 DEF SessionLost
  <2>2. PICK s \in Session : s = [c |-> c, n |-> live[c]]
    <3>1. [c |-> c, n |-> live[c]] \in Session
      BY <1>1, <2>1, SessionFacts, ConstantsAssumption
    <3> QED
      BY <3>1
  <2>3. PICK m, e : /\ m = [t |-> "connection", s |-> s, v |-> "closed"]
                    /\ e = [t |-> "error", s |-> s]
    OBVIOUS
  <2>4. m \in Dull /\ e \in Dull /\ TagOf(m) = {} /\ TagOf(e) = {}
    BY <2>3 DEF Dull, GoodDown, Downward, TagOf, Tagged
  <2>5. /\ \A d \in Chars : live'[d] = live[d] \/ live'[d] = 0
        /\ \A u \in Session : Attached(u)' => Attached(u)
    BY <2>1, GoneAttached
  <2>6. CASE down' = down
    BY <2>1, <2>4, <2>5, <2>6, DullOne
  <2>7. CASE down' = down \o <<m, e>>
    <3>1. PICK q : q = <<m, e>>
      OBVIOUS
    <3>2. q \in Seq(Dull)
      BY <2>4, <3>1
    <3>3. Once(q) /\ Tags(q) = {}
      <4>1. m \in Messages /\ e \in Messages
        BY <2>4 DEF Dull, Messages
      <4>2. PICK h : h = <<m>>
        OBVIOUS
      <4>3. h \in Seq(Messages) /\ Tags(h) = {} /\ Once(h)
        BY <2>4, <4>1, <4>2, TagsOne
      <4>4. q = Append(h, e)
        BY <3>1, <4>2
      <4> QED
        BY <2>4, <4>1, <4>3, <4>4, TagsAppend
    <3>4. NewWords(q)
      BY <2>1, <2>5, <2>7, <3>1, <3>2, <3>3, DullWords
    <3> QED
      BY <3>4
  <2> QED
    BY <1>7, <2>2, <2>3, <2>6, <2>7 DEF SessionLost
<1>8. CASE GatewayReattaches
  <2>1. net.up # <<>> /\ Head(net.up).c \in Chars /\ Head(net.up).for \in Tag
    BY <1>8, FromClientType DEF GatewayReattaches, FromClient
  <2>2. PICK c \in Chars, tag \in Tag : c = Head(net.up).c /\ tag = Head(net.up).for
    BY <2>1
  <2>3. /\ live[c] > 0 /\ live' = live /\ attached' = attached \cup {c} /\ c = tag.s.c
        /\ UNCHANGED <<gen, game>> /\ Head(net.up).t = "open"
        /\ net' = [net EXCEPT !.up = Tail(net.up)]
    BY <1>8, <2>2, GoodMessages DEF GatewayReattaches, FromClient
  <2>4. Answered([c |-> c, n |-> live[c]], game[c], tag)
    BY <1>8, <2>2 DEF GatewayReattaches
  <2>5. PICK s \in Session : s = [c |-> c, n |-> live[c]]
    <3>1. [c |-> c, n |-> live[c]] \in Session
      BY <1>1, <2>3, SessionFacts, ConstantsAssumption
    <3> QED
      BY <3>1
  <2>6. PICK v \in [Kinds -> Value] : v = game[c]
    BY <1>1
  <2>7. Answered(s, v, tag) /\ s.c = c /\ s.n = live[c]
    BY <2>4, <2>5, <2>6
  <2>8. \A d \in Chars : gen'[d] \in Nat /\ live'[d] =< gen'[d] /\ gen[d] =< gen'[d]
    BY <1>3, <2>3
  <2>9. ASSUME NEW u \in Session, u.c # s.c
        PROVE  live'[u.c] = live[u.c] /\ game'[u.c] = game[u.c] /\ (Attached(u)' => Attached(u))
    BY <2>3, <2>7, <2>9 DEF Attached
  <2>10. /\ s.n =< gen'[s.c] /\ live'[s.c] = s.n /\ game'[s.c] = v
         /\ live[s.c] = s.n /\ game[s.c] = v
    BY <1>3, <2>3, <2>6, <2>7
  <2> QED
    BY <2>1, <2>2, <2>3, <2>7, <2>8, <2>9, <2>10, AnswerWords
<1>9. CASE GatewayOpens
  <2>1. net.up # <<>> /\ Head(net.up).c \in Chars /\ Head(net.up).for \in Tag
    BY <1>9, FromClientType DEF GatewayOpens, FromClient
  <2>2. PICK c \in Chars, tag \in Tag : c = Head(net.up).c /\ tag = Head(net.up).for
    BY <2>1
  <2>3. PICK n : n = gen[c] + 1
    OBVIOUS
  <2>4. /\ live[c] = 0 /\ n \in 1..MaxGen /\ c = tag.s.c /\ Head(net.up).t = "open"
        /\ net' = [net EXCEPT !.up = Tail(net.up)]
        /\ gen' = [gen EXCEPT ![c] = n] /\ live' = [live EXCEPT ![c] = n]
        /\ game' = [game EXCEPT ![c] = Unset] /\ attached' = attached \cup {c}
    <3>1. gen[c] < MaxGen /\ live[c] = 0
      BY <1>9, <2>2 DEF GatewayOpens
    <3>2. gen[c] \in 0..MaxGen /\ MaxGen \in Nat
      BY <1>1, ConstantsAssumption
    <3>3. n \in 1..MaxGen
      BY <2>3, <3>1, <3>2
    <3>4. c = tag.s.c
      BY <1>9, <2>2, GoodMessages DEF GatewayOpens, FromClient
    <3> QED
      BY <1>9, <2>2, <2>3, <3>1, <3>3, <3>4 DEF GatewayOpens, FromClient
  <2>5. PICK s \in Session : s = [c |-> c, n |-> n]
    BY <2>4, SessionFacts
  <2>6. PICK v \in [Kinds -> Value] : v = Unset
    BY SessionFacts
  <2>7. Answered(s, v, tag) /\ s.c = c /\ s.n = n
    BY <1>9, <2>2, <2>3, <2>5, <2>6 DEF GatewayOpens
  <2>8. /\ live'[c] = n /\ gen'[c] = n /\ game'[c] = Unset
        /\ \A d \in Chars : d # c =>
             live'[d] = live[d] /\ gen'[d] = gen[d] /\ game'[d] = game[d]
    BY <1>1, <2>4
  <2>9. \A d \in Chars : gen'[d] \in Nat /\ live'[d] =< gen'[d] /\ gen[d] =< gen'[d]
    <3>1. n \in Nat /\ gen[c] \in Nat
      BY <1>3, <2>3
    <3> QED
      BY <1>3, <2>3, <2>8, <3>1
  <2>10. ASSUME NEW u \in Session, u.c # s.c
         PROVE  live'[u.c] = live[u.c] /\ game'[u.c] = game[u.c] /\ (Attached(u)' => Attached(u))
    <3>1. u.c \in Chars /\ u.c # c
      BY <1>2, <2>7, <2>10
    <3> QED
      BY <2>4, <2>8, <3>1 DEF Attached
  <2>11. /\ s.n =< gen'[s.c] /\ live'[s.c] = s.n /\ game'[s.c] = v /\ s.n > gen[s.c]
    BY <1>3, <2>3, <2>6, <2>7, <2>8
  <2> QED
    BY <2>1, <2>2, <2>4, <2>7, <2>9, <2>10, <2>11, AnswerWords
<1> QED
  BY <1>4, <1>5, <1>6, <1>7, <1>8, <1>9, EventWords DEF Speaks, Gateway

LEMMA SpeaksTellsAll ==
    ASSUME TypeOK, GoodInv, TInv, Speaks
    PROVE  TInv'
<1>1. UNCHANGED <<ui, crossed>>
  BY DEF Speaks, Gateway, GatewayAuth, GatewayReattaches, GatewayOpens, GatewayRefuses,
         GatewayCloses, GameEvent, SessionLost, FromClient, bounds
<1>2. PICK q : NewWords(q)
  BY SpeaksWords DEF TInv
<1> QED
  BY <1>1, <1>2, WordsTell

LEMMA TInvInit == Init => TInv
<1> SUFFICES ASSUME Init PROVE TInv
  OBVIOUS
<1>1. /\ net.outbox = <<>> /\ net.up = <<>> /\ waits = {}
      /\ down = <<>> /\ tabs = <<>> /\ attached = {}
      /\ store = [s \in Session |-> Unset]
      /\ live = [c \in Chars |-> 0] /\ gen = [c \in Chars |-> 0]
  BY DEF Init, Unlinked
<1>2. Tags(<<>>) = {} /\ Once(<<>>) /\ \A i \in 1..Len(<<>>) : FALSE
  BY TagsNone
<1>3. TagsInv
  BY <1>1, <1>2 DEF TagsInv, TagsFit, NetTags, NetOnce
<1>4. \A s \in Session, k \in Kinds : store[s][k] = 0 /\ Silent(down, s, k)
  BY <1>1, <1>2 DEF Silent, Unset
<1>5. \A c \in Chars : live[c] =< gen[c]
  BY <1>1
<1>6. \A s : ~Attached(s)
  BY <1>1 DEF Attached
<1> QED
  BY <1>3, <1>4, <1>5, <1>6 DEF TInv, NewsInv, FeedInv

LEMMA TInvStep == Inv /\ CInv /\ TInv /\ [Next]_vars => TInv'
<1> SUFFICES ASSUME TypeOK, LoopInv, GoodInv, TInv, [Next]_vars PROVE TInv'
  BY DEF Inv, CInv
<1>1. CASE SocketOpens
  BY <1>1, SocketOpensTells
<1>2. CASE SocketCloses
  BY <1>2, SocketClosesTells
<1>3. CASE \E tag \in waits : RequestTimesOut(tag)
  BY <1>3, TimesOutTells
<1>4. CASE Buttons
  BY <1>4, ButtonsTell
<1>5. CASE Logout
  BY <1>5, LogoutTells
<1>6. CASE Receive
  BY <1>6, ReceiveTellsAll
<1>7. CASE Speaks
  BY <1>7, SpeaksTellsAll
<1>8. CASE UNCHANGED vars
  <2>1. UNCHANGED <<net, waits, down, live, attached, gen, game, tabs, store, crossed>>
    BY <1>8 DEF vars
  <2> QED
    BY <2>1, UntouchedTells DEF TInv, TagsInv
<1> QED
  BY <1>1, <1>2, <1>3, <1>4, <1>5, <1>6, <1>7, <1>8 DEF Next, Buttons, Speaks

(* When all is quiet, a tab that the gateway feeds shows the state of its    *)
(* session: the snapshot of each reattachment and every event after it have  *)
(* been applied, in that order, whatever answers crossed them               *)
(* (applySnapshot and the handlers of wire(), controller.ts).               *)
THEOREM TabsTellTheGame == Spec => []TabsShowTheGame
<1>1. TypeOK /\ TInv => TabsShowTheGame
  <2> SUFFICES ASSUME TypeOK, TInv, Quiet, ~crossed, NEW s \in ToSet(tabs), Attached(s),
                      NEW k \in Kinds
      PROVE  \/ store[s][k] = game[s.c][k]
             \/ k \in {"list", "edit"} /\ game[s.c][k] # Open
             \/ k = "eagleEye"
    BY DEF TabsShowTheGame
  <2>1. s \in Session
    BY DEF TypeOK, ToSet
  <2>2. \/ Untold(k, game[s.c][k])
        \/ Latest(down, store[s][k], s, k, game[s.c][k])
    BY <2>1 DEF TInv, FeedInv
  <2>3. \A i \in 1..Len(down) : FALSE
    BY DEF Quiet
  <2> QED
    BY <2>2, <2>3 DEF Untold, Latest, LastSaid
<1> QED
  BY <1>1, TInvInit, TInvStep, CInvInit, CInvStep, InvInit, InvStep, LeavingStep, PTL DEF Spec, Inv
=============================================================================
