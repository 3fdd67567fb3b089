----------------------------- MODULE Controller -----------------------------
(***************************************************************************)
(* WsController (frontend/src/ws/controller.ts) and the stores it feeds:   *)
(* login and logout, opening, closing and reopening characters, reattach   *)
(* after a reconnect, and every event of the gateway applied to the state  *)
(* kept per session.  WsClient is reduced to what the controller sees of   *)
(* it (its sockets are the subject of the module WsClient), the gateway to *)
(* the sessions it keeps and the events it sends.                          *)
(*                                                                         *)
(* JavaScript runs one callback at a time and, after it, what awaits the   *)
(* promises it settled, so an action is a callback with the continuations  *)
(* of those promises.                                                      *)
(***************************************************************************)
EXTENDS Naturals, Sequences, SequencesExt, ClientNet

CONSTANTS
    Chars,      \* characters of the account
    Kinds,      \* kinds of state of a session, of those of AllKinds
    Clicks,     \* clicks that reopen a tab, each with its own promise; bounds
                \* how many of them wait at a time
    MaxGen,     \* sessions the gateway opens for one character
    MaxCloses,  \* connections lost or failed
    MaxOps,     \* opens, closes and logins of the user
    MaxEvents,  \* events of the game and sessions it ends
    None        \* no tab

AllKinds == {"map", "status", "cond", "userList", "eagleEye",
             "mode", "notice", "list", "edit"}

ASSUME ConstantsAssumption ==
    /\ Kinds \subseteq AllKinds
    /\ Clicks \cap {"reattach", "select", "nobody"} = {}
    /\ MaxGen \in Nat /\ MaxCloses \in Nat /\ MaxOps \in Nat /\ MaxEvents \in Nat

VARIABLES
    net,        \* WsClient: link, awaitingAuth, outbox, and what is sent
    down,       \* messages of the gateway on their way
    waits,      \* pending promises of session.open
    token,      \* a token is held
    loggedIn,   \* App shows no login screen
    busy,       \* the REST call of Login or of CharacterSelect's logout runs
    leaving,    \* REST calls of logout() that have not ended
    first,      \* hadFirstOpen
    loop,       \* reattaching
    todo,       \* the tabs reattach() has not come to
    shown,      \* connectionStore.socketState
    tabs,       \* sessionStore.sessions, in order of insertion
    active,     \* sessionStore.active
    activeTab,  \* uiStore.activeTab
    errors,     \* uiStore.errors that name a session, and those dismissed
    urgent,     \* uiStore.urgent
    conn,       \* connectionStore.sessions
    store,      \* bySession of the stores of Kinds
    live,       \* gateway: the session of a character, 0 when there is none
    gen,        \* gateway: sessions opened so far
    game,       \* gateway: the state of the session
    attached,   \* gateway: the characters whose events go to this socket
    authed,     \* gateway: the socket has authenticated
    count,      \* what has happened so far, for the bounds
    crossed     \* history: a logout crossed a pending request, or the socket
                \* opened over tabs without a token

client == <<net, waits>>
account == <<token, loggedIn, busy, leaving>>
reattaching == <<first, loop, todo>>
bounds == <<count, crossed>>
sessionStore == <<tabs, active>>
uiStore == <<activeTab, errors, urgent>>
stores == <<conn, store>>
gateway == <<live, gen, game, attached, authed>>
vars == <<net, down, waits, token, loggedIn, busy, leaving, first, loop, todo, shown, tabs, active,
          activeTab, errors, urgent, conn, store, live, gen, game, attached,
          authed, count, crossed>>

Session == [c : Chars, n : 1..MaxGen]
Value == 0..2           \* 0 is undefined
Unset == [k \in Kinds |-> 0]

(* list.active and edit.active *)
Closed == 1
Open == 2

(* Who awaits an answer to session.open, and the tab it does so for.       *)
Tag == [who : {"reattach", "select", "nobody"} \cup Clicks,
        s : [c : Chars, n : 0..MaxGen]]

Upward ==
    [t : {"auth"}] \cup [t : {"open"}, c : Chars, for : Tag]
        \cup [t : {"close"}, s : Session]
Downward ==
    [t : {"auth"}, ok : BOOLEAN]
        \cup [t : {"opened"}, s : Session, for : Tag]
        \cup [t : {"refused"}, for : Tag]
        \cup [t : {"snapshot"}, s : Session, v : [Kinds -> Value]]
        \cup [t : {"connection"}, s : Session, v : {"connected", "closed"}]
        \cup [t : {"error"}, s : Session]
        \cup [t : {"event"}, s : Session, k : Kinds, v : Value]

TypeOK ==
    /\ net \in [link : BOOLEAN, awaiting : BOOLEAN, outbox : Seq(Upward),
                up : Seq(Upward)]
    /\ down \in Seq(Downward)
    /\ waits \in SUBSET Tag
    /\ token \in BOOLEAN /\ loggedIn \in BOOLEAN /\ busy \in BOOLEAN
    /\ leaving \in 0..MaxOps /\ first \in BOOLEAN /\ loop \in BOOLEAN
    /\ todo \in Seq(Session)
    /\ shown \in {"idle", "connecting", "open", "reconnecting"}
    /\ tabs \in Seq(Session)
    /\ active \in Session \cup {None} /\ activeTab \in Session \cup {None}
    /\ errors \in [Session -> {"none", "shown", "dismissed"}]
    /\ urgent \in SUBSET Session
    /\ conn \in [Session -> {"connecting", "connected", "closed"}]
    /\ store \in [Session -> [Kinds -> Value]]
    /\ live \in [Chars -> 0..MaxGen] /\ gen \in [Chars -> 0..MaxGen]
    /\ game \in [Chars -> [Kinds -> Value]]
    /\ attached \in SUBSET Chars /\ authed \in BOOLEAN
    /\ crossed \in BOOLEAN
    /\ count \in [closes : 0..MaxCloses, ops : 0..MaxOps, events : 0..MaxEvents]

(* main.tsx: restore() takes a stored token, connect() opens the socket.   *)
Init ==
    /\ net = Unlinked(<<>>)
    /\ down = <<>> /\ waits = {} /\ todo = <<>> /\ tabs = <<>> /\ urgent = {}
    /\ token \in BOOLEAN /\ loggedIn = token /\ busy = FALSE /\ leaving = 0
    /\ first = FALSE /\ loop = FALSE
    /\ shown = "idle"
    /\ active = None /\ activeTab = None
    /\ errors = [s \in Session |-> "none"]
    /\ conn = [s \in Session |-> "connecting"]
    /\ store = [s \in Session |-> Unset]
    /\ live = [c \in Chars |-> 0] /\ gen = [c \in Chars |-> 0]
    /\ game = [c \in Chars |-> Unset]
    /\ attached = {} /\ authed = FALSE
    /\ crossed = FALSE
    /\ count = [closes |-> 0, ops |-> 0, events |-> 0]

Spend(what, bound) ==
    /\ count[what] < bound
    /\ count' = [count EXCEPT ![what] = @ + 1]
-----------------------------------------------------------------------------
(* WsClient, by the operators of ClientNet. *)
Auth == [t |-> "auth"]

(* The messages of q whose promise is settled: their answers find nobody. *)
Abandoned(q, settled) ==
    [i \in DOMAIN q |->
        IF q[i].t \in {"open", "opened", "refused"} /\ q[i].for \in settled
          THEN [q[i] EXCEPT !.for.who = "nobody"] ELSE q[i]]

For(who, s) == [who |-> who, s |-> s]
OpenRequest(tag) == [t |-> "open", c |-> tag.s.c, for |-> tag]

(* request(session.open) on client state n while w is pending. *)
Ask(n, w, tag) ==
    /\ net' = Sent(n, OpenRequest(tag))
    /\ waits' = w \cup {tag}

(* reattach(): the next tab of q is asked for, after the last one the      *)
(* reattachment is over.                                                   *)
LoopOn(n, w, q) ==
    \/ /\ q # <<>>
       /\ loop' = TRUE
       /\ todo' = Tail(q)
       /\ Ask(n, w, For("reattach", Head(q)))
    \/ /\ q = <<>>
       /\ loop' = FALSE
       /\ todo' = <<>>
       /\ net' = n
       /\ waits' = w

(* A promise of waits is rejected and w remain: reattach() reports the tab *)
(* and goes on, the others leave it to their screens.                      *)
Rejected_Silent(n, w, tags) ==
    /\ UNCHANGED errors
    /\ IF \E s \in Session : For("reattach", s) \in tags
         THEN LoopOn(n, w, todo)
         ELSE net' = n /\ waits' = w /\ UNCHANGED <<loop, todo>>
Rejected_Stops(n, w, tags) ==
    /\ errors' = [s \in Session |->
                    IF For("reattach", s) \in tags THEN "shown" ELSE errors[s]]
    /\ net' = n /\ waits' = w /\ UNCHANGED <<loop, todo>>
Rejected(n, w, tags) ==
    /\ errors' = [s \in Session |->
                    IF For("reattach", s) \in tags THEN "shown" ELSE errors[s]]
    /\ IF \E s \in Session : For("reattach", s) \in tags
         THEN LoopOn(n, w, todo)
         ELSE net' = n /\ waits' = w /\ UNCHANGED <<loop, todo>>
-----------------------------------------------------------------------------
(* onopen: with a token auth goes first and the outbox waits for it.  An   *)
(* open after the first one reattaches, unless that is still going on.     *)
SocketOpens ==
    /\ ~net.link
    /\ LET m == Opened(net, token, Auth)
       IN  IF first /\ ~loop /\ token
             THEN LoopOn(m, waits, tabs)
             ELSE net' = m /\ UNCHANGED <<waits, loop, todo>>
    /\ first' = TRUE
    /\ shown' = "open"
    /\ crossed' = (crossed \/ (~token /\ tabs # <<>>))
    /\ UNCHANGED <<down, account, sessionStore, uiStore, stores, gateway, count>>

(* onclose, of an open socket or of one that fails to connect: all pending *)
(* promises are rejected.  The gateway detaches the sessions.              *)
SocketCloses ==
    /\ Spend("closes", MaxCloses)
    /\ Rejected(Unlinked(Abandoned(net.outbox, waits)), {}, waits)
    /\ down' = <<>>
    /\ shown' = "reconnecting"
    /\ attached' = {} /\ authed' = FALSE
    /\ UNCHANGED <<account, first, sessionStore, activeTab, urgent, stores, live,
                   gen, game, crossed>>

(* The timeout of a request; its message stays where it is. *)
RequestTimesOut(tag) ==
    /\ tag \in waits
    /\ Rejected([net EXCEPT !.outbox = Abandoned(@, {tag}),
                            !.up = Abandoned(@, {tag})], waits \ {tag}, {tag})
    /\ down' = Abandoned(down, {tag})
    /\ UNCHANGED <<account, first, shown, sessionStore, activeTab, urgent, stores,
                   gateway, bounds>>

(* The button of the banner (the socket it opens: SocketOpens). *)
ReconnectNow ==
    /\ shown = "reconnecting"
    /\ shown' = "connecting"
    /\ UNCHANGED <<client, down, account, reattaching, sessionStore, uiStore,
                   stores, gateway, bounds>>

(* login(): the banner says connecting until the socket opens again.       *)
Login ==
    /\ ~loggedIn /\ ~busy
    /\ Spend("ops", MaxOps)
    /\ shown' = "connecting"
    /\ busy' = TRUE
    /\ UNCHANGED <<client, down, token, loggedIn, leaving, reattaching, sessionStore,
                   uiStore, stores, gateway, crossed>>

LoginEnds(ok) ==
    /\ ~loggedIn /\ busy
    /\ busy' = FALSE
    /\ token' = (token \/ ok) /\ loggedIn' = ok
    /\ net' = WithToken(net, ok, Auth)
    /\ UNCHANGED <<down, waits, leaving, reattaching, shown, sessionStore, uiStore,
                   stores, gateway, bounds>>

(* What CharacterSelect's buttons wait for. *)
Busy == busy \/ \E g \in waits : g.who = "select"

(* logout(), of the game or of CharacterSelect: the stores are reset;      *)
(* socketState and the socket stay, and so does what is pending.           *)
Logout ==
    /\ loggedIn
    /\ activeTab = None => ~Busy
    /\ Spend("ops", MaxOps)
    /\ crossed' = (crossed \/ waits # {})
    /\ token' = FALSE
    /\ busy' = (activeTab = None)
    /\ leaving' = leaving + 1
    /\ tabs' = <<>> /\ active' = None /\ activeTab' = None
    /\ errors' = [s \in Session |-> "none"]
    /\ urgent' = {}
    /\ conn' = [s \in Session |-> "connecting"]
    /\ store' = [s \in Session |-> Unset]
    /\ UNCHANGED <<client, down, loggedIn, reattaching, shown, gateway>>

(* Its REST call ends, well or not; until then CharacterSelect is shown,   *)
(* without a token.                                                        *)
LoggedOut ==
    /\ leaving > 0
    /\ leaving' = leaving - 1
    /\ loggedIn' = FALSE
    /\ busy' = (busy /\ ~loggedIn)
    /\ UNCHANGED <<client, down, token, reattaching, shown, sessionStore, uiStore,
                   stores, gateway, bounds>>
-----------------------------------------------------------------------------
(* CharacterSelect, the screen without a tab: one character at a time. *)
Select(c) ==
    /\ loggedIn /\ activeTab = None /\ ~Busy
    /\ Spend("ops", MaxOps)
    /\ Ask(net, waits, For("select", [c |-> c, n |-> 0]))
    /\ UNCHANGED <<down, account, reattaching, shown, sessionStore, uiStore, stores,
                   gateway, crossed>>

(* closeSession() of the tab shown: the tab stays, marked closed. *)
CloseSession ==
    /\ loggedIn /\ activeTab # None
    /\ conn[activeTab] # "closed"
    /\ Spend("ops", MaxOps)
    /\ net' = Sent(net, [t |-> "close", s |-> activeTab])
    /\ conn' = [conn EXCEPT ![activeTab] = "closed"]
    /\ UNCHANGED <<down, waits, account, reattaching, shown, sessionStore, uiStore,
                   store, gateway, crossed>>

(* reopenSession() of the tab shown, up to its request.  The button stays  *)
(* as it is until a session is connected, and may be clicked again.        *)
ReopenSession(click) ==
    /\ loggedIn /\ activeTab # None
    /\ conn[activeTab] = "closed"
    /\ For(click, activeTab) \notin waits
    /\ Spend("ops", MaxOps)
    /\ Ask(net, waits, For(click, activeTab))
    /\ UNCHANGED <<down, account, reattaching, shown, sessionStore, uiStore, stores,
                   gateway, crossed>>

(* TabBar *)
SelectTab(s) ==
    /\ loggedIn /\ activeTab # None /\ activeTab # s
    /\ Contains(tabs, s)
    /\ active' = s /\ activeTab' = s
    /\ urgent' = urgent \ {s}
    /\ UNCHANGED <<client, down, account, reattaching, shown, tabs, errors, stores,
                   gateway, bounds>>

(* ErrorBanners *)
DismissError(s) ==
    /\ errors[s] = "shown"
    /\ errors' = [errors EXCEPT ![s] = "dismissed"]
    /\ UNCHANGED <<client, down, account, reattaching, shown, sessionStore, activeTab,
                   urgent, stores, gateway, bounds>>
-----------------------------------------------------------------------------
(* handleRaw of the next message, by the handler that wire() registers. *)
Message == Head(down)
Take(t) == down # <<>> /\ Message.t = t /\ down' = Tail(down)

(* auth ok opens the gate; a refusal leaves it shut, forgets the token and *)
(* leaves the tab.                                                         *)
ReceiveAuth ==
    /\ Take("auth")
    /\ IF Message.ok
         THEN /\ net' = Granted(net)
              /\ UNCHANGED <<token, activeTab>>
         ELSE token' = FALSE /\ activeTab' = None /\ UNCHANGED net
    /\ UNCHANGED <<waits, loggedIn, busy, leaving, reattaching, shown, sessionStore, errors, urgent,
                   stores, gateway, bounds>>

(* addSession() and setActive(), then what awaited openSession(). *)
Added(q, s) == IF Contains(q, s) THEN q ELSE Append(q, s)

Replaced(q, tag, s) ==
    IF tag.s # s /\ Contains(q, tag.s)
      THEN RemoveAt(Added(q, s), CHOOSE i \in DOMAIN q : q[i] = tag.s)
      ELSE Added(q, s)

Resumed_TabStays(s, tag) ==
    IF tag.who = "reattach"
      THEN /\ tabs' = Added(tabs, s)
           /\ LoopOn(net, waits \ {tag}, todo)
           /\ UNCHANGED activeTab
      ELSE /\ tabs' = Replaced(tabs, tag, s)
           /\ activeTab' = IF tag.who = "select" THEN s ELSE activeTab
           /\ waits' = waits \ {tag}
           /\ UNCHANGED <<net, loop, todo>>
Resumed(s, tag) ==
    \/ /\ tag.who = "reattach"
       /\ tabs' = Added(tabs, s)
       /\ LoopOn(net, waits \ {tag}, todo)
       /\ UNCHANGED activeTab
    \/ /\ tag.who \in {"select"} \cup Clicks
       /\ tabs' = Replaced(tabs, tag, s)
       /\ activeTab' = s
       /\ waits' = waits \ {tag}
       /\ UNCHANGED <<net, loop, todo>>

(* res.session, not the session that was asked for. *)
SessionOf_Asked(m) == m.for.s
SessionOf(m) == m.s

ReceiveOpened ==
    /\ Take("opened")
    /\ IF Message.for \in waits
         THEN active' = SessionOf(Message) /\ Resumed(SessionOf(Message), Message.for)
         ELSE UNCHANGED <<client, sessionStore, activeTab, loop, todo>>
    /\ UNCHANGED <<account, first, shown, errors, urgent, stores, gateway, bounds>>

(* An answer without a session: openSession() throws. *)
ReceiveRefused ==
    /\ Take("refused")
    /\ IF Message.for \in waits
         THEN Rejected(net, waits \ {Message.for}, {Message.for})
         ELSE UNCHANGED <<client, errors, loop, todo>>
    /\ UNCHANGED <<account, first, shown, sessionStore, activeTab, urgent, stores,
                   gateway, bounds>>

(* mode and notice keep the fields that a message does not give, the other *)
(* stores replace the state of the session.                                *)
SetMode(old, new) == IF new = 0 THEN old ELSE new
SetNotice(old, new) == IF new = 0 THEN old ELSE new

Stored(k, old, new) ==
    CASE k = "mode" -> SetMode(old, new)
      [] k = "notice" -> SetNotice(old, new)
      [] OTHER -> new

(* applySnapshot: what the snapshot does not contain stays. *)
Restored_NoNotice(k, old, new) ==
    IF new = 0 \/ k = "notice" THEN old ELSE Stored(k, old, new)
Restored(k, old, new) == IF new = 0 THEN old ELSE Stored(k, old, new)

ReceiveSnapshot ==
    /\ Take("snapshot")
    /\ store' = [store EXCEPT ![Message.s] =
                   [k \in Kinds |-> Restored(k, @[k], Message.v[k])]]
    /\ UNCHANGED <<client, account, reattaching, shown, sessionStore, uiStore, conn,
                   gateway, bounds>>

(* A status with fewer points marks a tab that is not shown. *)
Drops(s, k, v) == k = "status" /\ s # activeTab /\ 0 < v /\ v < store[s][k]

ReceiveEvent ==
    /\ Take("event")
    /\ LET s == Message.s  k == Message.k IN
       /\ store' = [store EXCEPT ![s][k] = Stored(k, @, Message.v)]
       /\ urgent' = IF Drops(s, k, Message.v) THEN urgent \cup {s} ELSE urgent
    /\ UNCHANGED <<client, account, reattaching, shown, sessionStore, activeTab,
                   errors, conn, gateway, bounds>>

ReceiveConnection ==
    /\ Take("connection")
    /\ conn' = [conn EXCEPT ![Message.s] = Message.v]
    /\ UNCHANGED <<client, account, reattaching, shown, sessionStore, uiStore, store,
                   gateway, bounds>>

ReceiveError ==
    /\ Take("error")
    /\ errors' = [errors EXCEPT ![Message.s] = "shown"]
    /\ UNCHANGED <<client, account, reattaching, shown, sessionStore, activeTab,
                   urgent, stores, gateway, bounds>>
-----------------------------------------------------------------------------
(* The gateway. *)
FromClient(t) == net.up # <<>> /\ Head(net.up).t = t /\ net' = [net EXCEPT !.up = Tail(@)]
ui == <<waits, account, reattaching, shown, sessionStore, uiStore, stores>>

(* A token is refused once it has expired. *)
GatewayAuth(ok) ==
    /\ FromClient("auth")
    /\ down' = Append(down, [t |-> "auth", ok |-> ok])
    /\ authed' = (authed \/ ok)
    /\ UNCHANGED <<ui, live, gen, game, attached, bounds>>

(* build_snapshot *)
Snapshot(v) ==
    [k \in Kinds |-> IF k = "eagleEye" \/ (k \in {"list", "edit"} /\ v[k] # Open)
                       THEN 0 ELSE v[k]]

(* The answer, before or after what open_session() emits. *)
Answered(s, v, tag) ==
    LET answer == <<[t |-> "opened", s |-> s, for |-> tag]>>
        emitted == <<[t |-> "connection", s |-> s, v |-> "connected"],
                     [t |-> "snapshot", s |-> s, v |-> Snapshot(v)]>>
    IN  down' \in {down \o answer \o emitted, down \o emitted \o answer}

GatewayReattaches ==
    /\ FromClient("open")
    /\ LET c == Head(net.up).c IN
       /\ authed /\ live[c] > 0
       /\ attached' = attached \cup {c}
       /\ Answered([c |-> c, n |-> live[c]], game[c], Head(net.up).for)
    /\ UNCHANGED <<ui, live, gen, game, authed, bounds>>

GatewayOpens ==
    /\ FromClient("open")
    /\ LET c == Head(net.up).c IN
       /\ authed /\ live[c] = 0 /\ gen[c] < MaxGen
       /\ gen' = [gen EXCEPT ![c] = @ + 1]
       /\ live' = [live EXCEPT ![c] = gen[c] + 1]
       /\ game' = [game EXCEPT ![c] = Unset]
       /\ attached' = attached \cup {c}
       /\ Answered([c |-> c, n |-> gen[c] + 1], Unset, Head(net.up).for)
    /\ UNCHANGED <<ui, authed, bounds>>

(* Not authenticated, or the game server cannot be reached. *)
GatewayRefuses ==
    /\ FromClient("open")
    /\ ~authed \/ live[Head(net.up).c] = 0
    /\ down' = Append(down, [t |-> "refused", for |-> Head(net.up).for])
    /\ UNCHANGED <<ui, gateway, bounds>>

Gone(c) ==
    /\ live' = [live EXCEPT ![c] = 0]
    /\ attached' = attached \ {c}

(* session.close, of a session that may be gone. *)
GatewayCloses ==
    /\ FromClient("close")
    /\ LET s == Head(net.up).s IN
       IF live[s.c] = s.n
         THEN /\ Gone(s.c)
              /\ down' = IF s.c \in attached
                           THEN Append(down, [t |-> "connection", s |-> s, v |-> "closed"])
                           ELSE down
         ELSE down' = Append(down, [t |-> "error", s |-> s]) /\ UNCHANGED <<live, attached>>
    /\ UNCHANGED <<ui, gen, game, authed, bounds>>

(* An event of the game, which may leave out a field of mode and notice;   *)
(* one for a browser that is away is only recorded.                        *)
GameEvent(c, k, v) ==
    /\ live[c] > 0
    /\ v = 0 => k \in {"mode", "notice"}
    /\ Spend("events", MaxEvents)
    /\ game' = [game EXCEPT ![c][k] = Stored(k, @, v)]
    /\ down' = IF c \in attached
                 THEN Append(down, [t |-> "event", s |-> [c |-> c, n |-> live[c]],
                                    k |-> k, v |-> v])
                 ELSE down
    /\ UNCHANGED <<ui, net, live, gen, attached, authed, crossed>>

(* The game server drops the connection, or the gateway reaps a session    *)
(* that nobody reads.                                                      *)
SessionLost(c) ==
    /\ live[c] > 0
    /\ Spend("events", MaxEvents)
    /\ Gone(c)
    /\ LET s == [c |-> c, n |-> live[c]] IN
       down' = IF c \in attached
                 THEN down \o <<[t |-> "connection", s |-> s, v |-> "closed"],
                                [t |-> "error", s |-> s]>>
                 ELSE down
    /\ UNCHANGED <<ui, net, gen, game, authed, crossed>>
-----------------------------------------------------------------------------
Receive ==
    \/ ReceiveAuth \/ ReceiveOpened \/ ReceiveRefused \/ ReceiveSnapshot
    \/ ReceiveEvent \/ ReceiveConnection \/ ReceiveError
Gateway ==
    \/ GatewayAuth(TRUE) \/ GatewayReattaches \/ GatewayOpens \/ GatewayRefuses
    \/ GatewayCloses

Next ==
    \/ SocketOpens \/ SocketCloses \/ ReconnectNow
    \/ \E tag \in waits : RequestTimesOut(tag)
    \/ Login \/ \E ok \in BOOLEAN : LoginEnds(ok)
    \/ Logout \/ LoggedOut \/ CloseSession \/ \E click \in Clicks : ReopenSession(click)
    \/ \E c \in Chars : Select(c) \/ SessionLost(c)
    \/ \E s \in Session : SelectTab(s) \/ DismissError(s)
    \/ Receive \/ Gateway \/ GatewayAuth(FALSE)
    \/ \E c \in Chars, k \in Kinds, v \in Value : GameEvent(c, k, v)

Spec == Init /\ [][Next]_vars
-----------------------------------------------------------------------------
(* Nothing is under way between a logged-in browser and the gateway. *)
Quiet ==
    /\ net.link /\ ~net.awaiting /\ token
    /\ net.outbox = <<>> /\ net.up = <<>> /\ down = <<>>
    /\ waits = {} /\ ~loop

Attached(s) == live[s.c] = s.n /\ s.c \in attached

(* Whatever happened to the connection, also while reattach() was waiting, *)
(* the character of the tabs is not forgotten: a tab of it is fed by the    *)
(* gateway, or says that it is closed, or a banner has named a session of   *)
(* it.  (The screens give one character at a time its tabs.  With tabs of   *)
(* several, a connection lost while reattach() waits for the last of them   *)
(* leaves the ones before it forgotten: controller.ts 284.  Left out with   *)
(* ~crossed: the tab that an answer brings back after a logout, and tabs of *)
(* a former login under a socket that opened without a token.)              *)
OneCharacter == \A s, u \in ToSet(tabs) : s.c = u.c

NoTabForgotten ==
    Quiet /\ ~crossed /\ OneCharacter => \A s \in ToSet(tabs) :
        \/ \E u \in ToSet(tabs) : Attached(u) \/ conn[u] = "closed"
        \/ \E u \in Session : u.c = s.c /\ errors[u] # "none"

(* A tab that the gateway feeds shows the state of its session: whatever   *)
(* was missed came with the snapshot.  The snapshot cannot tell that a     *)
(* list or an edit has ended, nor does it have the eagle eye.  (~crossed: a *)
(* logout empties the store while the answer of a session.open is awaited,  *)
(* and the snapshot with it; tabs that are left of a former login, under a  *)
(* socket opened without a token, are not reattached.)                      *)
TabsShowTheGame ==
    Quiet /\ ~crossed => \A s \in ToSet(tabs) : Attached(s) =>
        \A k \in Kinds :
            \/ store[s][k] = game[s.c][k]
            \/ k \in {"list", "edit"} /\ game[s.c][k] # Open
            \/ k = "eagleEye"

(* The tab on the screen and the focused session are tabs, through logout, *)
(* reopening under a new session and answers that come late.               *)
ShownTabExists == {active, activeTab} \subseteq ToSet(tabs) \cup {None}

(* reattach() is never stuck: while it goes on it waits for one request,   *)
(* which an answer, the close or its timeout settles; otherwise no later   *)
(* reconnect could reattach anything.                                      *)
LoopWaits == loop <=> \E s \in Session : For("reattach", s) \in waits

(* logout() leaves nothing of the account behind: as long as nobody is     *)
(* logged in, no tab appears.                                              *)
NoTabWithoutLogin ==
    [][~token /\ ~token' => ToSet(tabs') \subseteq ToSet(tabs)]_vars
=============================================================================
