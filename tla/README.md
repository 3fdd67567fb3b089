# phi-client-web: verification project

TLA+ models of phi-client-web, the browser client of a line-based legacy game
server and the gateway between the two, checked with TLC on small instances and,
for the parts that matter most, proved with TLAPS for every instance.

    browser (React/TypeScript)  <-- WebSocket/JSON -->  gateway (FastAPI, one asyncio process)
                                                          |            |
                                                   TCP, Shift-JIS    SQLite, asset files
                                                          |
                                                  legacy game server(s)

Line numbers below refer to the sources under `src/`.

## 1. Inventory

### Gateway (`backend/app`)

| component | state | operations | what is hard |
|---|---|---|---|
| SessionManager (`session.py`) | `_sessions`, `_by_char`, per session: socket, tasks, detach timer, `on_event`, last status/map/list | open or re-attach, close, detach, timeout, intents, broadcast, receive and keepalive loops, shutdown | four kinds of tasks share the two dictionaries; every `await` lets another one in |
| LegacySocket (`legacy_socket.py`) | reader, writer, `_closed`, line buffer | connect, close, send, read_line | `connected` says nothing of the peer; `read_line` swallows cancellation |
| WsConnection (`ws_server.py`) | `_sessions`, `_account_id`, outbound queue, connection count | auth, session.open/close, intents, settings, end of `run()` | its end may come long after a newer WebSocket took its sessions |
| World transfer (`session.py` 376-519) | two sockets, the step of the handshake | seven steps, 300 s limit | cancellation in the middle of a two-party handshake |
| ProtocolParser, CommandSerializer, LineBuffer, CodeConverter (`protocol/`) | partial line, open multi-line block, list/edit mode, user numbers | feed, serialize | blocks interrupted by other lines; user numbers that go stale |
| Limits (`ratelimit.py`) | token buckets with LRU and GC, login failures, connection counts | allow, check, acquire, release | forgetting a limit by eviction; releasing what was acquired for another account |
| Accounts, tokens, characters (`auth.py`, `rest/admin.py`, `rest/characters.py`, `admin_cli.py`, `store/`) | SQLite tables | register, login, logout, grant, revoke, delete, CRUD | whoever is deleted or revoked must lose the tokens too; the CLI writes the same database without the checks of REST |
| Legacy registration (`register.py`, `rest/register.py`) | one temporary connection | register, persist | the remote half succeeds and the local half fails; timeout |
| Asset library (`rest/chara.py`, `rest/chip.py`, `store/seed.py`) | files and rows, protection | upload, delete, seed | a stop between file and row |

### Browser (`frontend/src`)

| component | state | operations | what is hard |
|---|---|---|---|
| WsClient (`ws/client.ts`) | socket, reconnect timer, auth gate, outbox, pending requests | connect, send, request, setAuthToken, reconnectNow, socket callbacks | callbacks of a replaced socket act on the current one; order of auth, outbox and direct sends |
| WsController (`ws/controller.ts`) | token, `hadFirstOpen`, `reattaching` | login, logout, restore, re-attach after reconnect, open/close/reopen session | what runs on after an `await` meets other tabs, another socket or no account |
| Stores (`stores/`) | per session map, status, chat, list, edit, users; tabs | event handlers, applySnapshot | a snapshot after a gap must leave nothing of before |
| Wire protocol (`types/protocol.ts`) | none | the messages of both directions | every sender keeps to it |
| Keyboard (`lib/keyHandler.ts`, `lib/useKeyHandler.ts`) | the settings | resolveKey, describeKeys, the listener | two sets of tables that must agree; which key belongs to a text field |
| Game screen (`ListView`, `EditDialog`, `PromptDialog`, `HelpDialog`, `CommandBar`, `TouchControls`, `TabBar`, `MapView`) | drafts, checks, the prompt, the focus | answer, cancel, pick, click, switch tabs | answers of one tab given while another is shown; the focus |
| Chat (`Chat.tsx`, `ConfirmDialog.tsx`, `chatStore.ts`, `notify.ts`) | draft, history, mode, dialog, log, unread counts | write, recall, send, confirm, receive | the dialog is a closure of an earlier moment |
| Settings (`Settings.tsx`, `settingsStore.ts`) | a value per scope, here and at the gateway | load, edit, apply an answer or an echo | echoes and answers cross edits; messages lost with the connection |
| Account screens (`Login`, `CharacterSelect`, `Register`, `Admin/`, `api/`) | lists, forms, token | REST calls, several at a time | answers in any order, to a component that may be gone |
| Map (`automapStore.ts`, `useImage.ts`, `mapRender.ts`, `drawMap.ts`, ...) | recorded map, `localStorage`, image cache | record, recall, load, draw | fog, failed saves, reloads; drawing from images that are not there yet |

Tools (`tools/`, `gfx/`) convert graphics offline; they have no state worth a model.

### How they interact

* A browser opens a WebSocket, sends `auth` and then `session.open {charId}`. The
  gateway re-attaches to a standing session of the character or connects to the
  legacy server and logs in. Events flow back through `on_event`, which is the
  `_enqueue` of one WsConnection.
* When the WebSocket ends, `run()` detaches every session it opened: events are
  dropped and a 300 s timer starts. `session.open` cancels it.
* The browser reconnects by itself with a backoff, or by a button; it repeats `auth`
  and re-opens its sessions.
* `shutdown()` runs after the server has ended every WebSocket.

### What makes each component correct

* SessionManager: one legacy login per character; no connection to the legacy server
  that nobody can close; a session is held by a living browser or its timer runs;
  no session is taken from a browser that claims it; losses are reported; shutdown
  leaves nothing behind.
* WsClient: nothing is sent on a connection before its `auth`; messages go out in their order
  and once at most; a request is answered, rejected or still answerable; the client
  comes back after a loss and its gate opens.
* World transfer: a character is logged in on exactly one server; a failed transfer
  leaves the session where it was; no connection leaks.
* Limits and accounts: counts equal what is held; REST does not remove the last administrator;
  a token of a deleted account is worthless.
* Registration, assets: what exists remotely or on disk is what the database says.
* Controller, stores: after a reconnect every tab is fed or says that it is not, and the
  browser shows what the gateway knows; nothing of an account outlives its logout.
* Screens: a key in a text field does not play; an answer goes to the tab that asked; nothing
  is shouted unconfirmed; the help is true; a character is created where its graphics come from.
* Settings, lists, map: when nothing is under way the browser has what the gateway has,
  and the recorded map shows what was seen last.

`PROJECT.json` lists the hazards with their lines, and with the properties that would catch them; where a
property leaves part of one out, the note of the hazard says which.

## 2. Plan

| # | module(s) | subject | state |
|---|---|---|---|
| 1 | `SessionLease`, `SessionManager`, `SessionManagerProofs` | abstract lease of a session; the gateway that implements it | modelled, checked, proved |
| 2 | `MessageOrder`, `ClientNet`, `ClientLink`, `WsClient`, `WsClientProofs` | abstract order of the messages; the client as its user sees it; the browser's WebSocket client that implements both | modelled, checked, proved |
| 3 | `WorldTransfer`, `WorldTransferProofs` | the `#ch-srv` handshake between two legacy servers | modelled, checked, proved |
| 4 | `Controller`, `ControllerProofs` | WsController and the stores per session over an abstract client and gateway: re-attach after a reconnect, reopen, close, logout | modelled, checked, proved |
| 5 | `Protocol`, `Keys` | the messages; what keys mean | modelled |
| 6 | `GameScreen`, `ChatBox`, `SettingsSync` with `GameScreenProofs`; `AccountScreens`, `MapPicture` with their `...Proofs`; `FrontendProofs` | the screens of the browser, and all of them side by side | modelled, checked, proved |
| 7 | the parser's blocks; broadcast and list closing in the gateway; asset files and rows over restarts; the connection limit; the registration dialogue | | not modelled, see 6 |

`Controller` takes the place of a composition of `WsClient` and `SessionManager`, since the
product of the detailed modules is far beyond TLC: it is built from the operators of `ClientNet`
for the one and from its own (`GatewayOpens`, `GatewayReattaches`) for the other. That the
detailed client behaves as those operators say is proved, with `ClientLink` as the specification
they add up to. Abstract specifications: `SessionLease`, `MessageOrder`, `ClientLink`. Every
module to be proved about avoids RECURSIVE operators.

## 3. The models

### SessionManager

One action is the code between two suspensions of a task; the event loop makes it
atomic. What suspends is listed at the head of the module. The correspondence:

| model | code |
|---|---|
| `sessions`, `byChar`, `key` | `_sessions`, `_by_char`, `_SessionState.key` |
| `sock[s]` | `LegacySocket`: `new` no writer; `open` writer and not `_closed`; `eof` writer and `_closed`; `closed` after `close()` |
| `link[s]` | the TCP connection as the legacy server sees it: `down` the server ended it, `left` the gateway after `#x`, `cut` the gateway without |
| `recv[s]`, `timer[s]`, `onEvent[s]` | `_recv_task`, `_detach_task`, `on_event` |
| `ws[w]`, `cur[w]`, `mine[w]` | the receiver loop of a WsConnection, the session its handler works on, `_sessions` |
| `told[w][s]` | the last connection event of `s` put in the queue of `w` |
| `OpenReattach`, `OpenNew`, `OpenConnected`, `OpenRefused`, `OpenLoginFails` | `open_session` up to, and after, `await sock.connect` |
| `CloseRequest`, `CloseEnd` | `_handle_session_close`; `CloseSession` is `close_session` up to its first suspension |
| `WsEnd`, `TimerFire` | `run()`'s finally with `detach`; `_detach_timeout` |
| `RecvEof`, `RecvBye`, `RecvAnswerFails`, `RecvCancelled` | the ways `_recv_loop` reports `closed` |
| `ShutdownBegin`, `ShutdownClose`, `ShutdownSkip`, `ShutdownNext` | `shutdown()` from the lifespan of the application |

Left out: the keepalive task (it sends a line or ends; its send cannot change any of
these variables), the intents, the snapshot's content, and the transfer, which
has its module. `drain()` is taken not to suspend, which holds for
lines far below the high-water mark. A refused connect may also be the 10 s timeout.

`SessionLease` says what a browser may rely on: sessions are granted, established, taken
over, parked when their holder leaves, and a parked session is taken or expires. The
refinement maps `LifeOf(s)` (from `key`, `sessions`, `recv`), `onEvent` and the ended
WebSockets.

### WsClient

One action is one JavaScript callback. `sock` has one entry per WebSocket object ever
created, because the handlers of a replaced object stay alive and act on `this.ws`;
`up` and `dn` are the messages in flight of each. `awaiting` is `awaitingAuth`, `shown` is
the banner's `socketState`, which decides whether the reconnect button is offered.
`hurried` is a history variable: the button was pressed while an earlier socket was still
connecting. With several such sockets an outbox can be flushed onto a socket that cannot
send, which loses it; two properties are therefore stated for clients that did not hurry.
Answers of the gateway follow `_handle_auth` and `_dispatch`: each message is answered in
order, a token in `Stale` is refused. `disconnect()` has no caller in the application.

`MessageOrder` says that a message enters a line once, at its end, and that messages leave it only from the
front. The refinement maps the line to the messages on the socket in use followed by the outbox (`Line`), and
what entered to `issued`; a socket that is left behind takes its messages out of line. So a message
may be lost, but it is never sent twice and never goes ahead of an earlier one.

`ClientLink` has one link that opens and closes instead of sockets, timers and a button, and `ClientNet`
the operators it is made of. The refinement maps the state of the link to `IsOpen`, the gate, the outbox and the
queues of the socket in use (`Net`, `Replies`). It holds until the button is pressed in a hurry: a client with two
sockets that connect is not one link.

### WorldTransfer

One session that is logged in, its receive task, and `close_session` in any other task.
A leg is a `LegacySocket` with its connection and the server at its end: `sock` and `link`
are those of SessionManager, `in[l]` the lines under way, `_pending` included, `heard` and
`hold` what the server has to answer and whether it has the character. `step` is where
the receive task is suspended:

| `step` | suspended in |
|---|---|
| `reading` | `_recv_loop`, `read_line` of `st.socket` |
| `connecting` | `dst.connect` |
| `reserving`, `transferring` | `_wait_for_line` of `dst`, of the old socket |
| `leaving` | `dst.close()` of a failed handshake |
| `swapping` | `old_sock.close()`, `st.socket` is `dst` already |
| `ended` | the task is done |

`cancel` is a cancellation requested by `close_session` and not yet delivered. Where it is
delivered decides what becomes of it: `connect` lets it through and the task ends, while
`read_line` and `close` swallow it and the handshake goes on, failing at its next send. The
limit of 300 s is the same cancellation seen from `wait_for`, so `RsvBroken` and `TrsBroken`
stand for both. After `TrsBroken` the session's own socket counts as closed although its
server talks on. The session then ends, which `AtHome` and `LegsClosed` show to be without
harm to the character's whereabouts. SessionManager does not have this loss: its `LossReported`
covers the end that follows, but an open that comes after it may find the link still up.

The servers are external and taken at their word: a server lets the character go when it
says `trs-ok`, drops a reservation with its connection, and takes the character at
`#ch-srv-ok`. Left out: `#no-srv` and `#ch-srv-no`, on which nothing here depends, and the
events of other lines.

### Controller

One action is a JavaScript callback together with the continuations of the promises it
settles, so one of its steps may be several of the client. `net` is WsClient as the controller sees it, changed
by the operators of `ClientNet` only, `down` what the gateway has sent, `waits` the
pending promises of `session.open`, each tagged with who awaits it (`reattach`, `select`, or one of
`Clicks`, since the reconnect button of a tab may be clicked again while its request waits)
and for which tab; a message whose promise was rejected gets the tag `nobody` and still
arrives. `first` is `hadFirstOpen`, `loop` and `todo` are `reattaching` and the rest of its list.
`tabs`, `active`, `activeTab`, `errors`, `urgent`, `conn`, `store` are the stores. The gateway is
external here: it keeps a session per character, answers, sends a snapshot, and loses
sessions.

| model | code |
|---|---|
| `SocketOpens`, `SocketCloses`, `RequestTimesOut` | `onOpen` with `reattach`, `onClose` and the rejection of what is pending |
| `Login`, `LoginEnds`, `Logout`, `LoggedOut` | `login`, `logout` around their REST calls, App's flag |
| `Select`, `ReopenSession`, `CloseSession`, `SelectTab` | `openSession`, `reopenSession` up to their requests; `closeSession`; TabBar |
| `ReceiveOpened`, `ReceiveRefused` | what follows the `await` in each of them |
| `ReceiveAuth`, `ReceiveSnapshot`, `ReceiveEvent`, `ReceiveConnection`, `ReceiveError` | the handlers of `wire()` and `applySnapshot` |

`crossed` is a history variable: a logout came while a request was pending, or a socket opened without a
token over tabs of a former login. What then happens is the subject of `CT_leak`; the properties of tabs are
stated without it (`~crossed`). The second case is the first over again: a character is selected while the REST call
of a logout runs, the tab stays, the connection is lost, and the next login finds a tab that nobody reattaches.

### Protocol and Keys

`Protocol` has one set of records per message; the screens send and
receive members of these sets, which their type invariants check. `Keys` has the tables of both layouts, `resolveKey`
and `describeKeys`, as functions of a key event and a context.

### GameScreen, ChatBox, SettingsSync, AccountScreens, MapPicture

* `GameScreen` follows the focus over fields that come and go, the listener on `document`, the dialogs
  with the session of their closures, and what the game asks in each tab. `out` is what the last
  event sent; the next event waits until the socket has taken it, since one event may send several
  messages.
* `ChatBox` has the compose form and its history, the dialog with its closure, the serializer's lines, and
  the log with its duplicates, unread counts and notifications.
* `SettingsSync` has the two channels of the settings as queues. `lost` and `refused` name the
  scopes for which the code promises nothing: a message about them was lost with the connection, or the
  last change was refused with a banner.
* `AccountScreens` has a set of REST calls under way: each is sent, served at one moment and answered at a
  later one, in any order, to a component that may have been unmounted. So may the one whose question is being
  answered: `asks` says that the dialog of a removal was opened by the page shown; otherwise nobody waits for the answer. A list is abstracted to the number
  of the changes that made it.
* `MapPicture` records, recalls, loads images and draws: a picture is the set of copies from a
  rectangle of an image to one of the canvas, in pixels. `tiles` is empty until the record of the world is
  first used after a load of the page, then it holds that one record.
* `MCFrontend` puts the five beside each other for one run. They share no variable, so `part`
  selects the one that moves while the others rest in an initial state; interleaving
  them would multiply states and show nothing new. The record of the map and its images are two
  such parts.

## 4. Runs

| run | instance | shows |
|---|---|---|
| `SM_faults` | 2 characters, 2 session ids, 2 overlapping WebSockets, all faults, fair | registry, timers, holders, links, shutdown; the lease with its expiry; detached sessions end; losses are reported |
| `SM_serial` | 2 characters, 3 ids, 3 WebSockets one after the other, no resets | no double login while nothing was lost; what browsers were told is true; claimed sessions are not reaped; only timers cut |
| `SM_onelink` | the same | violation: two logins of one character after a lost link (session.py:558) |
| `SM_reaped` | 2 overlapping WebSockets, no faults | violation: the late end of an old WebSocket reaps a re-attached session (ws_server.py:113) |
| `SM_bye` | no faults | violation: no `#x` at the detach timeout (session.py:552) |
| `WC_fair` | 3 sockets, a request and a plain message, a good and a stale token, fair | auth gate, the order of messages (`MessageOrder`), requests, reconnection, the gate opens |
| `WC_token` | the same | violation: a login behind an unanswered or refused auth is not announced (client.ts:128) |
| `WT_faults` | 3 servers, 2 lines under way each, all faults, fair | one login at most, no leg or reservation left, the session usable where it is, every start reported |
| `WT_home` | the same | violation: a session closed between `#ch-srv-ok` and the login leaves the old server in the database (session.py:467) |
| `CT_reattach` | 1 character, 2 sessions of it, 2 lost connections, 3 operations, 2 clicks that may wait together, 1 event of the game | the character of the tabs is not forgotten, a tab that is fed shows the game, what is shown is a tab, `reattach()` is never stuck |
| `CT_leak` | the same | violation: an answer after a logout brings back a tab of the former account (controller.ts:435) |
| `FE_screens` | 2 sessions, a few texts and settings, 4 REST acts, 1 fault, 3 maps of 3 by 3 cells | each screen on its own: keys and help, answers and focus, confirmation, settings, lists, registration, recorded map, picture |

Why the bounds are enough. A session id is used once, so ids bound the number of
connects; two suffice for every relation between an old and a new session of a character,
three for "stale, current, next". Two WebSockets give the hand-over of a session, three a
sequence of them. Two characters separate the index from the registry. In the client three
sockets give "replaced, current, next"; four were run once without finding more in the
checked properties, at twenty times the states. Three servers allow two
transfers in a row, either of which may fail; two lines under way let a late answer, or a second
`#ch-srv`, wait behind another line. One character is enough for the controller, since no screen offers a second one beside an
open tab: two tabs come from a session that the gateway lost and the one that followed. The first
connection is not counted, so two lost ones give a re-attachment, one that is cut off, and one after it; three
operations let a tab be opened, reopened and reopened once more before the answer (the clicks are alike, hence the
symmetry). Of the
kinds of state three are kept, one for each way in which a snapshot and an event are
applied. Of the screens, two sessions separate the tab shown from the one that asked; two
texts, two layouts, two
servers, two users separate right from wrong; three maps let a place be seen, change and be
seen from elsewhere. The map has 3 by 3 cells and a ring of 1, where the program has
7 by 7 and 4: the arithmetic is that of `Side` and `Ring`. Its world has water at an edge and in the
middle, a tree, a board and an item, so that every rule of drawing is used. `MapPicture` assumes what the game does: it names the world
before its first map and a condition before the map it changes.

`Sids`, `Conns`, `Socks`, `Msgs`, `Legs`, `Clicks`, `MaxLines`, and the `Max...` constants with
`HistoryMax`, `Capacity` (50 and 1000 in the program) are the only bounds; when they are used up the system stops, so deadlock is not
checked.

Fairness. Ready tasks and callbacks run (asyncio and the browser's event loop), a connect
ends within its 10 s and a handshake within its 300 s, timers fire, the gateway answers in order. Nothing is assumed of
users, of the legacy server, or of who starts a shutdown. In the client
the number of socket failures is bounded by `Socks`; the last connect is fair. `Controller` and the screens state safety only and assume no fairness:
their timers and sockets are those of `WsClient`, where liveness is checked.

## 5. Proofs

Every invariant that a run checks is proved, as are the action properties
`CutOnlyByTimer`, `NotReapedWhileClaimed`, `LoudConfirmed`, `TypingIsNotPlaying` and `AnswersAreAsked`, and the
refinements: of `SessionLease` (its safety), of `MessageOrder` (`KeepsOrder`, all of it) and of `ClientLink`.
The constants are any sets and any bounds; what is assumed of them stands in the modules as named
assumptions, which TLC evaluates in the runs.
But for the types, hardly any is inductive as it stands; the paragraphs say what has to be known on top.

### The gateway

`SessionManagerProofs` proves, for any sets of characters, ids and connections, any
faults, with and without overlap: `TypeOK`, `IndexSound`, `TimerIffDetached`,
`LinkOwned`, `NoDeadHolder`, `ShutdownClean`, `CutOnlyByTimer`, and that
every step of the gateway is a step of the lease or leaves it unchanged (`Lease!Spec`; the
lease's fairness stays with TLC). Assumptions: `ConstantsAssumption` only (`Null` is none of
the other values, the faults are the known ones). `IInv` conjoins

* `RegistryInv`: registered ids are issued, and the index names registered sessions of its
  character (the fact that makes the pop by key harmless for the index itself);
* `TimerIffDetached` itself: timers of registered sessions follow `onEvent`, forgotten ones
  are disarmed;
* `OpeningInv`: a session whose connect is awaited is registered, attached, without
  socket and tasks, and worked on by one handler only: nobody can close it meanwhile;
* `LinkInv`, `HolderInv`, `ShutdownInv`: what sockets, holders and the sweep need on top.

Each is shown inductive given the earlier ones, action by action.

Three properties are those of run `SM_serial`, and their theorems have its hypotheses: browsers do not
overlap (`~Overlap`: a browser comes back after its old WebSocket has ended), without which sessions are
reaped while they are held (run `SM_reaped`), and for the last one a legacy server that resets nothing, since
a reset may first show in a send, of which no event tells.

* `NotReapedWhileClaimed`: `ClaimInv`, one WebSocket lives, and it holds whatever it has opened
  and not closed.
* `OneLinkWhileNoneLost`: `StageInv`, a registered session still waits for its connect or has had its link, and a
  timer sleeps only for one that was opened; `IndexedInv`, until the shutdown sweep the index names every link and
  the session whose connect is under way, so that a second open finds it.
* `ConnectedIsTrue`: `ToldInv`, a session last told connected is registered, sends its events to the WebSocket that was
  told, and is read, unless that WebSocket is just closing it.

`WorldTransferProofs` proves `TypeOK`, `OneWorld`, `LegsClosed`, `ReservationsUsed` and `AtHome` for any
set of servers, any faults and any bound on the lines. `OneWorld` is not inductive: a late
`trs-ok` in a queue could be taken for the answer to a later `#trans`. `HoldInv` says that the
only server with the character is the session's, that it has no `trs-ok` under way, and that
the new server was never asked to let go. `NewInv` makes a fresh leg fresh,
`ReserveInv` ties a reservation to the running handshake and a standing link, and `LegInv` says that a
closed session's handshake is cancelled before it can reach `trs-ok`, so that it takes no
new socket. For `AtHome`, `WireInv` says that an open socket has a connection unless its server ended it,
and `HomeInv` that, while no server has ended one, the server that the session reads has the character, or has let
it go with the one `trs-ok` that waits to be read: so no verdict is left over that a later transfer could take
for its own. Queues enter only through lemmas on what appending, taking and
forgetting lines can bring in.

### The client and its controller

`WsClientProofs` proves `TypeOK`, `AuthFirst`, `PendingIsAnswerable`, `KeepsOrder` and `ImplementsLink`, for any
sets of sockets, messages and tokens. `SocketInv` says
that `this.ws` is never a closed socket, that the timer is armed only without a socket, and that the
reconnect button is not offered over an open one; `GateInv` that behind a shut gate an
auth message waits in the outbox or was announced on the open socket, and that over an open
socket with an open gate the outbox is empty (`NothingOvertakes`), so that a message sent at once passes no other.
The lemmas on `HasAuth` say how an announcement survives appending and taking messages.
`PendingIsAnswerable` follows a request from the outbox to the socket and its answer back (`Waits`); it needs that only an
open socket has anything under way (`QueuesInv`), and that a client that did not hurry has one socket at most that is
or may become open (`AloneInv`): without it the outbox can be flushed onto a socket that is not the one in use.

* `KeepsOrder` holds however the button is pressed. A step appends to the line, takes from its front, moves the outbox
  onto the wire, which leaves the line as it is, or drops the wire, or drops the outbox when nothing is on the wire. `OfConcat` and its companions say what each of
  these does to the messages of a queue and to their order; `OnceInv`, no message has two places in the line and each one in it
  was issued, makes a message that leaves from the front leave the line.
* `LinkIsImplemented`: each step of the client is one of the link or changes nothing of it, until the button is pressed
  in a hurry. On top of `AloneInv` and `QueuesInv` it needs `QuietInv`: the gate is shut only on an open socket,
  so that a new connection finds it open. No run checks this property; TLC was used on it while it was being proved.

`ControllerProofs` proves all the invariants of `CT_reattach` for any characters, kinds of state, sessions, losses and
operations.

* `LoopWaits`: `LoopInv` adds that `reattach()` has one request pending at most and that
  it is for a tab: so the promise that is settled is the one the loop waits for, whichever way
  it is settled. `ShownTabExists` needs that replacing a tab by the reopened one keeps every
  other, the one just added too (`AddedType`).
* `NoTabForgotten`: `GoodInv`, an answer is about the character that it was asked for; `AnnounceInv`, a session
  that an answer or event calls connected is attached, or its end is said later in the same queue; `FirstInv`, there is
  nothing to reattach before the first socket; `CoverInv`, some tab is fed, or its end is
  known or on its way, or a banner names a session of its character, or the loop or one of its promises will ask for it.
* `TabsShowTheGame`: `TagsInv`, each promise has one message under way at most, so that no answer
  settles another; `NewsInv`, nothing is known of what the game has not sent; `FeedInv`, what a fed tab will show
  once it has taken all that is under way (`Latest`) is the state of the game. The lemmas on `Latest` say what appending and
  taking one message does to it.

### The screens

These are about any sets of sessions, texts, scopes, servers and images and any bounds:

* `GameScreenProofs`: `AnswersAreAsked` and `TypingIsNotPlaying`. `FocusInv`: the edit dialog has the
  focus only while the tab shown edits, so that what is typed in it goes nowhere else. `HelpIsTrue`: no two
  tables of a layout share a key (`KeysApart`), hence each row of the help does what it says (`RowsAreTrue`) and each
  key that does something has one (`KeysAreTold`), for any settings and any key; `KeysAssumption` says that
  a slot is not the mark of a word left out. Of the chat, `LoudConfirmed`: nothing is shouted
  unconfirmed. `ComposeInv`: the dialog holds only what has to be confirmed.
* `GameScreenProofs`, of the settings: `SettingsConverge`. `SyncInv`: the newest good answer on its way
  for a scope is what is stored (`AnswersAreNews`), and a scope with nothing on its way is the same on both
  sides (`ScopesSettle`); while something is on its way nothing more has to be known, since the channel keeps the order.
* `AccountScreensProofs`: `RegistersWhereLoaded`. `RegisterInv`: one registration waits at
  most, the form is busy meanwhile, and while graphics are loading the target is
  unknown, so that no answer can belong to another load than the one shown. `ListsSettle`: the list of a page is the newest
  there is, or a call that counts for the page will bring it (`Brings`): a load not served yet or served what
  is there now, or a change that was served, whose answer starts such a load (`LoadInv`); no answer is newer than
  the list itself (`ListCallsInv`).
* `MapPictureProofs`: `RecallIsTrue`. `RecordInv`: the record in memory is what was seen but for
  what was lost with a page, and the disk is the record but for what no save has reached (`Agree`). `SightIsRevealed` has the
  arithmetic: the cells of a map, line by line, are the places around where the character stands, for any odd `Side`.
  `PictureIsSound`: what is drawn are cells of maps that came, whole squares (`LiveInv`, `CellsInv`), so each copy lies
  in its image (`ChipsDrawn`, `ShoresDrawn`, `ItemsDrawn`, `CharasDrawn`); two waters that touch see the same
  three cells in the corner between them (`ShoresMeet`); and each image that the map wants is in the cache or in the batch
  that is not cancelled (`ImagesInv`). `WorldAssumption` says that a place around where one can stand has a cell, which is
  not the sign for one out of sight; `ScenesAssumption` that the characters of a map are characters of the protocol.

`FrontendProofs` puts the parts together: `FrontendTypeOK` of the composition, from an invariant of each part and
the fact that a step of one is a stutter of the others (`FrontendStep`). What the parts prove for it:

* `GameTypes`: each intent that a key, button or dialog makes is one of the protocol's messages once it has its session
  (`KeysAreSendable`, `MovesAreSendable`, `AnswersAreSendable`): no table has an unknown command, no list item is
  without a number. `GameAssumption` and `TextsAssumption` say that the words in the settings and the tables are texts.
* `ChatTypes`: the history and the log keep their limits through every kind of entry (`AddTyped`, `DoSendTyped`).
* `SettingsTypes` needs `SyncInv` and that every message in the channels is lawful (`SettingsTyped`): a whole value of its
  scope from the gateway, a change of a known field from the browser.
* `AccountTypes`: what an answer may bring (`Answered`) is fixed when it is served and stays with the call. A new call finds
  an identity that no other has, since the calls under way are finitely many (`NumberIsFree`, by the pigeonhole principle).
* `MapTypes`: whatever scene comes, the map is a map of the protocol (`MapArrivesTyped`), and asking again for images
  never asks for one that is there.

### Only model-checked

* All liveness (`ImplementsLease`'s fairness, `DetachedResolved`, `LossReported`, `Reconnects`, `GateOpens`,
  `StartReported`): it rests on fairness and ENABLED, which the prover does not have.

## 6. Not modelled

* ProtocolParser, LineBuffer, CodeConverter: formats of single lines and character tables, sequential; the
  events they make are inputs of the models.
* The intents but for chat: a line each. A send that fails in the middle of a broadcast or of a list is
  listed as a hazard only.
* Token buckets: floating-point arithmetic over real time. The connection limit
  counts per account.
* Store, accounts, characters, assets, registration in the gateway: transactions and files behind the
  REST calls. `AccountScreens` has them as the browser meets them, including calls that fail after they were
  carried out; their crash hazards are listed without a property.
* Hashes and ciphers, graphics conversion, screenshots, log export, colour markup,
  layout and wording.

`PROJECT.json` gives the reason for every component.

## 7. Noticed while modelling

What the code does, seen while translating it, and left as it is in the models; where a property is
weaker than one would wish, this is why.

* A snapshot does not tell a list or an edit that has ended from one that it does not mention, so after
  a reconnect an ended one stays on the screen (`applySnapshot.ts:36`; the exception in `TabsShowTheGame`).
* `reattach()` returns when it is called while it waits (`controller.ts:284`). With tabs of several characters,
  a connection that is lost while it waits for the last of them would leave those before it unfed and unmarked; no screen
  offers a second character beside an open tab, and `NoTabForgotten` is stated for tabs of one. Also, a tab
  that is reopened or replaced while `reattach()` waits may leave a banner for a session that is no longer a
  tab: so `NoTabForgotten` asks for a tab that is fed or closed, or a banner for a session of its character,
  not for one that each tab has of its own. (An attempt to prove the stronger form found both.)
* A second click on the reconnect button of a tab sends a second `session.open` (`CommandBar.tsx:59`); both answers
  are taken, and the properties hold with them.
* `reattach()` makes each tab it reopens the active one (`controller.ts:441`), while the tab shown stays; a
  session that was lost gets a new tab beside the old one.
* `login()` sets the banner to connecting, and nothing sets it back while the socket stays open
  (`controller.ts:341`).
* An auth that is refused leaves App on the screens of an account (`App.tsx:129`).
* A slow logout removes the token once more when it ends, also one of a later login (`api/auth.ts:166`).
* Reloads of a list that are answered out of order leave the older list on the screen
  (`CharacterSelect.tsx:41`; `ListsSettle` says only that the newest was given).
* An echo of an older change overwrites a newer local one until its own echo comes
  (`controller.ts:231`); a scope edited before its first answer is saved with the defaults for its
  other fields.
* A draft of the edit dialog and a spell stay when another tab is shown; what is sent still goes to a tab
  that asked (`AnswersAreAsked`).
* A second window of the browser overwrites the recorded map with its own (`automapStore.ts:29`).
