--------------------------- MODULE SessionManager ---------------------------
(***************************************************************************)
(* The gateway's SessionManager (backend/app/session.py) with the part of  *)
(* LegacySocket and of WsConnection (ws_server.py) it lives with: opening  *)
(* a character session, re-attaching to it, closing it, detaching it when  *)
(* its browser goes, the detach timer, the receive loop and its ends, and  *)
(* the shutdown sweep.                                                     *)
(*                                                                         *)
(* All tasks run in one asyncio event loop, so an action is the code from  *)
(* one suspension to the next.  What suspends: the TCP connect, the read,  *)
(* the wait for a closed writer and its cancelled tasks, the detach sleep  *)
(* and the receipt of a WebSocket message.  StreamWriter.drain does not    *)
(* suspend for the short lines sent here, so a send is part of its step.   *)
(***************************************************************************)
CONSTANTS
    Chars,    \* characters: the keys of _by_char
    Sids,     \* the session ids uuid4 may issue; their number bounds a run
    Conns,    \* WsConnection objects, one per WebSocket accepted
    Null,     \* no session, no connection
    Faults,   \* what the network and the legacy server may do, see below
    Overlap   \* may a WebSocket be accepted while an earlier one still lives

(* refuse: a connect fails.  eof: the server ends a connection, the reader *)
(* sees the end of the stream.  reset: the server ends it so that a send   *)
(* fails before the reader has seen anything.                              *)
ASSUME ConstantsAssumption ==
    /\ Null \notin Chars \cup Sids \cup Conns
    /\ Faults \subseteq {"refuse", "eof", "reset"}
    /\ Overlap \in BOOLEAN

VARIABLES
    sessions,   \* the keys of _sessions
    byChar,     \* _by_char, Null where the index has no entry
    key,        \* key[s]: st.key, Null while s has not been issued
    sock,       \* sock[s]: the LegacySocket object of s
    link,       \* link[s]: the TCP connection of s as the legacy server sees it
    recv,       \* recv[s]: the _recv_task of s
    onEvent,    \* onEvent[s]: the connection whose _enqueue is st.on_event
    timer,      \* timer[s]: st._detach_task sleeps
    ws,         \* ws[w]: where the receiver loop of WsConnection w is
    cur,        \* cur[w]: the session an unfinished handler of w works on
    mine,       \* mine[w]: WsConnection._sessions
    told,       \* told[w][s]: last connection state of s put in the queue of w
    down,       \* where shutdown() is
    todo,       \* the sessions shutdown() has still to close
    sweep       \* the session shutdown() is closing

vars == <<sessions, byChar, key, sock, link, recv, onEvent, timer, ws, cur,
          mine, told, down, todo, sweep>>
registry == <<sessions, byChar, key>>
transport == <<sock, link, recv>>
browser == <<ws, cur, mine>>
sweeping == <<down, todo, sweep>>

TypeOK ==
    /\ sessions \in SUBSET Sids
    /\ byChar \in [Chars -> Sids \cup {Null}]
    /\ key \in [Sids -> Chars \cup {Null}]
    /\ sock \in [Sids -> {"new", "open", "eof", "closed"}]
    /\ link \in [Sids -> {"none", "up", "down", "left", "cut"}]
    /\ recv \in [Sids -> {"none", "running", "cancelled", "done"}]
    /\ onEvent \in [Sids -> Conns \cup {Null}]
    /\ timer \in [Sids -> BOOLEAN]
    /\ ws \in [Conns -> {"new", "idle", "connecting", "closing", "ended"}]
    /\ cur \in [Conns -> Sids \cup {Null}]
    /\ mine \in [Conns -> SUBSET Sids]
    /\ told \in [Conns -> [Sids -> {"none", "connected", "detached", "closed"}]]
    /\ down \in {"no", "sweeping", "done"}
    /\ todo \in SUBSET Sids
    /\ sweep \in Sids \cup {Null}
    /\ \A w \in Conns : ws[w] \in {"connecting", "closing"} => cur[w] \in Sids

Init ==
    /\ sessions = {}
    /\ byChar = [c \in Chars |-> Null]
    /\ key = [s \in Sids |-> Null]
    /\ sock = [s \in Sids |-> "new"]
    /\ link = [s \in Sids |-> "none"]
    /\ recv = [s \in Sids |-> "none"]
    /\ onEvent = [s \in Sids |-> Null]
    /\ timer = [s \in Sids |-> FALSE]
    /\ ws = [w \in Conns |-> "new"]
    /\ cur = [w \in Conns |-> Null]
    /\ mine = [w \in Conns |-> {}]
    /\ told = [w \in Conns |-> [s \in Sids |-> "none"]]
    /\ down = "no"
    /\ todo = {}
    /\ sweep = Null
-----------------------------------------------------------------------------
Live == {w \in Conns : ws[w] \notin {"new", "ended"}}

(* LegacySocket.connected: there is a writer and _closed is not set.  The  *)
(* property does not know whether the peer is still there.                 *)
Connected(s) == sock[s] = "open"

(* open_session finds a session of the character to re-attach to. *)
Standing_Parked(c) ==
    byChar[c] # Null /\ Connected(byChar[c]) /\ onEvent[byChar[c]] = Null
Standing(c) == byChar[c] # Null /\ Connected(byChar[c])

(* A writer exists, so a send does not raise "not connected". *)
HasWriter(s) == sock[s] \in {"open", "eof"}

(* _emit of a connection event: dropped when on_event is None, and lost in *)
(* the queue of a connection whose run() has ended.                        *)
Emit(s, state) ==
    told' = IF onEvent[s] \in Live
              THEN [told EXCEPT ![onEvent[s]][s] = state]
              ELSE told

Disarm_Forgotten(s) == timer' = timer
Disarm(s) == timer' = [timer EXCEPT ![s] = FALSE]

(* The index entry of a character is removed by its key alone, whichever   *)
(* session the entry names by then.                                        *)
Unindex_Kept(s) == byChar' = byChar
Unindex(s) == byChar' = [byChar EXCEPT ![key[s]] = Null]

(* The end of a TCP connection that the gateway closes: after #x the       *)
(* legacy server knows the character left, without it it does not.         *)
Hangup_Leaked(s, farewell) == link' = link
Hangup(s, farewell) ==
    link' = [link EXCEPT ![s] =
                IF @ = "up" THEN (IF farewell THEN "left" ELSE "cut") ELSE @]

(* close_session gathers the tasks it has cancelled. *)
Gathered_Unawaited(s) == TRUE
Gathered(s) == recv[s] # "cancelled"

CancelRecv(s) ==
    recv' = [recv EXCEPT ![s] = IF @ = "running" THEN "cancelled" ELSE @]

(* _open_and_respond: WsConnection._sessions gains the session. *)
Joins_First(w, s) == mine' = [mine EXCEPT ![w] = IF @ = {} THEN {s} ELSE @]
Joins(w, s) == mine' = [mine EXCEPT ![w] = @ \cup {s}]

(* close_session up to its first suspension: both dictionaries forget s,   *)
(* its tasks are cancelled, the socket is closed.                          *)
CloseSession(s, farewell) ==
    /\ sessions' = sessions \ {s}
    /\ Unindex(s)
    /\ Disarm(s)
    /\ CancelRecv(s)
    /\ sock' = [sock EXCEPT ![s] = "closed"]
    /\ Hangup(s, farewell)
    /\ UNCHANGED <<key, onEvent>>
-----------------------------------------------------------------------------
(* WsConnection.run: a WebSocket is accepted, the receiver loop waits. *)
WsAccept(w) ==
    /\ ws[w] = "new"
    /\ down = "no"
    /\ Overlap \/ Live = {}
    /\ ws' = [ws EXCEPT ![w] = "idle"]
    /\ UNCHANGED <<registry, transport, onEvent, timer, cur, mine, told, sweeping>>

(* session.open of a character whose session stands: re-attach. *)
OpenReattach(w, c) ==
    LET s == byChar[c] IN
    /\ ws[w] = "idle"
    /\ Standing(c)
    /\ Disarm(s)
    /\ onEvent' = [onEvent EXCEPT ![s] = w]
    /\ told' = [told EXCEPT ![w][s] = "connected"]
    /\ Joins(w, s)
    /\ UNCHANGED <<registry, transport, ws, cur, sweeping>>

(* uuid4 gives an id that was never used.  Ids carry no meaning, so the    *)
(* model issues them in one fixed order.                                   *)
Issued_Reused(s) == s \notin sessions /\ s = CHOOSE i \in Sids : i \notin sessions
Issued(s) == key[s] = Null /\ s = CHOOSE i \in Sids : key[i] = Null

(* session.open of any other character: a fresh session is registered and  *)
(* indexed before the connect is awaited.                                  *)
OpenNew(w, c, s) ==
    /\ ws[w] = "idle"
    /\ ~Standing(c)
    /\ Issued(s)
    /\ key' = [key EXCEPT ![s] = c]
    /\ sessions' = sessions \cup {s}
    /\ byChar' = [byChar EXCEPT ![c] = s]
    /\ onEvent' = [onEvent EXCEPT ![s] = w]
    /\ ws' = [ws EXCEPT ![w] = "connecting"]
    /\ cur' = [cur EXCEPT ![w] = s]
    /\ UNCHANGED <<transport, timer, mine, told, sweeping>>

(* The connect returns and the login lines go out: connected is emitted,   *)
(* the tasks start, the session joins WsConnection._sessions.              *)
OpenConnected(w) ==
    LET s == cur[w] IN
    /\ ws[w] = "connecting"
    /\ sock' = [sock EXCEPT ![s] = "open"]
    /\ link' = [link EXCEPT ![s] = "up"]
    /\ recv' = [recv EXCEPT ![s] = "running"]
    /\ Emit(s, "connected")
    /\ Joins(w, s)
    /\ ws' = [ws EXCEPT ![w] = "idle"]
    /\ cur' = [cur EXCEPT ![w] = Null]
    /\ UNCHANGED <<registry, onEvent, timer, sweeping>>

(* The connect fails (OSError, 10 s timeout): the client gets an error and *)
(* the registered session stays where it is.                               *)
OpenRefused(w) ==
    /\ ws[w] = "connecting"
    /\ "refuse" \in Faults
    /\ ws' = [ws EXCEPT ![w] = "idle"]
    /\ cur' = [cur EXCEPT ![w] = Null]
    /\ UNCHANGED <<registry, transport, onEvent, timer, mine, told, sweeping>>

(* The connect succeeds and a login line fails (ConnectionError is an      *)
(* OSError): the writer is set, no task was started.                       *)
OpenLoginFails(w) ==
    /\ ws[w] = "connecting"
    /\ "reset" \in Faults
    /\ sock' = [sock EXCEPT ![cur[w]] = "open"]
    /\ link' = [link EXCEPT ![cur[w]] = "down"]
    /\ ws' = [ws EXCEPT ![w] = "idle"]
    /\ cur' = [cur EXCEPT ![w] = Null]
    /\ UNCHANGED <<registry, recv, onEvent, timer, mine, told, sweeping>>

(* session.close of a session whose id some browser was told, on this      *)
(* WebSocket or an earlier one: the gateway does not ask.  #x goes out,    *)
(* then close_session runs to its first suspension.  Where the send raises *)
(* (no writer, or the peer has reset), nothing changes: no action.         *)
CloseRequest_Lost(w, s) ==
    /\ ws[w] = "idle"
    /\ recv[s] # "none"
    /\ s \in sessions /\ HasWriter(s)
    /\ CloseSession(s, TRUE)
    /\ ws' = [ws EXCEPT ![w] = "closing"]
    /\ UNCHANGED <<cur, mine, told, sweeping>>
CloseRequest(w, s) ==
    /\ ws[w] = "idle"
    /\ recv[s] # "none"
    /\ s \in sessions /\ HasWriter(s)
    /\ CloseSession(s, TRUE)
    /\ ws' = [ws EXCEPT ![w] = "closing"]
    /\ cur' = [cur EXCEPT ![w] = s]
    /\ UNCHANGED <<mine, told, sweeping>>

(* The writer is closed and the cancelled tasks are gathered. *)
CloseEnd(w) ==
    /\ ws[w] = "closing"
    /\ Gathered(cur[w])
    /\ mine' = [mine EXCEPT ![w] = @ \ {cur[w]}]
    /\ ws' = [ws EXCEPT ![w] = "idle"]
    /\ cur' = [cur EXCEPT ![w] = Null]
    /\ UNCHANGED <<registry, transport, onEvent, timer, told, sweeping>>

(* The sessions that run()'s finally detaches when w ends: those it opened *)
(* or took over, whoever holds them now.                                   *)
Detached(w) == mine[w] \cap sessions

(* The WebSocket is gone and the receiver loop ends: run()'s finally       *)
(* detaches every session of w.  detached is emitted to whoever holds the  *)
(* session before on_event becomes None; w's own sender is stopped by then.*)
WsEnd(w) ==
    /\ ws[w] = "idle"
    /\ LET D == Detached(w) IN
       /\ onEvent' = [s \in Sids |-> IF s \in D THEN Null ELSE onEvent[s]]
       /\ timer' = [s \in Sids |-> IF s \in D THEN TRUE ELSE timer[s]]
       /\ told' = [v \in Conns |-> [s \in Sids |->
             IF v = w THEN "none"
             ELSE IF s \in D /\ onEvent[s] = v THEN "detached"
             ELSE told[v][s]]]
    /\ mine' = [mine EXCEPT ![w] = {}]
    /\ ws' = [ws EXCEPT ![w] = "ended"]
    /\ UNCHANGED <<registry, transport, cur, sweeping>>

(* _detach_timeout after 300 s: close_session, no #x. *)
TimerFire_IfConnected(s) ==
    /\ timer[s] /\ Connected(s)
    /\ CloseSession(s, FALSE)
    /\ UNCHANGED <<browser, told, sweeping>>
TimerFire(s) ==
    /\ timer[s]
    /\ CloseSession(s, FALSE)
    /\ UNCHANGED <<browser, told, sweeping>>
-----------------------------------------------------------------------------
(* The legacy server ends the connection; the gateway does not know yet. *)
PeerDrops(s) ==
    /\ Faults \cap {"eof", "reset"} # {}
    /\ link[s] = "up"
    /\ link' = [link EXCEPT ![s] = "down"]
    /\ UNCHANGED <<registry, sock, recv, onEvent, timer, browser, told, sweeping>>

(* A line #x or #close of the server: the parser reports closed, the loop  *)
(* reads on.                                                               *)
RecvBye(s) ==
    /\ recv[s] = "running"
    /\ link[s] = "up"
    /\ Emit(s, "closed")
    /\ UNCHANGED <<registry, transport, onEvent, timer, browser, sweeping>>

(* read_line finds the end of the stream: closed, the loop ends. *)
RecvEof(s) ==
    /\ recv[s] = "running"
    /\ link[s] = "down"
    /\ sock' = [sock EXCEPT ![s] = "eof"]
    /\ recv' = [recv EXCEPT ![s] = "done"]
    /\ Emit(s, "closed")
    /\ UNCHANGED <<registry, link, onEvent, timer, browser, sweeping>>

(* _guarded_send of an answer to #lag or #remap fails: closed, the loop    *)
(* ends, and _closed is not set.                                           *)
RecvAnswerFails_Silent(s) ==
    /\ recv[s] = "running"
    /\ link[s] = "down"
    /\ "reset" \in Faults
    /\ recv' = [recv EXCEPT ![s] = "done"]
    /\ UNCHANGED <<registry, sock, link, onEvent, timer, browser, told, sweeping>>
RecvAnswerFails(s) ==
    /\ recv[s] = "running"
    /\ link[s] = "down"
    /\ "reset" \in Faults
    /\ recv' = [recv EXCEPT ![s] = "done"]
    /\ Emit(s, "closed")
    /\ UNCHANGED <<registry, sock, link, onEvent, timer, browser, sweeping>>

(* The receive task that close_session cancelled runs a last time:         *)
(* read_line turns the cancellation into None, the loop emits closed.      *)
RecvCancelled(s) ==
    /\ recv[s] = "cancelled"
    /\ recv' = [recv EXCEPT ![s] = "done"]
    /\ Emit(s, "closed")
    /\ UNCHANGED <<registry, sock, link, onEvent, timer, browser, sweeping>>
-----------------------------------------------------------------------------
(* shutdown() takes the list of sessions once, and says #x where it can. *)
Snapshot_Connected == {s \in sessions : Connected(s)}
Snapshot == sessions
Farewell_Never(s) == FALSE
Farewell(s) == Connected(s)

(* shutdown() runs in the lifespan of the application, after the server    *)
(* has ended every WebSocket and accepts no more.                          *)
ShutdownBegin ==
    /\ down = "no"
    /\ Live = {}
    /\ down' = "sweeping"
    /\ todo' = Snapshot
    /\ UNCHANGED <<registry, transport, onEvent, timer, browser, told, sweep>>

(* The next session of the list taken at the start: #x if it is connected, *)
(* then close_session.                                                     *)
ShutdownClose(s) ==
    /\ down = "sweeping"
    /\ sweep = Null
    /\ s \in todo \cap sessions
    /\ todo' = todo \ {s}
    /\ sweep' = s
    /\ CloseSession(s, Farewell(s))
    /\ UNCHANGED <<browser, told, down>>

(* One that its detach timer has closed meanwhile is passed over. *)
ShutdownSkip(s) ==
    /\ down = "sweeping"
    /\ sweep = Null
    /\ s \in todo \ sessions
    /\ todo' = todo \ {s}
    /\ UNCHANGED <<registry, transport, onEvent, timer, browser, told, down, sweep>>

ShutdownNext ==
    /\ down = "sweeping"
    /\ IF sweep = Null THEN todo = {} ELSE Gathered(sweep)
    /\ sweep' = Null
    /\ down' = IF todo = {} THEN "done" ELSE "sweeping"
    /\ UNCHANGED <<registry, transport, onEvent, timer, browser, told, todo>>
-----------------------------------------------------------------------------
Finish(w) == OpenConnected(w) \/ OpenRefused(w) \/ OpenLoginFails(w) \/ CloseEnd(w)
RecvEnds(s) == RecvEof(s) \/ RecvAnswerFails(s)
ShutdownSweeps(s) == ShutdownClose(s) \/ ShutdownSkip(s)

WsStep(w) ==
    \/ WsAccept(w) \/ WsEnd(w)
    \/ \E c \in Chars : OpenReattach(w, c) \/ \E s \in Sids : OpenNew(w, c, s)
    \/ Finish(w)
    \/ \E s \in Sids : CloseRequest(w, s)

SessionStep(s) ==
    \/ TimerFire(s)
    \/ PeerDrops(s) \/ RecvBye(s) \/ RecvEnds(s) \/ RecvCancelled(s)
    \/ ShutdownSweeps(s)

Next ==
    \/ \E w \in Conns : WsStep(w)
    \/ \E s \in Sids : SessionStep(s)
    \/ ShutdownBegin \/ ShutdownNext

Spec == Init /\ [][Next]_vars

(* The event loop runs every task that is ready, a connect ends within its *)
(* 10 s, a detach timer fires.  Nothing is assumed of browsers, of the     *)
(* legacy server or of the operator who starts a shutdown.                 *)
Fairness ==
    /\ \A w \in Conns : WF_vars(Finish(w))
    /\ \A s \in Sids : /\ WF_vars(TimerFire(s))
                       /\ WF_vars(RecvEnds(s))
                       /\ WF_vars(RecvCancelled(s))
                       /\ WF_vars(ShutdownSweeps(s))
    /\ WF_vars(ShutdownNext)

FairSpec == Spec /\ Fairness
-----------------------------------------------------------------------------
(* The index never points at a session that close_session has forgotten,   *)
(* nor at one of another character: open_session may trust what it finds.  *)
IndexSound ==
    \A c \in Chars : byChar[c] # Null =>
        /\ byChar[c] \in sessions
        /\ key[byChar[c]] = c

(* A registered session has a sleeping detach timer exactly while no       *)
(* connection receives its events; a forgotten one has none.  Opening,     *)
(* re-attaching, detaching and closing all have to keep the two in step.   *)
TimerIffDetached ==
    /\ \A s \in sessions : timer[s] <=> onEvent[s] = Null
    /\ \A s \in Sids \ sessions : ~timer[s]

(* No TCP connection to the legacy server outlives its registration: every *)
(* open socket belongs to a session that close_session can still find.     *)
LinkOwned ==
    \A s \in Sids : HasWriter(s) \/ link[s] = "up" => s \in sessions

(* A session whose login went through is never left attached to a          *)
(* WebSocket that has ended: its holder lives and will detach it, or its   *)
(* timer is armed.                                                         *)
NoDeadHolder ==
    \A s \in sessions : recv[s] # "none" =>
        \/ onEvent[s] = Null
        \/ onEvent[s] \in Live /\ s \in mine[onEvent[s]]

(* After shutdown() nothing is registered and no connection to the legacy  *)
(* server is open, though detach timers and receive loops run meanwhile.   *)
ShutdownClean ==
    down = "done" => sessions = {} /\ \A s \in Sids : link[s] # "up"

(* The gateway as the lease of its sessions. *)
LifeOf(s) ==
    IF key[s] = Null THEN "unborn"
    ELSE IF s \notin sessions THEN "gone"
    ELSE IF recv[s] = "none" THEN "opening" ELSE "live"

Lease == INSTANCE SessionLease WITH
    life <- [s \in Sids |-> LifeOf(s)],
    holder <- onEvent,
    left <- {w \in Conns : ws[w] = "ended"}

(* SessionManager implements the session lease, its expiry included. *)
ImplementsLease == Lease!FairSpec

(* A detached session does not linger: it is taken again or forgotten. *)
DetachedResolved ==
    \A s \in Sids : (s \in sessions /\ timer[s]) ~> (s \notin sessions \/ ~timer[s])

(* A link that the legacy server ended is reported to the connection that  *)
(* holds the session, unless it lets go of the session first.              *)
LossReported ==
    \A s \in Sids, w \in Conns :
        (link[s] = "down" /\ recv[s] = "running" /\ onEvent[s] = w /\ w \in Live)
            ~> (told[w][s] = "closed" \/ onEvent[s] # w \/ w \notin Live)
-----------------------------------------------------------------------------
(* Two legacy connections of one character: the double login that the      *)
(* index by character is there to prevent.                                 *)
OneLink ==
    \A s, t \in Sids :
        link[s] = "up" /\ link[t] = "up" /\ key[s] = key[t] => s = t

(* As long as no link was ever lost, browsers that do not overlap open one *)
(* link per character.                                                     *)
OneLinkWhileNoneLost == (\A s \in Sids : link[s] # "down") => OneLink

(* What a browser was told last is true: a session it believes connected   *)
(* is registered, sends its events to this browser and is being read.      *)
ConnectedIsTrue ==
    \A w \in Conns, s \in Sids :
        w \in Live /\ told[w][s] = "connected" /\ ws[w] # "closing" =>
            s \in sessions /\ onEvent[s] = w /\ recv[s] = "running"

(* The timer never closes a session that a living connection opened or     *)
(* re-attached and has not closed.                                         *)
NotReapedWhileClaimed ==
    [][\A s \in Sids : TimerFire(s) => \A w \in Live : s \notin mine[w]]_vars

(* The only close without #x is the timer's: a character online is logged  *)
(* out by every other end of its session.                                  *)
CutOnlyByTimer ==
    [][\A s \in Sids : link[s] = "up" /\ link'[s] = "cut" => TimerFire(s)]_vars

(* docs/02 3.4: at the detach timeout #x is sent, then the session ends.   *)
TimeoutSaysBye == \A s \in Sids : link[s] # "cut"
=============================================================================
