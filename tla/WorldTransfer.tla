---------------------------- MODULE WorldTransfer ----------------------------
(***************************************************************************)
(* The world transfer of a character session (backend/app/session.py):     *)
(* the legacy server asks with #ch-srv, the receive loop connects to the   *)
(* new server, reserves the character there, asks the old server to let    *)
(* it go, and moves the session over.  One session, its receive task, and  *)
(* close_session in any of its callers.                                    *)
(*                                                                         *)
(* A leg is a LegacySocket with its connection and the server at its end.  *)
(* An action is the code of the receive task between two suspensions: it   *)
(* waits in read_line, in connect, or for a writer to close.               *)
(***************************************************************************)
EXTENDS Sequences, Naturals

CONSTANTS
    Legs,      \* LegacySocket objects; their number bounds the transfers
    Null,      \* no leg
    Faults,    \* as in SessionManager: refuse, eof, reset
    MaxLines   \* bound on the lines under way from a server

ASSUME ConstantsAssumption ==
    /\ Legs # {} /\ Null \notin Legs
    /\ Faults \subseteq {"refuse", "eof", "reset"}
    /\ MaxLines \in Nat \ {0}

VARIABLES
    cur,        \* st.socket
    dst,        \* the handshake's dst, Null outside it
    sock,       \* sock[l]: the LegacySocket, as in SessionManager
    link,       \* link[l]: its TCP connection, down when the server ended it
    in,         \* in[l]: lines sent to the gateway, _pending included
    heard,      \* heard[l]: a request the server of l has still to answer
    hold,       \* hold[l]: does the server of l hold the character
    step,       \* where the receive task is
    cancel,     \* its cancellation is requested and not yet delivered
    registered, \* the session is in _sessions
    report,     \* the last worldTransfer event
    home        \* the server that characters.host and port name

vars == <<cur, dst, sock, link, in, heard, hold, step, cancel, registered,
          report, home>>
legs == <<sock, link, in, heard, hold>>

Lines == {"ch-srv", "rsv-ok", "rsv-no", "trs-ok", "trs-no", "x", "other"}

TypeOK ==
    /\ cur \in Legs
    /\ dst \in Legs \cup {Null}
    /\ sock \in [Legs -> {"new", "open", "eof", "closed"}]
    /\ link \in [Legs -> {"none", "up", "down", "closed"}]
    /\ in \in [Legs -> Seq(Lines)]
    /\ heard \in [Legs -> {"none", "reserve", "trans"}]
    /\ hold \in [Legs -> {"no", "reserved", "yes"}]
    /\ step \in {"reading", "connecting", "reserving", "transferring", "swapping",
                 "leaving", "ended"}
    /\ cancel \in BOOLEAN
    /\ registered \in BOOLEAN
    /\ report \in {"none", "start", "success", "fail"}
    /\ home \in Legs
    /\ step \in {"connecting", "reserving", "transferring", "leaving"} <=> dst # Null

(* A session that is logged in, as open_session leaves it. *)
Init ==
    /\ cur = CHOOSE l \in Legs : TRUE
    /\ dst = Null
    /\ sock = [l \in Legs |-> IF l = cur THEN "open" ELSE "new"]
    /\ link = [l \in Legs |-> IF l = cur THEN "up" ELSE "none"]
    /\ in = [l \in Legs |-> <<>>]
    /\ heard = [l \in Legs |-> "none"]
    /\ hold = [l \in Legs |-> IF l = cur THEN "yes" ELSE "no"]
    /\ step = "reading"
    /\ cancel = FALSE
    /\ registered = TRUE
    /\ report = "none"
    /\ home = cur
-----------------------------------------------------------------------------
(* Lines of the external servers arrive while the gateway reads them. *)
Say(l, x) ==
    /\ link[l] = "up" /\ Len(in[l]) < MaxLines
    /\ in' = [in EXCEPT ![l] = IF sock[l] = "open" THEN Append(@, x) ELSE @]

(* read_line of l returns a line of X, or finds that the stream has ended. *)
Reads(l, X) ==
    /\ ~cancel
    /\ in[l] # <<>> /\ Head(in[l]) \in X
    /\ in' = [in EXCEPT ![l] = Tail(@)]
Ends(l) ==
    /\ ~cancel
    /\ in[l] = <<>> /\ (sock[l] # "open" \/ link[l] = "down")

(* A send raises without a writer, or when the peer has reset; to a peer   *)
(* that has only ended its stream it still goes out.                       *)
SendFails(l) == sock[l] = "closed" \/ (link[l] = "down" /\ "reset" \in Faults)
SendWorks(l) == sock[l] # "closed" /\ (link[l] = "up" \/ "eof" \in Faults)

(* What LegacySocket.close does to the connection of l: its server drops   *)
(* what it still had to answer and a reservation.                          *)
CutOff(l) ==
    /\ link' = [link EXCEPT ![l] = IF @ = "up" THEN "closed" ELSE @]
    /\ hold' = [hold EXCEPT ![l] = IF @ = "reserved" THEN "no" ELSE @]
    /\ heard' = [heard EXCEPT ![l] = "none"]
Close(l) == CutOff(l) /\ sock' = [sock EXCEPT ![l] = "closed"]

Goes(s) == step' = s /\ UNCHANGED <<cur, registered, home>>

(* A handshake that fails closes dst and waits for it. *)
GiveUp_Leaky ==
    /\ Goes("leaving")
    /\ UNCHANGED <<dst, sock, link, hold, heard, report>>
GiveUp == Close(dst) /\ Goes("leaving") /\ UNCHANGED <<dst, report>>

(* A cancelled read_line returns None like one at the end of the stream,   *)
(* whoever cancelled it: the limit of 300 s or close_session.  It marks    *)
(* its socket closed; what arrives later is never read.                    *)
Deafened_Open(l) == sock
Deafened(l) == [sock EXCEPT ![l] = IF @ = "open" THEN "eof" ELSE @]

(* read_line of l ends so inside the handshake: dst is closed. *)
BreakOff_Leaky(l) ==
    /\ in' = [in EXCEPT ![l] = <<>>]
    /\ sock' = Deafened(l)
    /\ Goes("leaving")
    /\ UNCHANGED <<dst, link, hold, heard, report>>
BreakOff(l) ==
    /\ in' = [in EXCEPT ![l] = <<>>]
    /\ CutOff(dst)
    /\ sock' = [Deafened(l) EXCEPT ![dst] = "closed"]
    /\ Goes("leaving")
    /\ UNCHANGED <<dst, report>>
-----------------------------------------------------------------------------
(* The receive loop takes #ch-srv from its server.  One whose port is no   *)
(* number fails before anything is connected.                              *)
ReadTransfer ==
    /\ step = "reading"
    /\ Reads(cur, {"ch-srv"})
    /\ \/ /\ dst' \in {l \in Legs : sock[l] = "new"}
          /\ report' = "start"
          /\ Goes("connecting")
       \/ /\ report' = "fail"
          /\ UNCHANGED dst
          /\ Goes("reading")
    /\ UNCHANGED <<sock, link, heard, hold, cancel>>

(* Any other line: handled without effect here. *)
ReadOther ==
    /\ step = "reading"
    /\ Reads(cur, Lines \ {"ch-srv"})
    /\ UNCHANGED <<cur, dst, sock, link, heard, hold, step, cancel, registered,
                   report, home>>

(* The loop ends at the end of the stream, or when it is cancelled. *)
ReadEnd ==
    /\ step = "reading"
    /\ Ends(cur) \/ cancel
    /\ sock' = Deafened(cur)
    /\ cancel' = FALSE
    /\ Goes("ended")
    /\ UNCHANGED <<dst, link, in, heard, hold, report>>

(* connect fails or succeeds; #reserve is sent.  CancelledError passes     *)
(* through connect and ends the task.                                      *)
ConnectFails ==
    /\ step = "connecting" /\ ~cancel /\ "refuse" \in Faults
    /\ dst' = Null
    /\ report' = "fail"
    /\ Goes("reading")
    /\ UNCHANGED <<legs, cancel>>

ConnectOk ==
    /\ step = "connecting" /\ ~cancel
    /\ \/ /\ sock' = [sock EXCEPT ![dst] = "open"]
          /\ link' = [link EXCEPT ![dst] = "up"]
          /\ heard' = [heard EXCEPT ![dst] = "reserve"]
          /\ Goes("reserving")
       \/ /\ "reset" \in Faults     \* #reserve raises, dst is closed
          /\ sock' = [sock EXCEPT ![dst] = "closed"]
          /\ link' = [link EXCEPT ![dst] = "down"]
          /\ Goes("leaving")
          /\ UNCHANGED heard
    /\ UNCHANGED <<dst, in, hold, cancel, report>>

CancelConnecting ==
    /\ step = "connecting" /\ cancel
    /\ dst' = Null
    /\ cancel' = FALSE
    /\ Goes("ended")
    /\ UNCHANGED <<legs, report>>

(* _wait_for_line(dst): rsv-ok, another line, the end, a refusal, the limit *)
(* of 300 s, or the cancellation by close_session.                          *)
RsvOk ==
    /\ step = "reserving"
    /\ Reads(dst, {"rsv-ok"})
    /\ \/ /\ SendWorks(cur)
          /\ heard' = [heard EXCEPT ![cur] = IF link[cur] = "up" THEN "trans" ELSE @]
          /\ Goes("transferring")
          /\ UNCHANGED <<dst, sock, link, hold, report>>
       \/ SendFails(cur) /\ GiveUp
    /\ UNCHANGED cancel

Skips(l, s, X) ==
    /\ step = s
    /\ Reads(l, X)
    /\ UNCHANGED <<cur, dst, sock, link, heard, hold, step, cancel, registered,
                   report, home>>
RsvSkips == Skips(dst, "reserving", Lines \ {"rsv-ok", "rsv-no", "x"})

RsvRefused ==
    /\ step = "reserving"
    /\ \/ Reads(dst, {"rsv-no", "x"})
       \/ Ends(dst) /\ UNCHANGED in
    /\ GiveUp
    /\ UNCHANGED cancel

RsvBroken ==
    /\ step = "reserving"
    /\ BreakOff(dst)
    /\ cancel' = FALSE

(* _wait_for_line(old_sock): trs-ok, and #ch-srv-ok makes dst the session's *)
(* socket.  The writer of the old one is then waited for.                   *)
Confirms_Any == {"trs-ok", "trs-no"}
Confirms == {"trs-ok"}

TrsOk ==
    /\ step = "transferring"
    /\ Reads(cur, Confirms)
    /\ \/ /\ SendWorks(dst)
          /\ sock' = [sock EXCEPT ![cur] = "closed"]
          /\ link' = [link EXCEPT ![cur] = IF @ = "up" THEN "closed" ELSE @]
          /\ heard' = [heard EXCEPT ![cur] = "none"]
          /\ hold' = [hold EXCEPT ![dst] = IF link[dst] = "up" THEN "yes" ELSE @]
          /\ cur' = dst
          /\ dst' = Null
          /\ step' = "swapping"
          /\ UNCHANGED <<registered, home, report>>
       \/ SendFails(dst) /\ GiveUp
    /\ UNCHANGED cancel

TrsSkips == Skips(cur, "transferring", Lines \ {"trs-ok", "trs-no", "x"})

TrsRefused ==
    /\ step = "transferring"
    /\ \/ Reads(cur, {"trs-no", "x"}) /\ GiveUp
       \/ Ends(cur) /\ BreakOff(cur)
    /\ UNCHANGED cancel

TrsBroken ==
    /\ step = "transferring"
    /\ BreakOff(cur)
    /\ cancel' = FALSE

(* dst has closed; a cancellation meanwhile is swallowed by close().       *)
Leave_Silent ==
    /\ step = "leaving"
    /\ dst' = Null
    /\ cancel' = FALSE
    /\ Goes("reading")
    /\ UNCHANGED <<legs, report>>
Leave ==
    /\ step = "leaving"
    /\ dst' = Null
    /\ report' = "fail"
    /\ cancel' = FALSE
    /\ Goes("reading")
    /\ UNCHANGED legs

(* The old socket has closed, cancelled or not: the login on the new one.  *)
SwapLogin_Cleared ==
    /\ step = "swapping"
    /\ \/ SendWorks(cur) /\ report' = "success" /\ home' = dst
       \/ SendFails(cur) /\ report' = "fail" /\ UNCHANGED home
    /\ cancel' = FALSE
    /\ step' = "reading"
    /\ UNCHANGED <<cur, dst, legs, registered>>
SwapLogin ==
    /\ step = "swapping"
    /\ \/ SendWorks(cur) /\ report' = "success" /\ home' = cur
       \/ SendFails(cur) /\ report' = "fail" /\ UNCHANGED home
    /\ cancel' = FALSE
    /\ step' = "reading"
    /\ UNCHANGED <<cur, dst, legs, registered>>
-----------------------------------------------------------------------------
(* close_session, in another task.  Lines read before stay in _pending.    *)
CloseSession ==
    /\ registered
    /\ registered' = FALSE
    /\ cancel' = (step # "ended")
    /\ Close(cur)
    /\ \E n \in 0..Len(in[cur]) : in' = [in EXCEPT ![cur] = SubSeq(@, 1, n)]
    /\ UNCHANGED <<cur, dst, step, report, home>>
-----------------------------------------------------------------------------
(* The legacy servers, outside this repository, as the handshake sees them. *)
Gateway == <<cur, dst, sock, step, cancel, registered, report, home>>

Asks(l) ==
    /\ hold[l] = "yes"
    /\ Say(l, "ch-srv")
    /\ UNCHANGED <<Gateway, link, heard, hold>>

AnswersReserve(l) ==
    /\ heard[l] = "reserve"
    /\ heard' = [heard EXCEPT ![l] = "none"]
    /\ \/ Say(l, "rsv-ok") /\ hold' = [hold EXCEPT ![l] = "reserved"]
       \/ Say(l, "rsv-no") /\ UNCHANGED hold
    /\ UNCHANGED <<Gateway, link>>

AnswersTrans(l) ==
    /\ heard[l] = "trans"
    /\ heard' = [heard EXCEPT ![l] = "none"]
    /\ \/ Say(l, "trs-ok") /\ hold' = [hold EXCEPT ![l] = "no"]
       \/ Say(l, "trs-no") /\ UNCHANGED hold
    /\ UNCHANGED <<Gateway, link>>

Chats(l) == Say(l, "other") /\ UNCHANGED <<Gateway, link, heard, hold>>

(* A server ends the connection, with or without #x: the character, or its *)
(* reservation, is gone.                                                   *)
Drops(l) ==
    /\ link[l] = "up" /\ Faults \cap {"eof", "reset"} # {}
    /\ Say(l, "x") \/ UNCHANGED in
    /\ link' = [link EXCEPT ![l] = "down"]
    /\ heard' = [heard EXCEPT ![l] = "none"]
    /\ hold' = [hold EXCEPT ![l] = "no"]
    /\ UNCHANGED Gateway
-----------------------------------------------------------------------------
Task ==
    \/ ReadTransfer \/ ReadOther \/ ReadEnd
    \/ ConnectFails \/ ConnectOk \/ CancelConnecting
    \/ RsvOk \/ RsvSkips \/ RsvRefused \/ RsvBroken
    \/ TrsOk \/ TrsSkips \/ TrsRefused \/ TrsBroken
    \/ Leave \/ SwapLogin

Server == \E l \in Legs : Asks(l) \/ AnswersReserve(l) \/ AnswersTrans(l)
                          \/ Chats(l) \/ Drops(l)

Next == Task \/ CloseSession \/ Server

Spec == Init /\ [][Next]_vars

(* The event loop runs the ready task, a connect ends within 10 s and a    *)
(* handshake within 300 s; the servers owe nothing.                        *)
FairSpec == Spec /\ WF_vars(Task) /\ WF_vars(RsvBroken) /\ WF_vars(TrsBroken)
-----------------------------------------------------------------------------
(* A character is logged in at one server at most: the new one gets         *)
(* #ch-srv-ok only after the old one has let go (session.py 442-450).       *)
OneWorld == \A k, l \in Legs : hold[k] = "yes" /\ hold[l] = "yes" => k = l

(* Outside a handshake only the session's own connection is left, and none  *)
(* once the session is closed and its task has ended: every failure and     *)
(* every cancellation closes dst (session.py 427-459).                      *)
LegsClosed ==
    step \in {"reading", "ended"} =>
        /\ \A l \in Legs \ {cur} : sock[l] \in {"new", "closed"} /\ link[l] # "up"
        /\ step = "ended" /\ ~registered => sock[cur] = "closed" /\ link[cur] # "up"

(* While the servers stay up, a session that reads its server reads the one *)
(* that holds its character, and the database names it: whatever became of  *)
(* a transfer, the session is usable where it is (session.py 376-519).  Not *)
(* so when the new server goes between trs-ok and #ch-srv-ok.               *)
AtHome ==
    registered /\ step = "reading" /\ sock[cur] = "open"
    /\ (\A l \in Legs : link[l] # "down")
        => hold[cur] = "yes" /\ home = cur

(* No server is left with a reservation: it is used or dropped with the     *)
(* connection that made it, whatever ends the handshake (session.py 434).   *)
ReservationsUsed ==
    \A l \in Legs : hold[l] = "reserved" =>
        l = dst /\ step \in {"reserving", "transferring"}

(* docs/05-feature-responsibility-design.md:202 wants the server moved to   *)
(* persisted for the next connection.  A session closed between #ch-srv-ok  *)
(* and the login leaves characters.host at the old one (session.py 456-467). *)
HomeFollows ==
    step # "swapping" => \A l \in Legs : hold[l] = "yes" => home = l

(* A transfer announced to the browser is reported as done or failed, or    *)
(* the session is closed: the servers may stay silent (session.py 401-407). *)
StartReported == report = "start" ~> report # "start" \/ ~registered
=============================================================================
