------------------------- MODULE WorldTransferProofs -------------------------
(***************************************************************************)
(* Proofs about WorldTransfer, for any set of legs and any faults: its type *)
(* invariant, OneWorld, LegsClosed, ReservationsUsed and AtHome.            *)
(***************************************************************************)
EXTENDS WorldTransfer, TLAPS

Among(x, s) == \E i \in 1..Len(s) : s[i] = x

(* A line x is on its way from the server of l. *)
Waiting(l, x) == Among(x, in[l])

(* A leg nobody connected has no server. *)
NewInv ==
    /\ sock[cur] # "new"
    /\ \A l \in Legs : sock[l] = "new" =>
        in[l] = <<>> /\ heard[l] = "none" /\ link[l] = "none" /\ hold[l] = "no"

(* Only the session's own server holds the character, and not once it has   *)
(* said trs-ok; the new server has not been asked to let go.                *)
HoldInv ==
    /\ \A l \in Legs : hold[l] = "yes" => l = cur /\ ~Waiting(l, "trs-ok")
    /\ dst # Null => dst # cur /\ heard[dst] # "trans" /\ ~Waiting(dst, "trs-ok")

(* A reservation is asked for once per handshake, and lives with its link. *)
ReserveInv ==
    \A l \in Legs :
        /\ heard[l] = "reserve" =>
            l = dst /\ step = "reserving" /\ ~Waiting(l, "rsv-ok")
        /\ hold[l] = "reserved" =>
            l = dst /\ step \in {"reserving", "transferring"} /\ link[l] = "up"

(* What is not the session's or the handshake's is closed; a closed session *)
(* can take no new socket, for its handshake is cancelled before trs-ok.    *)
LegInv ==
    /\ \A l \in Legs \ {cur, dst} : sock[l] \in {"new", "closed"} /\ link[l] # "up"
    /\ step = "connecting" => sock[dst] = "new"
    /\ step \in {"reserving", "transferring"} => sock[dst] = "open"
    /\ step = "leaving" => sock[dst] = "closed" /\ link[dst] # "up"
    /\ ~registered => sock[cur] = "closed" /\ link[cur] # "up"
    /\ ~registered /\ step = "transferring" => cancel

IInv == TypeOK /\ NewInv /\ HoldInv /\ ReserveInv /\ LegInv
-----------------------------------------------------------------------------
(* Appending, taking and forgetting lines brings in no line but the new one. *)
LEMMA AmongAppend ==
    ASSUME NEW s \in Seq(Lines), NEW y \in Lines, NEW x
    PROVE  /\ Append(s, y) \in Seq(Lines)
           /\ Among(x, Append(s, y)) => Among(x, s) \/ x = y
BY DEF Among

LEMMA AmongTail ==
    ASSUME NEW s \in Seq(Lines), s # <<>>, NEW x
    PROVE  /\ Tail(s) \in Seq(Lines)
           /\ Among(x, Tail(s)) => Among(x, s)
           /\ Among(Head(s), s)
BY DEF Among

LEMMA AmongPrefix ==
    ASSUME NEW s \in Seq(Lines), NEW n \in 0..Len(s), NEW x
    PROVE  /\ SubSeq(s, 1, n) \in Seq(Lines)
           /\ Among(x, SubSeq(s, 1, n)) => Among(x, s)
BY DEF Among

LEMMA AmongNothing == ASSUME NEW x PROVE <<>> \in Seq(Lines) /\ ~Among(x, <<>>)
BY DEF Among

(* What every step does to a queue of lines, by the step's helper. *)
LEMMA ReadsQueue ==
    ASSUME TypeOK, NEW l \in Legs, NEW X, Reads(l, X)
    PROVE  /\ in' \in [Legs -> Seq(Lines)]
           /\ \E x \in X : Waiting(l, x) /\ x = Head(in[l])
           /\ \A k \in Legs, x \in Lines : Among(x, in'[k]) => Among(x, in[k])
           /\ \A k \in Legs : in[k] = <<>> => in'[k] = <<>>
<1>1. in[l] \in Seq(Lines) /\ in[l] # <<>>
  BY DEF TypeOK, Reads
<1>2. /\ Tail(in[l]) \in Seq(Lines)
      /\ \A x \in Lines : Among(x, Tail(in[l])) => Among(x, in[l])
      /\ Among(Head(in[l]), in[l])
  BY <1>1, AmongTail
<1>3. in' = [in EXCEPT ![l] = Tail(in[l])] /\ Head(in[l]) \in X
  BY DEF Reads
<1> QED
  BY <1>1, <1>2, <1>3 DEF TypeOK, Waiting

LEMMA SayQueue ==
    ASSUME TypeOK, NEW l \in Legs, NEW y \in Lines, Say(l, y)
    PROVE  /\ in' \in [Legs -> Seq(Lines)]
           /\ link[l] = "up"
           /\ \A k \in Legs, x \in Lines :
                Among(x, in'[k]) => Among(x, in[k]) \/ (k = l /\ x = y)
           /\ \A k \in Legs \ {l} : in'[k] = in[k]
<1>1. in[l] \in Seq(Lines)
  BY DEF TypeOK
<1>2. /\ Append(in[l], y) \in Seq(Lines)
      /\ \A x \in Lines : Among(x, Append(in[l], y)) => Among(x, in[l]) \/ x = y
  BY <1>1, AmongAppend
<1>3. link[l] = "up" /\ in' = [in EXCEPT ![l] = IF sock[l] = "open"
                                                THEN Append(in[l], y) ELSE in[l]]
  BY DEF Say
<1> QED
  BY <1>1, <1>2, <1>3 DEF TypeOK

LEMMA BreakOffQueue ==
    ASSUME TypeOK, NEW l \in Legs, BreakOff(l)
    PROVE  /\ in' \in [Legs -> Seq(Lines)]
           /\ \A k \in Legs, x \in Lines : Among(x, in'[k]) => Among(x, in[k])
           /\ \A k \in Legs : in[k] = <<>> => in'[k] = <<>>
BY AmongNothing DEF TypeOK, BreakOff

LEMMA CloseQueue ==
    ASSUME TypeOK, CloseSession
    PROVE  /\ in' \in [Legs -> Seq(Lines)]
           /\ \A k \in Legs, x \in Lines : Among(x, in'[k]) => Among(x, in[k])
           /\ \A k \in Legs \ {cur} : in'[k] = in[k]
<1>1. PICK n \in 0..Len(in[cur]) : in' = [in EXCEPT ![cur] = SubSeq(in[cur], 1, n)]
  BY DEF CloseSession
<1>2. cur \in Legs /\ in[cur] \in Seq(Lines)
  BY DEF TypeOK
<1>3. /\ SubSeq(in[cur], 1, n) \in Seq(Lines)
      /\ \A x \in Lines : Among(x, SubSeq(in[cur], 1, n)) => Among(x, in[cur])
  BY <1>2, AmongPrefix
<1> QED
  BY <1>1, <1>2, <1>3 DEF TypeOK
-----------------------------------------------------------------------------
LEMMA InitIInv == Init => IInv
<1> SUFFICES ASSUME Init PROVE IInv
  OBVIOUS
<1>1. cur \in Legs
  BY ConstantsAssumption DEF Init
<1>2. TypeOK
  BY <1>1, AmongNothing DEF Init, TypeOK
<1>3. NewInv /\ ReserveInv /\ LegInv
  BY <1>1, ConstantsAssumption DEF Init, NewInv, ReserveInv, LegInv
<1>4. HoldInv
  BY <1>1, AmongNothing DEF Init, HoldInv, Waiting
<1> QED
  BY <1>2, <1>3, <1>4 DEF IInv
-----------------------------------------------------------------------------
(* One lemma per action, with one step per part of the invariant. *)
LEMMA ReadTransferKeeps ==
    ASSUME IInv, ReadTransfer
    PROVE  IInv'
<1>1. TypeOK /\ cur \in Legs /\ Reads(cur, {"ch-srv"})
  BY DEF IInv, TypeOK, ReadTransfer
<1>2. /\ in' \in [Legs -> Seq(Lines)]
      /\ \E x \in {"ch-srv"} : Waiting(cur, x) /\ x = Head(in[cur])
      /\ \A k \in Legs, x \in Lines : Among(x, in'[k]) => Among(x, in[k])
      /\ \A k \in Legs : in[k] = <<>> => in'[k] = <<>>
  BY <1>1, ReadsQueue
<1>3. \A l \in Legs : sock[l] = "new" => ~Among("trs-ok", in'[l])
  BY <1>2, AmongNothing DEF IInv, NewInv
<1>4. TypeOK'
  BY <1>1, <1>2, ConstantsAssumption
     DEF IInv, TypeOK, NewInv, HoldInv, ReadTransfer, Goes
<1>5. NewInv'
  BY <1>1, <1>2, ConstantsAssumption DEF IInv, TypeOK, NewInv, ReadTransfer, Goes
<1>6. HoldInv'
  BY <1>1, <1>2, <1>3, ConstantsAssumption
     DEF IInv, TypeOK, NewInv, HoldInv, Waiting, Lines, ReadTransfer, Goes
<1>7. ReserveInv'
  BY <1>1, <1>2, ConstantsAssumption
     DEF IInv, TypeOK, NewInv, HoldInv, ReserveInv, Waiting, Lines, ReadTransfer,
         Goes
<1>8. LegInv'
  BY <1>1, <1>2, ConstantsAssumption
     DEF IInv, TypeOK, NewInv, HoldInv, ReserveInv, LegInv, ReadTransfer, Goes
<1> QED
  BY <1>4, <1>5, <1>6, <1>7, <1>8 DEF IInv

LEMMA ReadOtherKeeps ==
    ASSUME IInv, ReadOther
    PROVE  IInv'
<1>1. TypeOK /\ cur \in Legs /\ Reads(cur, Lines \ {"ch-srv"})
  BY DEF IInv, TypeOK, ReadOther
<1>2. /\ in' \in [Legs -> Seq(Lines)]
      /\ \E x \in Lines \ {"ch-srv"} : Waiting(cur, x) /\ x = Head(in[cur])
      /\ \A k \in Legs, x \in Lines : Among(x, in'[k]) => Among(x, in[k])
      /\ \A k \in Legs : in[k] = <<>> => in'[k] = <<>>
  BY <1>1, ReadsQueue
<1>3. TypeOK'
  BY <1>1, <1>2 DEF IInv, TypeOK, ReadOther
<1>4. NewInv'
  BY <1>1, <1>2 DEF IInv, TypeOK, NewInv, ReadOther
<1>5. HoldInv'
  BY <1>1, <1>2 DEF IInv, TypeOK, HoldInv, Waiting, Lines, ReadOther
<1>6. ReserveInv'
  BY <1>1, <1>2 DEF IInv, TypeOK, ReserveInv, Waiting, Lines, ReadOther
<1>7. LegInv'
  BY <1>1, <1>2 DEF IInv, TypeOK, HoldInv, LegInv, ReadOther
<1> QED
  BY <1>3, <1>4, <1>5, <1>6, <1>7 DEF IInv

LEMMA ReadEndKeeps ==
    ASSUME IInv, ReadEnd
    PROVE  IInv'
<1>1. TypeOK'
  BY DEF IInv, TypeOK, ReadEnd, Deafened, Goes
<1>2. NewInv'
  BY DEF IInv, TypeOK, NewInv, ReadEnd, Deafened, Goes
<1>3. HoldInv'
  BY DEF IInv, TypeOK, HoldInv, Waiting, Lines, ReadEnd, Deafened, Goes
<1>4. ReserveInv'
  BY DEF IInv, TypeOK, ReserveInv, Waiting, Lines, ReadEnd, Deafened, Goes
<1>5. LegInv'
  BY DEF IInv, TypeOK, HoldInv, LegInv, ReadEnd, Deafened, Goes
<1> QED
  BY <1>1, <1>2, <1>3, <1>4, <1>5 DEF IInv

LEMMA ConnectFailsKeeps ==
    ASSUME IInv, ConnectFails
    PROVE  IInv'
<1>1. TypeOK'
  BY DEF IInv, TypeOK, ConnectFails, legs, Goes
<1>2. NewInv'
  BY DEF IInv, TypeOK, NewInv, ConnectFails, legs, Goes
<1>3. HoldInv'
  BY DEF IInv, TypeOK, HoldInv, Waiting, Lines, ConnectFails, legs, Goes
<1>4. ReserveInv'
  BY DEF IInv, TypeOK, ReserveInv, Waiting, Lines, ConnectFails, legs, Goes
<1>5. LegInv'
  BY DEF IInv, TypeOK, NewInv, LegInv, ConnectFails, legs, Goes
<1> QED
  BY <1>1, <1>2, <1>3, <1>4, <1>5 DEF IInv

LEMMA ConnectOkKeeps ==
    ASSUME IInv, ConnectOk
    PROVE  IInv'
<1>1. /\ dst \in Legs /\ dst # Null /\ sock[dst] = "new"
      /\ UNCHANGED <<cur, dst, in, hold, cancel, registered, report, home>>
  BY DEF IInv, TypeOK, LegInv, ConnectOk, Goes
<1>2. /\ in[dst] = <<>> /\ hold[dst] = "no" /\ heard[dst] = "none"
      /\ dst # cur
      /\ ~Among("trs-ok", in[dst]) /\ ~Among("rsv-ok", in[dst])
  BY <1>1, AmongNothing DEF IInv, NewInv, HoldInv
<1>3. CASE /\ sock' = [sock EXCEPT ![dst] = "open"]
           /\ link' = [link EXCEPT ![dst] = "up"]
           /\ heard' = [heard EXCEPT ![dst] = "reserve"]
           /\ step' = "reserving"
  <2>1. TypeOK'
    BY <1>1, <1>3 DEF IInv, TypeOK
  <2>2. NewInv' /\ HoldInv'
    BY <1>1, <1>2, <1>3 DEF IInv, TypeOK, NewInv, HoldInv, Waiting
  <2>3. ReserveInv'
    BY <1>1, <1>2, <1>3 DEF IInv, TypeOK, ReserveInv, Waiting, ConnectOk
  <2>4. LegInv'
    BY <1>1, <1>2, <1>3 DEF IInv, TypeOK, LegInv
  <2> QED
    BY <2>1, <2>2, <2>3, <2>4 DEF IInv
<1>4. CASE /\ sock' = [sock EXCEPT ![dst] = "closed"]
           /\ link' = [link EXCEPT ![dst] = "down"]
           /\ step' = "leaving"
           /\ UNCHANGED heard
  <2>1. TypeOK'
    BY <1>1, <1>4 DEF IInv, TypeOK
  <2>2. NewInv' /\ HoldInv'
    BY <1>1, <1>2, <1>4 DEF IInv, TypeOK, NewInv, HoldInv, Waiting
  <2>3. ReserveInv'
    BY <1>1, <1>2, <1>4 DEF IInv, TypeOK, ReserveInv, Waiting, ConnectOk
  <2>4. LegInv'
    BY <1>1, <1>2, <1>4 DEF IInv, TypeOK, LegInv
  <2> QED
    BY <2>1, <2>2, <2>3, <2>4 DEF IInv
<1> QED
  BY <1>3, <1>4 DEF ConnectOk, Goes

LEMMA CancelConnectingKeeps ==
    ASSUME IInv, CancelConnecting
    PROVE  IInv'
<1>1. TypeOK'
  BY DEF IInv, TypeOK, CancelConnecting, legs, Goes
<1>2. NewInv'
  BY DEF IInv, TypeOK, NewInv, CancelConnecting, legs, Goes
<1>3. HoldInv'
  BY DEF IInv, TypeOK, HoldInv, Waiting, Lines, CancelConnecting, legs, Goes
<1>4. ReserveInv'
  BY DEF IInv, TypeOK, ReserveInv, Waiting, Lines, CancelConnecting, legs, Goes
<1>5. LegInv'
  BY DEF IInv, TypeOK, NewInv, LegInv, CancelConnecting, legs, Goes
<1> QED
  BY <1>1, <1>2, <1>3, <1>4, <1>5 DEF IInv

(* A handshake that closes dst, or whose wait is broken off. *)
LEMMA GiveUpKeeps ==
    ASSUME IInv, GiveUp, cancel' = cancel,
           step \in {"reserving", "transferring"},
           in' \in [Legs -> Seq(Lines)],
           \A k \in Legs, x \in Lines : Among(x, in'[k]) => Among(x, in[k]),
           \A k \in Legs : in[k] = <<>> => in'[k] = <<>>
    PROVE  IInv'
<1>1. /\ dst \in Legs /\ dst # Null
      /\ step' = "leaving" /\ UNCHANGED <<cur, dst, registered, report, home>>
  BY DEF IInv, TypeOK, GiveUp, Goes
<1>2. /\ sock' = [sock EXCEPT ![dst] = "closed"]
      /\ link' = [link EXCEPT ![dst] = IF link[dst] = "up" THEN "closed" ELSE link[dst]]
      /\ hold' = [hold EXCEPT ![dst] = IF hold[dst] = "reserved" THEN "no" ELSE hold[dst]]
      /\ heard' = [heard EXCEPT ![dst] = "none"]
  BY DEF GiveUp, Close, CutOff
<1>3. /\ sock' \in [Legs -> {"new", "open", "eof", "closed"}]
      /\ link' \in [Legs -> {"none", "up", "down", "closed"}]
  BY <1>1, <1>2 DEF IInv, TypeOK
<1>4. /\ hold' \in [Legs -> {"no", "reserved", "yes"}]
      /\ heard' \in [Legs -> {"none", "reserve", "trans"}]
  BY <1>1, <1>2 DEF IInv, TypeOK
<1>5. TypeOK'
  BY <1>1, <1>3, <1>4 DEF IInv, TypeOK
<1>6. NewInv'
  BY <1>1, <1>2 DEF IInv, TypeOK, NewInv
<1>7. HoldInv'
  BY <1>1, <1>2 DEF IInv, TypeOK, HoldInv, Waiting, Lines
<1>8. ReserveInv'
  BY <1>1, <1>2 DEF IInv, TypeOK, ReserveInv, Waiting, Lines
<1>9. LegInv'
  BY <1>1, <1>2 DEF IInv, TypeOK, HoldInv, LegInv
<1> QED
  BY <1>5, <1>6, <1>7, <1>8, <1>9 DEF IInv

LEMMA BreakOffKeeps ==
    ASSUME IInv, NEW l \in {cur, dst}, BreakOff(l), cancel' \in BOOLEAN,
           step \in {"reserving", "transferring"}
    PROVE  IInv'
<1>1. /\ l \in Legs /\ dst \in Legs /\ dst # Null
      /\ step' = "leaving" /\ UNCHANGED <<cur, dst, registered, report, home>>
  BY DEF IInv, TypeOK, BreakOff, Goes
<1>2. /\ sock' \in [Legs -> {"new", "open", "eof", "closed"}]
      /\ sock'[dst] = "closed"
      /\ \A k \in Legs \ {dst} :
            sock'[k] = IF k = l /\ sock[k] = "open" THEN "eof" ELSE sock[k]
  BY <1>1 DEF IInv, TypeOK, BreakOff, Deafened
<1>3. /\ link' = [link EXCEPT ![dst] = IF link[dst] = "up" THEN "closed" ELSE link[dst]]
      /\ hold' = [hold EXCEPT ![dst] = IF hold[dst] = "reserved" THEN "no" ELSE hold[dst]]
      /\ heard' = [heard EXCEPT ![dst] = "none"]
  BY DEF BreakOff, CutOff
<1>4. link' \in [Legs -> {"none", "up", "down", "closed"}]
  BY <1>1, <1>3 DEF IInv, TypeOK
<1>5. /\ hold' \in [Legs -> {"no", "reserved", "yes"}]
      /\ heard' \in [Legs -> {"none", "reserve", "trans"}]
  BY <1>1, <1>3 DEF IInv, TypeOK
<1>6. /\ in' \in [Legs -> Seq(Lines)]
      /\ \A k \in Legs, x \in Lines : Among(x, in'[k]) => Among(x, in[k])
      /\ \A k \in Legs : in[k] = <<>> => in'[k] = <<>>
  BY <1>1, BreakOffQueue DEF IInv
<1>7. TypeOK'
  BY <1>1, <1>2, <1>4, <1>5, <1>6 DEF IInv, TypeOK
<1>8. NewInv'
  BY <1>1, <1>2, <1>3, <1>6 DEF IInv, TypeOK, NewInv
<1>9. HoldInv'
  BY <1>1, <1>3, <1>6 DEF IInv, TypeOK, HoldInv, Waiting, Lines
<1>10. ReserveInv'
  BY <1>1, <1>3, <1>6 DEF IInv, TypeOK, ReserveInv, Waiting, Lines
<1>11. LegInv'
  BY <1>1, <1>2, <1>3 DEF IInv, TypeOK, HoldInv, LegInv
<1> QED
  BY <1>7, <1>8, <1>9, <1>10, <1>11 DEF IInv

LEMMA RsvOkKeeps ==
    ASSUME IInv, RsvOk
    PROVE  IInv'
<1>1. TypeOK /\ dst \in Legs /\ Reads(dst, {"rsv-ok"})
  BY DEF IInv, TypeOK, RsvOk
<1>2. /\ in' \in [Legs -> Seq(Lines)]
      /\ \E x \in {"rsv-ok"} : Waiting(dst, x) /\ x = Head(in[dst])
      /\ \A k \in Legs, x \in Lines : Among(x, in'[k]) => Among(x, in[k])
      /\ \A k \in Legs : in[k] = <<>> => in'[k] = <<>>
  BY <1>1, ReadsQueue
<1>3. CASE GiveUp
  BY <1>2, <1>3, GiveUpKeeps DEF RsvOk
<1>4. CASE ~GiveUp
  <2>1. /\ SendWorks(cur)
        /\ heard' = [heard EXCEPT ![cur] = IF link[cur] = "up" THEN "trans"
                                           ELSE heard[cur]]
        /\ step = "reserving" /\ step' = "transferring"
        /\ UNCHANGED <<cur, dst, sock, link, hold, cancel, registered, report, home>>
    BY <1>4 DEF RsvOk, Goes
  <2>2. heard' \in [Legs -> {"none", "reserve", "trans"}]
    BY <2>1 DEF IInv, TypeOK
  <2>3. TypeOK'
    BY <1>2, <2>1, <2>2 DEF IInv, TypeOK
  <2>4. NewInv'
    BY <1>2, <2>1 DEF IInv, TypeOK, NewInv
  <2>5. HoldInv'
    BY <1>1, <1>2, <2>1 DEF IInv, TypeOK, HoldInv, Waiting, Lines
  <2>6. heard[dst] # "reserve" /\ dst # cur
    BY <1>1, <1>2 DEF IInv, ReserveInv, HoldInv, TypeOK, RsvOk
  <2>7. ReserveInv'
    BY <1>2, <2>1, <2>6 DEF IInv, TypeOK, ReserveInv, Waiting
  <2>8. LegInv'
    BY <2>1 DEF IInv, TypeOK, LegInv, SendWorks
  <2> QED
    BY <2>3, <2>4, <2>5, <2>7, <2>8 DEF IInv
<1> QED
  BY <1>3, <1>4

LEMMA RsvSkipsKeeps ==
    ASSUME IInv, RsvSkips
    PROVE  IInv'
<1>1. TypeOK /\ dst \in Legs /\ Reads(dst, Lines \ {"rsv-ok", "rsv-no", "x"})
  BY DEF IInv, TypeOK, RsvSkips, Skips
<1>2. /\ in' \in [Legs -> Seq(Lines)]
      /\ \E x \in Lines \ {"rsv-ok", "rsv-no", "x"} : Waiting(dst, x) /\ x = Head(in[dst])
      /\ \A k \in Legs, x \in Lines : Among(x, in'[k]) => Among(x, in[k])
      /\ \A k \in Legs : in[k] = <<>> => in'[k] = <<>>
  BY <1>1, ReadsQueue
<1>3. TypeOK'
  BY <1>1, <1>2 DEF IInv, TypeOK, RsvSkips, Skips
<1>4. NewInv'
  BY <1>1, <1>2 DEF IInv, TypeOK, NewInv, RsvSkips, Skips
<1>5. HoldInv'
  BY <1>1, <1>2 DEF IInv, TypeOK, HoldInv, Waiting, Lines, RsvSkips, Skips
<1>6. ReserveInv'
  BY <1>1, <1>2 DEF IInv, TypeOK, ReserveInv, Waiting, Lines, RsvSkips, Skips
<1>7. LegInv'
  BY <1>1, <1>2 DEF IInv, TypeOK, HoldInv, LegInv, RsvSkips, Skips
<1> QED
  BY <1>3, <1>4, <1>5, <1>6, <1>7 DEF IInv

LEMMA RsvRefusedKeeps ==
    ASSUME IInv, RsvRefused
    PROVE  IInv'
<1>1. TypeOK /\ dst \in Legs
  BY DEF IInv, TypeOK, RsvRefused
<1>2. CASE Reads(dst, {"rsv-no", "x"})
  BY <1>1, <1>2, ReadsQueue, GiveUpKeeps DEF RsvRefused
<1>3. CASE UNCHANGED in
  BY <1>1, <1>3, GiveUpKeeps DEF RsvRefused, TypeOK
<1> QED
  BY <1>2, <1>3 DEF RsvRefused

LEMMA RsvBrokenKeeps ==
    ASSUME IInv, RsvBroken
    PROVE  IInv'
BY BreakOffKeeps DEF RsvBroken

LEMMA TrsOkKeeps ==
    ASSUME IInv, TrsOk
    PROVE  IInv'
<1>1. TypeOK /\ cur \in Legs /\ Reads(cur, {"trs-ok"})
  BY DEF IInv, TypeOK, TrsOk, Confirms
<1>2. /\ in' \in [Legs -> Seq(Lines)]
      /\ \E x \in {"trs-ok"} : Waiting(cur, x) /\ x = Head(in[cur])
      /\ \A k \in Legs, x \in Lines : Among(x, in'[k]) => Among(x, in[k])
      /\ \A k \in Legs : in[k] = <<>> => in'[k] = <<>>
  BY <1>1, ReadsQueue
<1>3. CASE GiveUp
  BY <1>2, <1>3, GiveUpKeeps DEF TrsOk
<1>4. CASE ~GiveUp
  <2>1. /\ sock' = [sock EXCEPT ![cur] = "closed"]
        /\ link' = [link EXCEPT ![cur] = IF link[cur] = "up" THEN "closed" ELSE link[cur]]
        /\ heard' = [heard EXCEPT ![cur] = "none"]
        /\ hold' = [hold EXCEPT ![dst] = IF link[dst] = "up" THEN "yes" ELSE hold[dst]]
        /\ cur' = dst /\ dst' = Null
        /\ step = "transferring" /\ step' = "swapping"
        /\ UNCHANGED <<cancel, registered, home, report>>
    BY <1>4 DEF TrsOk
  <2>2. /\ dst \in Legs /\ dst # Null /\ dst # cur /\ sock[dst] = "open"
        /\ heard[dst] = "none" /\ ~Among("trs-ok", in[dst])
        /\ hold[cur] = "no"
    <3>1. dst \in Legs /\ dst # Null /\ dst # cur /\ sock[dst] = "open"
      BY <2>1 DEF IInv, TypeOK, HoldInv, LegInv
    <3>2. heard[dst] = "none" /\ ~Among("trs-ok", in[dst])
      BY <2>1, <3>1 DEF IInv, TypeOK, HoldInv, ReserveInv, Waiting
    <3>3. hold[cur] = "no"
      BY <1>1, <1>2, <3>1 DEF IInv, TypeOK, HoldInv, ReserveInv
    <3> QED
      BY <3>1, <3>2, <3>3
  <2>3. registered
    BY <1>1, <2>1 DEF IInv, LegInv, Reads
  <2>4. sock' \in [Legs -> {"new", "open", "eof", "closed"}]
        /\ heard' \in [Legs -> {"none", "reserve", "trans"}]
    BY <1>1, <2>1 DEF IInv, TypeOK
  <2>5. link' \in [Legs -> {"none", "up", "down", "closed"}]
    BY <1>1, <2>1 DEF IInv, TypeOK
  <2>6. hold' \in [Legs -> {"no", "reserved", "yes"}]
    BY <2>1, <2>2 DEF IInv, TypeOK
  <2>7. TypeOK'
    BY <1>2, <2>1, <2>2, <2>4, <2>5, <2>6 DEF IInv, TypeOK
  <2>8. NewInv'
    BY <1>1, <1>2, <2>1, <2>2 DEF IInv, TypeOK, NewInv
  <2>9. HoldInv'
    BY <1>1, <1>2, <2>1, <2>2 DEF IInv, TypeOK, HoldInv, Waiting, Lines
  <2>10. ReserveInv'
    BY <1>1, <2>1, <2>2 DEF IInv, TypeOK, ReserveInv
  <2>11. LegInv'
    BY <1>1, <2>1, <2>2, <2>3 DEF IInv, TypeOK, LegInv
  <2> QED
    BY <2>7, <2>8, <2>9, <2>10, <2>11 DEF IInv
<1> QED
  BY <1>3, <1>4

LEMMA TrsSkipsKeeps ==
    ASSUME IInv, TrsSkips
    PROVE  IInv'
<1>1. TypeOK /\ cur \in Legs /\ Reads(cur, Lines \ {"trs-ok", "trs-no", "x"})
  BY DEF IInv, TypeOK, TrsSkips, Skips
<1>2. /\ in' \in [Legs -> Seq(Lines)]
      /\ \E x \in Lines \ {"trs-ok", "trs-no", "x"} : Waiting(cur, x) /\ x = Head(in[cur])
      /\ \A k \in Legs, x \in Lines : Among(x, in'[k]) => Among(x, in[k])
      /\ \A k \in Legs : in[k] = <<>> => in'[k] = <<>>
  BY <1>1, ReadsQueue
<1>3. TypeOK'
  BY <1>1, <1>2 DEF IInv, TypeOK, TrsSkips, Skips
<1>4. NewInv'
  BY <1>1, <1>2 DEF IInv, TypeOK, NewInv, TrsSkips, Skips
<1>5. HoldInv'
  BY <1>1, <1>2 DEF IInv, TypeOK, HoldInv, Waiting, Lines, TrsSkips, Skips
<1>6. ReserveInv'
  BY <1>1, <1>2 DEF IInv, TypeOK, ReserveInv, Waiting, Lines, TrsSkips, Skips
<1>7. LegInv'
  BY <1>1, <1>2 DEF IInv, TypeOK, HoldInv, LegInv, TrsSkips, Skips
<1> QED
  BY <1>3, <1>4, <1>5, <1>6, <1>7 DEF IInv

LEMMA TrsRefusedKeeps ==
    ASSUME IInv, TrsRefused
    PROVE  IInv'
<1>1. TypeOK /\ cur \in Legs /\ cancel \in BOOLEAN /\ step = "transferring"
      /\ cancel' = cancel
  BY DEF IInv, TypeOK, TrsRefused
<1>2. CASE Reads(cur, {"trs-no", "x"}) /\ GiveUp
  BY <1>1, <1>2, ReadsQueue, GiveUpKeeps
<1>3. CASE BreakOff(cur)
  BY <1>1, <1>3, BreakOffKeeps
<1> QED
  BY <1>2, <1>3 DEF TrsRefused

LEMMA TrsBrokenKeeps ==
    ASSUME IInv, TrsBroken
    PROVE  IInv'
BY BreakOffKeeps DEF TrsBroken

LEMMA LeaveKeeps ==
    ASSUME IInv, Leave
    PROVE  IInv'
<1>1. TypeOK'
  BY DEF IInv, TypeOK, Leave, legs, Goes
<1>2. NewInv'
  BY DEF IInv, TypeOK, NewInv, Leave, legs, Goes
<1>3. HoldInv'
  BY DEF IInv, TypeOK, HoldInv, Waiting, Lines, Leave, legs, Goes
<1>4. ReserveInv'
  BY DEF IInv, TypeOK, ReserveInv, Waiting, Lines, Leave, legs, Goes
<1>5. LegInv'
  BY DEF IInv, TypeOK, HoldInv, LegInv, Leave, legs, Goes
<1> QED
  BY <1>1, <1>2, <1>3, <1>4, <1>5 DEF IInv

LEMMA SwapLoginKeeps ==
    ASSUME IInv, SwapLogin
    PROVE  IInv'
<1>1. TypeOK'
  BY DEF IInv, TypeOK, SwapLogin, legs
<1>2. NewInv'
  BY DEF IInv, TypeOK, NewInv, SwapLogin, legs
<1>3. HoldInv'
  BY DEF IInv, TypeOK, HoldInv, Waiting, Lines, SwapLogin, legs
<1>4. ReserveInv'
  BY DEF IInv, TypeOK, ReserveInv, Waiting, Lines, SwapLogin, legs
<1>5. LegInv'
  BY DEF IInv, TypeOK, HoldInv, LegInv, SwapLogin, legs
<1> QED
  BY <1>1, <1>2, <1>3, <1>4, <1>5 DEF IInv

LEMMA CloseSessionKeeps ==
    ASSUME IInv, CloseSession
    PROVE  IInv'
<1>1. TypeOK
  BY DEF IInv
<1>2. /\ in' \in [Legs -> Seq(Lines)]
      /\ \A k \in Legs, x \in Lines : Among(x, in'[k]) => Among(x, in[k])
      /\ \A k \in Legs \ {cur} : in'[k] = in[k]
  BY <1>1, CloseQueue
<1>3. TypeOK'
  BY <1>1, <1>2 DEF IInv, TypeOK, CloseSession, Close, CutOff
<1>4. NewInv'
  BY <1>1, <1>2 DEF IInv, TypeOK, NewInv, CloseSession, Close, CutOff
<1>5. HoldInv'
  BY <1>1, <1>2 DEF IInv, TypeOK, HoldInv, Waiting, Lines, CloseSession, Close, CutOff
<1>6. ReserveInv'
  BY <1>1, <1>2
     DEF IInv, TypeOK, ReserveInv, Waiting, Lines, CloseSession, Close, CutOff
<1>7. LegInv'
  <2>1. /\ sock' = [sock EXCEPT ![cur] = "closed"]
        /\ link' = [link EXCEPT ![cur] = IF link[cur] = "up" THEN "closed" ELSE link[cur]]
        /\ UNCHANGED <<cur, dst, step>>
    BY DEF CloseSession, Close, CutOff
  <2>2. step = "transferring" => cancel'
    BY DEF CloseSession
  <2>3. dst # Null => dst \in Legs /\ dst # cur
    BY DEF IInv, TypeOK, HoldInv
  <2> QED
    BY <2>1, <2>2, <2>3 DEF IInv, TypeOK, LegInv
<1> QED
  BY <1>3, <1>4, <1>5, <1>6, <1>7 DEF IInv

LEMMA AsksKeeps ==
    ASSUME IInv, NEW l \in Legs, Asks(l)
    PROVE  IInv'
<1>1. TypeOK /\ Say(l, "ch-srv") /\ "ch-srv" \in Lines
  BY DEF IInv, Lines, Asks
<1>2. /\ in' \in [Legs -> Seq(Lines)]
      /\ link[l] = "up"
      /\ \A k \in Legs, x \in Lines :
           Among(x, in'[k]) => Among(x, in[k]) \/ (k = l /\ x = "ch-srv")
      /\ \A k \in Legs \ {l} : in'[k] = in[k]
  BY <1>1, SayQueue
<1>3. TypeOK'
  BY <1>1, <1>2 DEF IInv, TypeOK, Asks, Gateway
<1>4. NewInv'
  BY <1>1, <1>2 DEF IInv, TypeOK, NewInv, Asks, Gateway
<1>5. HoldInv'
  BY <1>1, <1>2 DEF IInv, TypeOK, HoldInv, Waiting, Lines, Asks, Gateway
<1>6. ReserveInv'
  BY <1>1, <1>2 DEF IInv, TypeOK, ReserveInv, Waiting, Lines, Asks, Gateway
<1>7. LegInv'
  BY <1>1, <1>2 DEF IInv, TypeOK, HoldInv, LegInv, Asks, Gateway
<1> QED
  BY <1>3, <1>4, <1>5, <1>6, <1>7 DEF IInv

LEMMA ChatsKeeps ==
    ASSUME IInv, NEW l \in Legs, Chats(l)
    PROVE  IInv'
<1>1. TypeOK /\ Say(l, "other") /\ "other" \in Lines
  BY DEF IInv, Lines, Chats
<1>2. /\ in' \in [Legs -> Seq(Lines)]
      /\ link[l] = "up"
      /\ \A k \in Legs, x \in Lines :
           Among(x, in'[k]) => Among(x, in[k]) \/ (k = l /\ x = "other")
      /\ \A k \in Legs \ {l} : in'[k] = in[k]
  BY <1>1, SayQueue
<1>3. TypeOK'
  BY <1>1, <1>2 DEF IInv, TypeOK, Chats, Gateway
<1>4. NewInv'
  BY <1>1, <1>2 DEF IInv, TypeOK, NewInv, Chats, Gateway
<1>5. HoldInv'
  BY <1>1, <1>2 DEF IInv, TypeOK, HoldInv, Waiting, Lines, Chats, Gateway
<1>6. ReserveInv'
  BY <1>1, <1>2 DEF IInv, TypeOK, ReserveInv, Waiting, Lines, Chats, Gateway
<1>7. LegInv'
  BY <1>1, <1>2 DEF IInv, TypeOK, HoldInv, LegInv, Chats, Gateway
<1> QED
  BY <1>3, <1>4, <1>5, <1>6, <1>7 DEF IInv

LEMMA AnswersReserveKeeps ==
    ASSUME IInv, NEW l \in Legs, AnswersReserve(l)
    PROVE  IInv'
<1>1. TypeOK /\ heard[l] = "reserve" /\ heard' = [heard EXCEPT ![l] = "none"]
      /\ UNCHANGED <<cur, dst, sock, step, cancel, registered, report, home, link>>
  BY DEF IInv, AnswersReserve, Gateway
<1>2. PICK y \in {"rsv-ok", "rsv-no"} : Say(l, y)
  BY DEF AnswersReserve
<1>3. /\ in' \in [Legs -> Seq(Lines)]
      /\ link[l] = "up"
      /\ \A k \in Legs, x \in Lines :
           Among(x, in'[k]) => Among(x, in[k]) \/ (k = l /\ x = y)
      /\ \A k \in Legs \ {l} : in'[k] = in[k]
  BY <1>1, <1>2, SayQueue DEF Lines
<1>4. hold' = hold \/ hold' = [hold EXCEPT ![l] = "reserved"]
  BY DEF AnswersReserve
<1>5. l = dst /\ step = "reserving" /\ dst # cur
  BY <1>1 DEF IInv, ReserveInv, HoldInv, TypeOK
<1>6. TypeOK'
  BY <1>1, <1>3, <1>4 DEF IInv, TypeOK
<1>7. NewInv'
  BY <1>1, <1>3, <1>4 DEF IInv, TypeOK, NewInv
<1>8. HoldInv'
  BY <1>1, <1>3, <1>4, <1>5 DEF IInv, TypeOK, HoldInv, Waiting, Lines
<1>9. ReserveInv'
  BY <1>1, <1>3, <1>4, <1>5 DEF IInv, TypeOK, ReserveInv
<1>10. LegInv'
  BY <1>1 DEF IInv, LegInv
<1> QED
  BY <1>6, <1>7, <1>8, <1>9, <1>10 DEF IInv

LEMMA AnswersTransKeeps ==
    ASSUME IInv, NEW l \in Legs, AnswersTrans(l)
    PROVE  IInv'
<1>1. TypeOK /\ heard[l] = "trans" /\ heard' = [heard EXCEPT ![l] = "none"]
      /\ UNCHANGED <<cur, dst, sock, step, cancel, registered, report, home, link>>
  BY DEF IInv, AnswersTrans, Gateway
<1>2. PICK y \in {"trs-ok", "trs-no"} :
        Say(l, y) /\ hold' = IF y = "trs-ok" THEN [hold EXCEPT ![l] = "no"] ELSE hold
  BY DEF AnswersTrans
<1>3. /\ in' \in [Legs -> Seq(Lines)]
      /\ link[l] = "up"
      /\ \A k \in Legs, x \in Lines :
           Among(x, in'[k]) => Among(x, in[k]) \/ (k = l /\ x = y)
      /\ \A k \in Legs \ {l} : in'[k] = in[k]
  BY <1>1, <1>2, SayQueue DEF Lines
<1>4. l # dst
  BY <1>1, ConstantsAssumption DEF IInv, HoldInv, TypeOK, ReserveInv
<1>5. TypeOK'
  BY <1>1, <1>2, <1>3 DEF IInv, TypeOK
<1>6. NewInv'
  BY <1>1, <1>2, <1>3 DEF IInv, TypeOK, NewInv
<1>7. HoldInv'
  BY <1>1, <1>2, <1>3, <1>4 DEF IInv, TypeOK, HoldInv, Waiting, Lines
<1>8. ReserveInv'
  BY <1>1, <1>2, <1>3, <1>4 DEF IInv, TypeOK, ReserveInv, Waiting, Lines
<1>9. LegInv'
  BY <1>1 DEF IInv, LegInv
<1> QED
  BY <1>5, <1>6, <1>7, <1>8, <1>9 DEF IInv

LEMMA DropsKeeps ==
    ASSUME IInv, NEW l \in Legs, Drops(l)
    PROVE  IInv'
<1>1. /\ TypeOK /\ link[l] = "up"
      /\ link' = [link EXCEPT ![l] = "down"]
      /\ heard' = [heard EXCEPT ![l] = "none"]
      /\ hold' = [hold EXCEPT ![l] = "no"]
      /\ UNCHANGED <<cur, dst, sock, step, cancel, registered, report, home>>
  BY DEF IInv, Drops, Gateway
<1>2. /\ in' \in [Legs -> Seq(Lines)]
      /\ \A k \in Legs, x \in Lines \ {"x"} : Among(x, in'[k]) => Among(x, in[k])
      /\ \A k \in Legs \ {l} : in'[k] = in[k]
  <2>1. CASE Say(l, "x")
    BY <1>1, <2>1, SayQueue DEF Lines
  <2>2. CASE UNCHANGED in
    BY <1>1, <2>2 DEF TypeOK
  <2> QED
    BY <2>1, <2>2 DEF Drops
<1>3. TypeOK'
  BY <1>1, <1>2 DEF IInv, TypeOK
<1>4. NewInv'
  BY <1>1, <1>2 DEF IInv, TypeOK, NewInv
<1>5. HoldInv'
  BY <1>1, <1>2 DEF IInv, TypeOK, HoldInv, Waiting, Lines
<1>6. ReserveInv'
  BY <1>1, <1>2 DEF IInv, TypeOK, ReserveInv, Waiting, Lines
<1>7. LegInv'
  BY <1>1 DEF IInv, TypeOK, LegInv, HoldInv
<1> QED
  BY <1>3, <1>4, <1>5, <1>6, <1>7 DEF IInv
-----------------------------------------------------------------------------
LEMMA NextIInv == IInv /\ [Next]_vars => IInv'
<1> SUFFICES ASSUME IInv, [Next]_vars PROVE IInv'
  OBVIOUS
<1>1. CASE Task
  BY <1>1, ReadTransferKeeps, ReadOtherKeeps, ReadEndKeeps, ConnectFailsKeeps,
     ConnectOkKeeps, CancelConnectingKeeps, RsvOkKeeps, RsvSkipsKeeps,
     RsvRefusedKeeps, RsvBrokenKeeps, TrsOkKeeps, TrsSkipsKeeps, TrsRefusedKeeps,
     TrsBrokenKeeps, LeaveKeeps, SwapLoginKeeps
     DEF Task
<1>2. CASE CloseSession
  BY <1>2, CloseSessionKeeps
<1>3. CASE Server
  BY <1>3, AsksKeeps, AnswersReserveKeeps, AnswersTransKeeps, ChatsKeeps, DropsKeeps
     DEF Server
<1>4. CASE UNCHANGED vars
  BY <1>4 DEF vars, IInv, TypeOK, NewInv, HoldInv, ReserveInv, LegInv, Waiting
<1> QED
  BY <1>1, <1>2, <1>3, <1>4 DEF Next

LEMMA Invariance == Spec => []IInv
BY InitIInv, NextIInv, PTL DEF Spec

(* Every variable keeps its type, and a handshake has its dst to the end.  *)
THEOREM TypeCorrect == Spec => []TypeOK
<1>1. IInv => TypeOK
  BY DEF IInv
<1> QED
  BY <1>1, Invariance, PTL

(* Whatever the servers answer and whenever the session is closed, the      *)
(* character is logged in at one server at most.                            *)
THEOREM LoggedInOnce == Spec => []OneWorld
<1>1. IInv => OneWorld
  BY DEF IInv, HoldInv, OneWorld
<1> QED
  BY <1>1, Invariance, PTL

(* Outside a handshake no connection but the session's own is left, and     *)
(* none after a session that was closed.                                    *)
THEOREM NoLegLeft == Spec => []LegsClosed
<1>1. IInv => LegsClosed
  <2> SUFFICES ASSUME IInv, step \in {"reading", "ended"}
               PROVE  /\ \A l \in Legs \ {cur} :
                            sock[l] \in {"new", "closed"} /\ link[l] # "up"
                      /\ step = "ended" /\ ~registered =>
                            sock[cur] = "closed" /\ link[cur] # "up"
    BY DEF LegsClosed
  <2>1. dst = Null /\ Null \notin Legs
    BY ConstantsAssumption DEF IInv, TypeOK
  <2> QED
    BY <2>1 DEF IInv, LegInv
<1> QED
  BY <1>1, Invariance, PTL

(* No server keeps a reservation that no handshake is about to use.         *)
THEOREM NoReservationLeft == Spec => []ReservationsUsed
<1>1. IInv => ReservationsUsed
  BY DEF IInv, ReserveInv, ReservationsUsed
<1> QED
  BY <1>1, Invariance, PTL
-----------------------------------------------------------------------------
(* The old server's verdict on a transfer. *)
Verdict == {"trs-ok", "trs-no"}
NoVerdict(s) == \A i \in 1..Len(s) : s[i] \notin Verdict
OneVerdict(s) == \A i, j \in 1..Len(s) : s[i] \in Verdict /\ s[j] \in Verdict => i = j

(* What taking and adding a line do to the verdicts of a queue. *)
LEMMA VerdictTail ==
    ASSUME NEW s \in Seq(Lines), s # <<>>
    PROVE  /\ NoVerdict(s) => NoVerdict(Tail(s))
           /\ OneVerdict(s) => OneVerdict(Tail(s))
           /\ Head(s) \in Verdict /\ OneVerdict(s) => NoVerdict(Tail(s))
           /\ Head(s) # "trs-ok" /\ Among("trs-ok", s) => Among("trs-ok", Tail(s))
<1>1. /\ Tail(s) \in Seq(Lines) /\ Len(Tail(s)) = Len(s) - 1
      /\ \A i \in 1..Len(Tail(s)) : Tail(s)[i] = s[i + 1] /\ i + 1 \in 1..Len(s)
      /\ Head(s) = s[1] /\ 1 \in 1..Len(s) /\ Len(s) \in Nat
  OBVIOUS
<1>2. NoVerdict(s) => NoVerdict(Tail(s))
  BY <1>1 DEF NoVerdict
<1>3. OneVerdict(s) => OneVerdict(Tail(s))
  BY <1>1 DEF OneVerdict
<1>4. Head(s) \in Verdict /\ OneVerdict(s) => NoVerdict(Tail(s))
  BY <1>1 DEF OneVerdict, NoVerdict
<1>5. ASSUME Head(s) # "trs-ok", NEW i \in 1..Len(s), s[i] = "trs-ok"
      PROVE  Among("trs-ok", Tail(s))
  <2>1. i # 1
    BY <1>1, <1>5
  <2>2. i - 1 \in 1..Len(Tail(s)) /\ Tail(s)[i - 1] = "trs-ok"
    BY <1>1, <1>5, <2>1
  <2> QED
    BY <2>2 DEF Among
<1> QED
  BY <1>2, <1>3, <1>4, <1>5 DEF Among

LEMMA VerdictAppend ==
    ASSUME NEW s \in Seq(Lines), NEW y \in Lines
    PROVE  /\ y \notin Verdict /\ NoVerdict(s) => NoVerdict(Append(s, y))
           /\ y \notin Verdict /\ OneVerdict(s) => OneVerdict(Append(s, y))
           /\ NoVerdict(s) => OneVerdict(Append(s, y))
           /\ Among("trs-ok", s) => Among("trs-ok", Append(s, y))
           /\ Among(y, Append(s, y))
<1>1. /\ Len(Append(s, y)) = Len(s) + 1 /\ Len(s) \in Nat
      /\ \A i \in 1..Len(s) : Append(s, y)[i] = s[i] /\ i \in 1..(Len(s) + 1)
      /\ Append(s, y)[Len(s) + 1] = y
      /\ \A i \in 1..(Len(s) + 1) : i \in 1..Len(s) \/ i = Len(s) + 1
  OBVIOUS
<1>2. /\ y \notin Verdict /\ NoVerdict(s) => NoVerdict(Append(s, y))
      /\ y \notin Verdict /\ OneVerdict(s) => OneVerdict(Append(s, y))
      /\ NoVerdict(s) => OneVerdict(Append(s, y))
  BY <1>1 DEF NoVerdict, OneVerdict
<1>3. /\ Among("trs-ok", s) => Among("trs-ok", Append(s, y))
      /\ Among(y, Append(s, y))
  BY <1>1 DEF Among
<1> QED
  BY <1>2, <1>3

LEMMA VerdictNothing == NoVerdict(<<>>) /\ OneVerdict(<<>>)
BY DEF NoVerdict, OneVerdict

LEMMA VerdictAmong ==
    ASSUME NEW s \in Seq(Lines)
    PROVE  /\ NoVerdict(s) <=> ~Among("trs-ok", s) /\ ~Among("trs-no", s)
           /\ OneVerdict(s) => ~(Among("trs-ok", s) /\ Among("trs-no", s))
BY DEF NoVerdict, OneVerdict, Among, Verdict

(* The same of the two helpers of the steps. *)
LEMMA VerdictReads ==
    ASSUME TypeOK, NEW l \in Legs, NEW X, Reads(l, X)
    PROVE  /\ \A k \in Legs : /\ NoVerdict(in[k]) => NoVerdict(in'[k])
                              /\ OneVerdict(in[k]) => OneVerdict(in'[k])
           /\ Head(in[l]) \in Verdict /\ OneVerdict(in[l]) => NoVerdict(in'[l])
           /\ Head(in[l]) # "trs-ok" =>
                \A k \in Legs : Waiting(k, "trs-ok") => Among("trs-ok", in'[k])
<1>1. in[l] \in Seq(Lines) /\ in[l] # <<>> /\ in' = [in EXCEPT ![l] = Tail(in[l])]
  BY DEF TypeOK, Reads
<1>2. in'[l] = Tail(in[l]) /\ \A k \in Legs \ {l} : in'[k] = in[k]
  BY <1>1 DEF TypeOK
<1> QED
  BY <1>1, <1>2, VerdictTail DEF Waiting

LEMMA VerdictSays ==
    ASSUME TypeOK, NEW l \in Legs, NEW y \in Lines, Say(l, y)
    PROVE  /\ y \notin Verdict =>
                \A k \in Legs : /\ NoVerdict(in[k]) => NoVerdict(in'[k])
                                /\ OneVerdict(in[k]) => OneVerdict(in'[k])
           /\ NoVerdict(in[l]) => OneVerdict(in'[l])
           /\ \A k \in Legs : Waiting(k, "trs-ok") => Among("trs-ok", in'[k])
           /\ sock[l] = "open" => Among(y, in'[l])
<1>1. in[l] \in Seq(Lines)
  BY DEF TypeOK
<1>2. /\ in'[l] = IF sock[l] = "open" THEN Append(in[l], y) ELSE in[l]
      /\ \A k \in Legs \ {l} : in'[k] = in[k]
  BY DEF Say, TypeOK
<1>3. NoVerdict(in[l]) => OneVerdict(in[l])
  BY DEF NoVerdict, OneVerdict
<1> QED
  BY <1>1, <1>2, <1>3, VerdictAppend DEF Waiting
-----------------------------------------------------------------------------
(* A socket that is open has a connection; a server that says #x has ended *)
(* it; only the old server is asked for a verdict.                         *)
WireInv ==
    /\ \A l \in Legs : sock[l] = "open" => link[l] \in {"up", "down"}
    /\ \A l \in Legs : Waiting(l, "x") => link[l] = "down"
    /\ dst # Null => ~Waiting(dst, "trs-no")

(* No server has ended a connection. *)
AllStay == \A l \in Legs : link[l] # "down"

(* As long as the servers stay, the one the session reads holds its         *)
(* character, or has let it go with the one trs-ok that waits to be read.   *)
(* No verdict is left over for a later transfer to take for its own.        *)
HomeInv ==
    sock[cur] = "open" /\ AllStay =>
        /\ step # "swapping" => home = cur
        /\ IF step = "transferring"
             THEN /\ hold[cur] = "yes" \/ Waiting(cur, "trs-ok")
                  /\ OneVerdict(in[cur])
                  /\ heard[cur] = "trans" => NoVerdict(in[cur])
             ELSE /\ hold[cur] = "yes"
                  /\ NoVerdict(in[cur])
                  /\ heard[cur] # "trans"

HInv == WireInv /\ HomeInv

(* A connection that a server has ended stays so. *)
LEMMA DownStays ==
    ASSUME IInv, [Next]_vars, AllStay'
    PROVE  AllStay
<1> USE DEF IInv, TypeOK, AllStay, CutOff, Close, GiveUp, BreakOff, Goes, legs
<1>1. CASE Task
  BY <1>1 DEF Task, ReadTransfer, ReadOther, ReadEnd, ConnectFails, ConnectOk,
     CancelConnecting, RsvOk, RsvSkips, RsvRefused, RsvBroken, TrsOk, TrsSkips,
     TrsRefused, TrsBroken, Leave, SwapLogin, Skips, LegInv, NewInv
<1>2. CASE CloseSession
  BY <1>2 DEF CloseSession
<1>3. CASE Server
  BY <1>3 DEF Server, Asks, Chats, AnswersReserve, AnswersTrans, Drops
<1>4. CASE UNCHANGED vars
  BY <1>4 DEF vars
<1> QED
  BY <1>1, <1>2, <1>3, <1>4 DEF Next

(* WireInv is inductive under the invariant of the module. *)
LEMMA WireKeeps ==
    ASSUME IInv, IInv', WireInv, [Next]_vars
    PROVE  WireInv'
<1> USE ConstantsAssumption DEF IInv, TypeOK, Lines
<1> DEFINE Fewer == \A k \in Legs, x \in Lines : Among(x, in'[k]) => Among(x, in[k])
<1>1. ASSUME Fewer, UNCHANGED dst \/ dst' = Null,
             \A l \in Legs : link'[l] = link[l] \/ (link[l] = "up" /\ sock'[l] # "open"),
             \A l \in Legs : sock'[l] = "open" => sock[l] = "open"
      PROVE  WireInv'
  BY <1>1 DEF WireInv, Waiting
<1>2. CASE ReadTransfer
  <2>1. Fewer
    BY <1>2, ReadsQueue DEF ReadTransfer
  <2>2. dst' = dst \/ (in[dst'] = <<>> /\ dst' \in Legs)
    BY <1>2 DEF ReadTransfer, NewInv
  <2>3. ~Among("trs-no", <<>>)
    BY AmongNothing
  <2>4. UNCHANGED <<sock, link>>
    BY <1>2 DEF ReadTransfer
  <2> QED
    BY <2>1, <2>2, <2>3, <2>4 DEF WireInv, Waiting
<1>3. CASE ConnectOk
  <2>1. dst \in Legs /\ link[dst] = "none" /\ ~Waiting(dst, "x")
    BY <1>3, AmongNothing DEF ConnectOk, LegInv, NewInv, Waiting
  <2>2. UNCHANGED <<in, dst>>
    BY <1>3 DEF ConnectOk
  <2>3. \/ link' = [link EXCEPT ![dst] = "up"] /\ sock' = [sock EXCEPT ![dst] = "open"]
        \/ link' = [link EXCEPT ![dst] = "down"] /\ sock' = [sock EXCEPT ![dst] = "closed"]
    BY <1>3 DEF ConnectOk
  <2>4. \A l \in Legs : sock'[l] = "open" => link'[l] \in {"up", "down"}
    <3>1. \A l \in Legs \ {dst} : sock'[l] = sock[l] /\ link'[l] = link[l]
      BY <2>3
    <3>2. link'[dst] \in {"up", "down"}
      BY <2>1, <2>3
    <3> QED
      BY <3>1, <3>2 DEF WireInv
  <2>5. \A l \in Legs : Waiting(l, "x") => link'[l] = "down"
    BY <2>1, <2>3 DEF WireInv
  <2> QED
    BY <2>2, <2>4, <2>5 DEF WireInv, Waiting
<1>4. CASE ReadOther \/ RsvSkips \/ TrsSkips
  <2>1. Fewer
    BY <1>4, ReadsQueue DEF ReadOther, RsvSkips, TrsSkips, Skips
  <2> QED
    BY <1>1, <1>4, <2>1 DEF ReadOther, RsvSkips, TrsSkips, Skips
<1>5. CASE ReadEnd \/ ConnectFails \/ CancelConnecting \/ Leave \/ SwapLogin
  BY <1>1, <1>5
     DEF ReadEnd, Deafened, ConnectFails, CancelConnecting, Leave, SwapLogin, Goes, legs
<1>6. ASSUME GiveUp, Fewer, dst \in Legs
      PROVE  WireInv'
  BY <1>1, <1>6 DEF GiveUp, Close, CutOff, Goes
<1>7. ASSUME NEW l \in Legs, BreakOff(l), dst \in Legs
      PROVE  WireInv'
  <2>1. Fewer
    BY <1>7, BreakOffQueue
  <2>2. /\ link' = [link EXCEPT ![dst] = IF link[dst] = "up" THEN "closed" ELSE link[dst]]
        /\ sock'[dst] = "closed"
        /\ \A k \in Legs : sock'[k] = "open" => sock[k] = "open"
        /\ UNCHANGED dst
    BY <1>7 DEF BreakOff, CutOff, Deafened, Goes
  <2> QED
    BY <1>1, <2>1, <2>2
<1>8. CASE RsvOk
  <2>1. Fewer /\ dst \in Legs
    BY <1>8, ReadsQueue DEF RsvOk
  <2> QED
    BY <1>1, <1>6, <1>8, <2>1 DEF RsvOk, Goes
<1>9. CASE RsvRefused
  <2>1. Fewer /\ dst \in Legs
    BY <1>9, ReadsQueue DEF RsvRefused
  <2> QED
    BY <1>6, <1>9, <2>1 DEF RsvRefused
<1>10. CASE RsvBroken \/ TrsBroken
  BY <1>7, <1>10 DEF RsvBroken, TrsBroken
<1>11. CASE TrsOk
  <2>1. Fewer /\ dst \in Legs
    BY <1>11, ReadsQueue DEF TrsOk
  <2>2. CASE /\ sock' = [sock EXCEPT ![cur] = "closed"]
             /\ link' = [link EXCEPT ![cur] = IF @ = "up" THEN "closed" ELSE @]
             /\ dst' = Null
    BY <1>1, <2>1, <2>2
  <2> QED
    BY <1>6, <1>11, <2>1, <2>2 DEF TrsOk
<1>12. CASE TrsRefused
  <2>1. dst \in Legs /\ cur \in Legs
    BY <1>12 DEF TrsRefused
  <2>2. CASE Reads(cur, {"trs-no", "x"}) /\ GiveUp
    BY <1>6, <2>1, <2>2, ReadsQueue
  <2> QED
    BY <1>7, <1>12, <2>1, <2>2 DEF TrsRefused
<1>13. CASE CloseSession
  <2>1. Fewer
    BY <1>13, CloseQueue
  <2> QED
    BY <1>1, <1>13, <2>1 DEF CloseSession, Close, CutOff
<1>14. ASSUME NEW l \in Legs, Asks(l) \/ Chats(l) \/ AnswersReserve(l)
       PROVE  WireInv'
  <2>1. PICK y \in Lines \ {"x", "trs-no", "trs-ok"} : Say(l, y)
    BY <1>14 DEF Asks, Chats, AnswersReserve
  <2>2. UNCHANGED <<dst, sock, link>>
    BY <1>14 DEF Asks, Chats, AnswersReserve, Gateway
  <2>3. \A k \in Legs, x \in Lines :
            Among(x, in'[k]) => Among(x, in[k]) \/ (k = l /\ x = y)
    BY <2>1, SayQueue
  <2> QED
    BY <2>1, <2>2, <2>3 DEF WireInv, Waiting
<1>15. ASSUME NEW l \in Legs, AnswersTrans(l)
       PROVE  WireInv'
  <2>1. PICK y \in {"trs-ok", "trs-no"} : Say(l, y)
    BY <1>15 DEF AnswersTrans
  <2>2. UNCHANGED <<dst, sock, link>> /\ heard[l] = "trans"
    BY <1>15 DEF AnswersTrans, Gateway
  <2>3. \A k \in Legs, x \in Lines :
            Among(x, in'[k]) => Among(x, in[k]) \/ (k = l /\ x = y)
    BY SMTT(60), <2>1, SayQueue
  <2>4. dst # Null => dst # l
    BY <2>2 DEF HoldInv
  <2> QED
    BY <2>1, <2>2, <2>3, <2>4 DEF WireInv, Waiting
<1>16. ASSUME NEW l \in Legs, Drops(l)
       PROVE  WireInv'
  <2>1. /\ link' = [link EXCEPT ![l] = "down"] /\ UNCHANGED <<dst, sock>>
        /\ Say(l, "x") \/ UNCHANGED in
    BY <1>16 DEF Drops, Gateway
  <2>2. \A k \in Legs, x \in Lines :
            Among(x, in'[k]) => Among(x, in[k]) \/ (k = l /\ x = "x")
    BY <2>1, SayQueue
  <2> QED
    BY SMTT(60), <2>1, <2>2 DEF WireInv, Waiting
<1>17. CASE UNCHANGED vars
  BY <1>17 DEF vars, WireInv, Waiting
<1> QED
  BY <1>2, <1>3, <1>4, <1>5, <1>8, <1>9, <1>10, <1>11, <1>12, <1>13, <1>14, <1>15,
     <1>16, <1>17
     DEF Next, Task, Server

(* A step that lets the session's own server and queue alone keeps HomeInv. *)
LEMMA HomeQuiet ==
    ASSUME IInv, HomeInv, AllStay' => AllStay, UNCHANGED <<cur, home>>,
           hold'[cur] = hold[cur], heard'[cur] = heard[cur],
           sock'[cur] = "open" => sock[cur] = "open",
           NoVerdict(in[cur]) => NoVerdict(in'[cur]),
           OneVerdict(in[cur]) => OneVerdict(in'[cur]),
           step = "transferring" /\ Waiting(cur, "trs-ok") => Among("trs-ok", in'[cur]),
           step' = "transferring" <=> step = "transferring",
           step' = "swapping" <=> step = "swapping"
    PROVE  HomeInv'
BY DEF HomeInv, Waiting

LEMMA HomeKeeps ==
    ASSUME IInv, IInv', WireInv, HomeInv, [Next]_vars
    PROVE  HomeInv'
<1>0. /\ AllStay' => AllStay
      /\ cur \in Legs /\ in[cur] \in Seq(Lines)
      /\ dst # Null => dst \in Legs /\ dst # cur
      /\ step \in {"connecting", "reserving", "transferring", "leaving"} <=> dst # Null
  BY DownStays DEF IInv, TypeOK, HoldInv
<1>1. ASSUME sock'[cur'] = "open" => ~AllStay'
      PROVE  HomeInv'
  BY <1>1 DEF HomeInv
<1> USE ConstantsAssumption DEF Lines
<1>2. CASE ReadTransfer \/ ReadOther
  <2>1. /\ UNCHANGED <<cur, home, hold, heard, sock>>
        /\ step = "reading" /\ step' \in {"reading", "connecting"}
        /\ \E X : Reads(cur, X)
    BY <1>2 DEF ReadTransfer, ReadOther, Goes
  <2>2. /\ NoVerdict(in[cur]) => NoVerdict(in'[cur])
        /\ OneVerdict(in[cur]) => OneVerdict(in'[cur])
    BY <1>0, <2>1, VerdictReads DEF IInv
  <2> QED
    BY <1>0, <2>1, <2>2, HomeQuiet
<1>3. CASE ReadEnd
  BY <1>1, <1>3 DEF ReadEnd, Deafened, Goes, IInv, TypeOK
<1>4. CASE ConnectFails \/ CancelConnecting \/ Leave
  BY <1>0, <1>4, HomeQuiet DEF ConnectFails, CancelConnecting, Leave, Goes, legs
<1>5. CASE ConnectOk
  <2>1. /\ step = "connecting" /\ step' \in {"reserving", "leaving"}
        /\ UNCHANGED <<cur, home, hold, in>>
        /\ heard'[cur] = heard[cur] /\ sock'[cur] = sock[cur]
    BY <1>0, <1>5 DEF ConnectOk, Goes, IInv, TypeOK
  <2> QED
    BY <1>0, <2>1, HomeQuiet
<1>6. ASSUME GiveUp, dst # Null, step = "reserving",
             NoVerdict(in[cur]) => NoVerdict(in'[cur]),
             OneVerdict(in[cur]) => OneVerdict(in'[cur])
      PROVE  HomeInv'
  <2>1. /\ UNCHANGED <<cur, home>> /\ step' = "leaving"
        /\ hold'[cur] = hold[cur] /\ heard'[cur] = heard[cur] /\ sock'[cur] = sock[cur]
    BY <1>0, <1>6 DEF GiveUp, Close, CutOff, Goes, IInv, TypeOK
  <2> QED
    BY <1>0, <1>6, <2>1, HomeQuiet
<1>7. CASE RsvOk
  <2>1. step = "reserving" /\ dst \in Legs /\ dst # Null /\ \E X : Reads(dst, X)
    BY <1>0, <1>7 DEF RsvOk
  <2>2. /\ NoVerdict(in[cur]) => NoVerdict(in'[cur])
        /\ OneVerdict(in[cur]) => OneVerdict(in'[cur])
    BY <1>0, <2>1, VerdictReads DEF IInv
  <2>3. CASE ~GiveUp
    <3>1. /\ UNCHANGED <<cur, home, sock, hold>> /\ step' = "transferring"
      BY <1>7, <2>3 DEF RsvOk, Goes
    <3>2. NoVerdict(in'[cur]) => OneVerdict(in'[cur])
      BY DEF NoVerdict, OneVerdict
    <3> QED
      BY <1>0, <2>1, <2>2, <3>1, <3>2 DEF HomeInv
  <2> QED
    BY <1>6, <2>1, <2>2, <2>3
<1>8. CASE RsvSkips
  <2>1. /\ dst \in Legs /\ \E X : Reads(dst, X)
        /\ UNCHANGED <<cur, home, hold, heard, sock, step>> /\ step = "reserving"
    BY <1>0, <1>8 DEF RsvSkips, Skips
  <2>2. /\ NoVerdict(in[cur]) => NoVerdict(in'[cur])
        /\ OneVerdict(in[cur]) => OneVerdict(in'[cur])
    BY <1>0, <2>1, VerdictReads DEF IInv
  <2> QED
    BY <1>0, <2>1, <2>2, HomeQuiet
<1>9. CASE RsvRefused
  <2>1. /\ dst \in Legs /\ dst # Null /\ GiveUp /\ step = "reserving"
        /\ (\E X : Reads(dst, X)) \/ UNCHANGED in
    BY <1>0, <1>9 DEF RsvRefused
  <2>2. /\ NoVerdict(in[cur]) => NoVerdict(in'[cur])
        /\ OneVerdict(in[cur]) => OneVerdict(in'[cur])
    BY <1>0, <2>1, VerdictReads DEF IInv
  <2> QED
    BY <1>6, <2>1, <2>2
<1>10. CASE RsvBroken
  <2>1. dst \in Legs /\ dst # cur /\ step = "reserving" /\ BreakOff(dst)
    BY <1>0, <1>10 DEF RsvBroken
  <2>2. /\ UNCHANGED <<cur, home>> /\ step' = "leaving"
        /\ hold'[cur] = hold[cur] /\ heard'[cur] = heard[cur]
        /\ sock'[cur] = sock[cur] /\ in'[cur] = in[cur]
    BY <1>0, <2>1 DEF BreakOff, CutOff, Deafened, Goes, IInv, TypeOK
  <2> QED
    BY <1>0, <2>1, <2>2, HomeQuiet
<1>11. CASE TrsOk
  <2>1. /\ dst \in Legs /\ dst # cur /\ step = "transferring" /\ sock[dst] = "open"
        /\ Reads(cur, Confirms)
    BY <1>0, <1>11 DEF TrsOk, IInv, LegInv
  <2>2. CASE SendWorks(dst) /\ cur' = dst
    <3>1. SUFFICES ASSUME AllStay'
                   PROVE  HomeInv'
      BY DEF HomeInv
    <3>2. link[dst] = "up"
      BY <1>0, <2>1, <3>1 DEF WireInv, AllStay
    <3>3. /\ hold'[dst] = "yes" /\ heard'[dst] = heard[dst]
          /\ step' = "swapping" /\ in'[dst] = in[dst]
      BY <1>0, <1>11, <2>1, <2>2, <3>2 DEF TrsOk, GiveUp, Goes, Reads, IInv, TypeOK
    <3>4. heard[dst] # "trans" /\ in[dst] \in Seq(Lines)
          /\ ~Among("trs-ok", in[dst]) /\ ~Among("trs-no", in[dst])
      BY <1>0, <2>1 DEF IInv, TypeOK, HoldInv, WireInv, Waiting
    <3>5. NoVerdict(in[dst])
      BY <3>4, VerdictAmong
    <3> QED
      BY <2>2, <3>3, <3>4, <3>5 DEF HomeInv
  <2>3. CASE SendFails(dst)
    <3>1. link[dst] = "down"
      BY <2>1, <2>3 DEF SendFails
    <3> QED
      BY <1>0, <1>1, <2>1, <3>1 DEF AllStay
  <2> QED
    BY <1>11, <2>2, <2>3 DEF TrsOk
<1>12. CASE TrsSkips
  <2>1. /\ UNCHANGED <<cur, home, hold, heard, sock, step>>
        /\ Reads(cur, Lines \ {"trs-ok", "trs-no", "x"})
        /\ Head(in[cur]) # "trs-ok"
    BY <1>12 DEF TrsSkips, Skips, Reads
  <2>2. /\ NoVerdict(in[cur]) => NoVerdict(in'[cur])
        /\ OneVerdict(in[cur]) => OneVerdict(in'[cur])
        /\ Waiting(cur, "trs-ok") => Among("trs-ok", in'[cur])
    BY <1>0, <2>1, VerdictReads DEF IInv
  <2> QED
    BY <1>0, <2>1, <2>2, HomeQuiet
<1>13. CASE TrsRefused
  <2>1. step = "transferring" /\ dst \in Legs /\ dst # cur
    BY <1>0, <1>13 DEF TrsRefused
  <2>2. CASE Reads(cur, {"trs-no", "x"}) /\ GiveUp
    <3> SUFFICES ASSUME AllStay', sock'[cur'] = "open"
                 PROVE  HomeInv'
      BY DEF HomeInv
    <3>1. /\ UNCHANGED <<cur, home>> /\ step' = "leaving"
          /\ hold'[cur] = hold[cur] /\ sock'[cur] = sock[cur]
          /\ heard'[cur] = heard[cur]
      BY <1>0, <2>1, <2>2 DEF GiveUp, Close, CutOff, Goes, IInv, TypeOK
    <3>2. /\ OneVerdict(in[cur]) /\ (hold[cur] = "yes" \/ Waiting(cur, "trs-ok"))
          /\ heard[cur] = "trans" => NoVerdict(in[cur])
          /\ step # "swapping" /\ home = cur
      BY <1>0, <2>1, <3>1 DEF HomeInv
    <3>3. \E x \in {"trs-no", "x"} : Waiting(cur, x) /\ x = Head(in[cur])
      BY <1>0, <2>2, ReadsQueue DEF IInv
    <3>4. ~Waiting(cur, "x")
      BY <1>0 DEF WireInv, AllStay
    <3>5. Head(in[cur]) = "trs-no" /\ Among("trs-no", in[cur])
      BY <3>3, <3>4 DEF Waiting
    <3>6. hold[cur] = "yes" /\ heard[cur] # "trans"
      BY <1>0, <3>2, <3>5, VerdictAmong DEF Waiting
    <3>7. NoVerdict(in'[cur])
      BY <1>0, <2>2, <3>2, <3>5, VerdictReads DEF Verdict, IInv
    <3> QED
      BY <3>1, <3>2, <3>6, <3>7 DEF HomeInv
  <2>3. CASE BreakOff(cur)
    <3>1. sock'[cur] # "open" /\ cur' = cur
      BY <1>0, <2>1, <2>3 DEF BreakOff, Deafened, Goes, IInv, TypeOK
    <3> QED
      BY <1>1, <3>1
  <2> QED
    BY <1>13, <2>2, <2>3 DEF TrsRefused
<1>14. CASE TrsBroken
  <2>1. dst \in Legs /\ dst # cur /\ BreakOff(cur)
    BY <1>0, <1>14 DEF TrsBroken
  <2>2. sock'[cur] # "open" /\ cur' = cur
    BY <1>0, <2>1 DEF BreakOff, Deafened, Goes, IInv, TypeOK
  <2> QED
    BY <1>1, <2>2
<1>15. CASE SwapLogin
  <2>1. /\ UNCHANGED <<cur, sock, link, in, heard, hold>>
        /\ step = "swapping" /\ step' = "reading"
        /\ home' = cur \/ SendFails(cur)
    BY <1>15 DEF SwapLogin, legs
  <2>2. sock[cur] = "open" /\ AllStay => home' = cur
    BY <1>0, <2>1 DEF SendFails, AllStay
  <2> QED
    BY <2>1, <2>2 DEF HomeInv, AllStay
<1>16. CASE CloseSession
  <2>1. sock'[cur] = "closed" /\ cur' = cur
    BY <1>0, <1>16 DEF CloseSession, Close, IInv, TypeOK
  <2> QED
    BY <1>1, <2>1
<1>17. ASSUME NEW l \in Legs, Asks(l) \/ Chats(l) \/ AnswersReserve(l)
       PROVE  HomeInv'
  <2>1. PICK y \in Lines \ Verdict : Say(l, y)
    BY <1>17 DEF Asks, Chats, AnswersReserve, Verdict
  <2>2. UNCHANGED <<cur, home, sock, link, step>>
    BY <1>17 DEF Asks, Chats, AnswersReserve, Gateway
  <2>3. hold'[cur] = hold[cur] /\ heard'[cur] = heard[cur]
    <3>1. CASE AnswersReserve(l)
      <4>1. l = dst /\ l # cur
        BY <1>0, <3>1 DEF AnswersReserve, IInv, ReserveInv
      <4> QED
        BY <3>1, <4>1, <1>0 DEF AnswersReserve, IInv, TypeOK
    <3> QED
      BY <1>17, <3>1 DEF Asks, Chats
  <2>4. /\ NoVerdict(in[cur]) => NoVerdict(in'[cur])
        /\ OneVerdict(in[cur]) => OneVerdict(in'[cur])
        /\ Waiting(cur, "trs-ok") => Among("trs-ok", in'[cur])
    BY <1>0, <2>1, VerdictSays DEF IInv
  <2> QED
    BY <1>0, <2>2, <2>3, <2>4, HomeQuiet
<1>18. ASSUME NEW l \in Legs, AnswersTrans(l)
       PROVE  HomeInv'
  <2>1. PICK y \in Verdict :
            /\ Say(l, y)
            /\ IF y = "trs-ok" THEN hold' = [hold EXCEPT ![l] = "no"] ELSE UNCHANGED hold
    BY <1>18 DEF AnswersTrans, Verdict
  <2>2. /\ UNCHANGED <<cur, home, sock, link, step>>
        /\ heard[l] = "trans" /\ heard' = [heard EXCEPT ![l] = "none"]
    BY <1>18 DEF AnswersTrans, Gateway
  <2>3. CASE l = cur
    <3> SUFFICES ASSUME AllStay, sock[cur] = "open"
                 PROVE  HomeInv'
      BY <1>0, <2>2 DEF HomeInv
    <3>1. step = "transferring" /\ NoVerdict(in[cur]) /\ hold[cur] = "yes" /\ home = cur
      <4>1. step = "transferring" /\ NoVerdict(in[cur]) /\ home = cur
        BY <2>2, <2>3 DEF HomeInv
      <4>2. ~Waiting(cur, "trs-ok")
        BY <1>0, <4>1, VerdictAmong DEF Waiting
      <4> QED
        BY <4>1, <4>2 DEF HomeInv
    <3>2. OneVerdict(in'[cur]) /\ Among(y, in'[cur])
      BY <1>0, <2>1, <2>3, <3>1, VerdictSays DEF Verdict, IInv
    <3>3. hold'[cur] = "yes" \/ Among("trs-ok", in'[cur])
      BY <2>1, <3>1, <3>2
    <3>4. heard'[cur] # "trans"
      BY <1>0, <2>2, <2>3 DEF IInv, TypeOK
    <3> QED
      BY <2>2, <3>1, <3>2, <3>3, <3>4 DEF HomeInv, Waiting
  <2>4. CASE l # cur
    <3>1. /\ in'[cur] = in[cur] /\ hold'[cur] = hold[cur] /\ heard'[cur] = heard[cur]
      BY <1>0, <2>1, <2>2, <2>4 DEF Say, IInv, TypeOK
    <3> QED
      BY <1>0, <2>2, <3>1, HomeQuiet DEF Waiting
  <2> QED
    BY <2>3, <2>4
<1>19. ASSUME NEW l \in Legs, Drops(l)
       PROVE  HomeInv'
  <2>1. link'[l] = "down"
    BY <1>19 DEF Drops, IInv, TypeOK
  <2> QED
    BY <1>1, <2>1 DEF AllStay
<1>20. CASE UNCHANGED vars
  BY <1>20 DEF vars, HomeInv, AllStay, Waiting
<1> QED
  BY <1>2, <1>3, <1>4, <1>5, <1>7, <1>8, <1>9, <1>10, <1>11, <1>12, <1>13, <1>14,
     <1>15, <1>16, <1>17, <1>18, <1>19, <1>20
     DEF Next, Task, Server

(* Whatever became of a transfer, and whenever: while the servers stay, a   *)
(* session that reads its server reads the one that holds its character,    *)
(* and the database names that server.                                      *)
THEOREM SessionAtHome == Spec => []AtHome
<1>1. Init => HInv
  <2> SUFFICES ASSUME Init PROVE HInv
    OBVIOUS
  <2>1. cur \in Legs
    BY ConstantsAssumption DEF Init
  <2>2. \A l \in Legs : in[l] = <<>>
    BY DEF Init
  <2>3. WireInv
    BY <2>1, <2>2, AmongNothing DEF Init, WireInv, Waiting
  <2>4. HomeInv
    BY <2>1, <2>2, VerdictNothing DEF Init, HomeInv
  <2> QED
    BY <2>3, <2>4 DEF HInv
<1>2. IInv /\ IInv' /\ HInv /\ [Next]_vars => HInv'
  BY WireKeeps, HomeKeeps DEF HInv
<1>3. HInv => AtHome
  BY DEF HInv, HomeInv, AllStay, AtHome
<1> QED
  BY <1>1, <1>2, <1>3, Invariance, PTL DEF Spec
==============================================================================
