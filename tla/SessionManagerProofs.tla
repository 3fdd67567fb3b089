------------------------ MODULE SessionManagerProofs ------------------------
(***************************************************************************)
(* Proofs about SessionManager for every set of characters, session ids    *)
(* and connections, every set of faults and either value of Overlap.       *)
(***************************************************************************)
EXTENDS SessionManager, TLAPS

(* Every variable keeps its type, whatever the browsers, the network and   *)
(* the legacy server do.                                                   *)
THEOREM TypeCorrect == Spec => []TypeOK
<1>1. Init => TypeOK
    BY DEF Init, TypeOK
<1>2. TypeOK /\ [Next]_vars => TypeOK'
    <2> SUFFICES ASSUME TypeOK, [Next]_vars
                 PROVE  TypeOK'
        OBVIOUS
    <2> USE DEF TypeOK, registry, transport, browser, sweeping
    <2>1. ASSUME NEW w \in Conns, WsAccept(w)
          PROVE  TypeOK'
        BY <2>1 DEF WsAccept
    <2>2. ASSUME NEW w \in Conns, NEW c \in Chars, OpenReattach(w, c)
          PROVE  TypeOK'
        BY <2>2 DEF OpenReattach, Standing, Connected, Disarm, Joins
    <2>3. ASSUME NEW w \in Conns, NEW c \in Chars, NEW s \in Sids,
                 OpenNew(w, c, s)
          PROVE  TypeOK'
        BY <2>3 DEF OpenNew, Issued, Standing, Connected
    <2>4. ASSUME NEW w \in Conns, OpenConnected(w)
          PROVE  TypeOK'
        BY <2>4 DEF OpenConnected, Emit, Joins
    <2>5. ASSUME NEW w \in Conns, OpenRefused(w)
          PROVE  TypeOK'
        BY <2>5 DEF OpenRefused
    <2>6. ASSUME NEW w \in Conns, OpenLoginFails(w)
          PROVE  TypeOK'
        BY <2>6 DEF OpenLoginFails
    <2>7. ASSUME NEW w \in Conns, NEW s \in Sids, CloseRequest(w, s)
          PROVE  TypeOK'
        BY <2>7 DEF CloseRequest, HasWriter, CloseSession, Unindex, Disarm,
           CancelRecv, Hangup
    <2>8. ASSUME NEW w \in Conns, CloseEnd(w)
          PROVE  TypeOK'
        BY <2>8 DEF CloseEnd, Gathered
    <2>9. ASSUME NEW w \in Conns, WsEnd(w)
          PROVE  TypeOK'
        BY <2>9 DEF WsEnd, Detached
    <2>10. ASSUME NEW s \in Sids, TimerFire(s)
           PROVE  TypeOK'
        BY <2>10 DEF TimerFire, CloseSession, Unindex, Disarm, CancelRecv,
           Hangup
    <2>11. ASSUME NEW s \in Sids, PeerDrops(s)
           PROVE  TypeOK'
        BY <2>11 DEF PeerDrops
    <2>12. ASSUME NEW s \in Sids, RecvBye(s)
           PROVE  TypeOK'
        BY <2>12 DEF RecvBye, Emit
    <2>13. ASSUME NEW s \in Sids, RecvEof(s)
           PROVE  TypeOK'
        BY <2>13 DEF RecvEof, Emit
    <2>14. ASSUME NEW s \in Sids, RecvAnswerFails(s)
           PROVE  TypeOK'
        BY <2>14 DEF RecvAnswerFails, Emit
    <2>15. ASSUME NEW s \in Sids, RecvCancelled(s)
           PROVE  TypeOK'
        BY <2>15 DEF RecvCancelled, Emit
    <2>16. ASSUME NEW s \in Sids, ShutdownClose(s)
           PROVE  TypeOK'
        BY <2>16 DEF ShutdownClose, CloseSession, Unindex, Disarm,
           CancelRecv, Hangup, Farewell, Connected
    <2>17. ASSUME NEW s \in Sids, ShutdownSkip(s)
           PROVE  TypeOK'
        BY <2>17 DEF ShutdownSkip
    <2>18. CASE ShutdownBegin
        BY <2>18 DEF ShutdownBegin, Snapshot
    <2>19. CASE ShutdownNext
        BY <2>19 DEF ShutdownNext, Gathered
    <2>20. CASE UNCHANGED vars
        BY <2>20 DEF vars, registry, transport, browser, sweeping
    <2>21. QED
        BY <2>1, <2>2, <2>3, <2>4, <2>5, <2>6, <2>7, <2>8, <2>9, <2>10,
           <2>11, <2>12, <2>13, <2>14, <2>15, <2>16, <2>17, <2>18, <2>19,
           <2>20
           DEF Next, WsStep, SessionStep, Finish, RecvEnds, ShutdownSweeps
<1>3. QED
    BY <1>1, <1>2, PTL DEF Spec
-----------------------------------------------------------------------------
(* Who writes the dictionaries: only the opening of a new session and the  *)
(* three callers of close_session.                                         *)
LEMMA RegistrySteps ==
    ASSUME [Next]_vars
    PROVE  \/ UNCHANGED registry
           \/ \E w \in Conns, c \in Chars, s \in Sids : OpenNew(w, c, s)
           \/ \E s \in Sids, f \in BOOLEAN : CloseSession(s, f)
<1> DEFINE Goal == \/ UNCHANGED registry
                   \/ \E w \in Conns, c \in Chars, s \in Sids : OpenNew(w, c, s)
                   \/ \E s \in Sids, f \in BOOLEAN : CloseSession(s, f)
<1> USE DEF registry
<1>1. ASSUME NEW w \in Conns, WsAccept(w)
      PROVE  Goal
    BY <1>1 DEF WsAccept
<1>2. ASSUME NEW w \in Conns, NEW c \in Chars, OpenReattach(w, c)
      PROVE  Goal
    BY <1>2 DEF OpenReattach
<1>3. ASSUME NEW w \in Conns, NEW c \in Chars, NEW s \in Sids,
             OpenNew(w, c, s)
      PROVE  Goal
    BY <1>3
<1>4. ASSUME NEW w \in Conns, OpenConnected(w)
      PROVE  Goal
    BY <1>4 DEF OpenConnected
<1>5. ASSUME NEW w \in Conns, OpenRefused(w)
      PROVE  Goal
    BY <1>5 DEF OpenRefused
<1>6. ASSUME NEW w \in Conns, OpenLoginFails(w)
      PROVE  Goal
    BY <1>6 DEF OpenLoginFails
<1>7. ASSUME NEW w \in Conns, NEW s \in Sids, CloseRequest(w, s)
      PROVE  Goal
    BY <1>7 DEF CloseRequest
<1>8. ASSUME NEW w \in Conns, CloseEnd(w)
      PROVE  Goal
    BY <1>8 DEF CloseEnd
<1>9. ASSUME NEW w \in Conns, WsEnd(w)
      PROVE  Goal
    BY <1>9 DEF WsEnd
<1>10. ASSUME NEW s \in Sids, TimerFire(s)
       PROVE  Goal
    BY <1>10 DEF TimerFire
<1>11. ASSUME NEW s \in Sids, PeerDrops(s)
       PROVE  Goal
    BY <1>11 DEF PeerDrops
<1>12. ASSUME NEW s \in Sids, RecvBye(s)
       PROVE  Goal
    BY <1>12 DEF RecvBye
<1>13. ASSUME NEW s \in Sids, RecvEof(s)
       PROVE  Goal
    BY <1>13 DEF RecvEof
<1>14. ASSUME NEW s \in Sids, RecvAnswerFails(s)
       PROVE  Goal
    BY <1>14 DEF RecvAnswerFails
<1>15. ASSUME NEW s \in Sids, RecvCancelled(s)
       PROVE  Goal
    BY <1>15 DEF RecvCancelled
<1>16. ASSUME NEW s \in Sids, ShutdownClose(s)
       PROVE  Goal
    <2>1. Farewell(s) \in BOOLEAN
        BY DEF Farewell, Connected
    <2>2. QED
        BY <1>16, <2>1 DEF ShutdownClose
<1>17. ASSUME NEW s \in Sids, ShutdownSkip(s)
       PROVE  Goal
    BY <1>17 DEF ShutdownSkip
<1>18. CASE ShutdownBegin
    BY <1>18 DEF ShutdownBegin
<1>19. CASE ShutdownNext
    BY <1>19 DEF ShutdownNext
<1>20. CASE UNCHANGED vars
    BY <1>20 DEF vars, transport, browser, sweeping
<1>21. QED
    BY <1>1, <1>2, <1>3, <1>4, <1>5, <1>6, <1>7, <1>8, <1>9, <1>10, <1>11,
       <1>12, <1>13, <1>14, <1>15, <1>16, <1>17, <1>18, <1>19, <1>20
       DEF Next, WsStep, SessionStep, Finish, RecvEnds, ShutdownSweeps

(* What the index needs to stay sound: registered sessions know the        *)
(* character they are indexed under.                                       *)
RegistryInv == IndexSound /\ \A s \in sessions : key[s] \in Chars

LEMMA RegistryInductive ==
    ASSUME TypeOK, RegistryInv, [Next]_vars
    PROVE  RegistryInv'
<1> USE DEF TypeOK, RegistryInv, IndexSound, registry
<1>1. CASE UNCHANGED registry
    BY <1>1
<1>2. ASSUME NEW w \in Conns, NEW c \in Chars, NEW s \in Sids, OpenNew(w, c, s)
      PROVE  RegistryInv'
    <2>1. /\ key[s] = Null
          /\ key' = [key EXCEPT ![s] = c]
          /\ sessions' = sessions \cup {s}
          /\ byChar' = [byChar EXCEPT ![c] = s]
        BY <1>2 DEF OpenNew, Issued
    <2>2. s \notin sessions
        BY <2>1, ConstantsAssumption
    <2>3. QED
        BY <2>1, <2>2
<1>3. ASSUME NEW s \in Sids, NEW f \in BOOLEAN, CloseSession(s, f)
      PROVE  RegistryInv'
    BY <1>3 DEF CloseSession, Unindex
<1>4. QED
    BY <1>1, <1>2, <1>3, RegistrySteps

(* A character is indexed only under a session that is registered for it,  *)
(* so a re-attach never reaches a forgotten session or another character.  *)
THEOREM IndexIsSound == Spec => []IndexSound
<1>1. Init => RegistryInv
    BY DEF Init, RegistryInv, IndexSound
<1>2. TypeOK /\ RegistryInv /\ [Next]_vars => RegistryInv'
    BY RegistryInductive
<1>3. RegistryInv => IndexSound
    BY DEF RegistryInv
<1>4. QED
    BY <1>1, <1>2, <1>3, TypeCorrect, PTL DEF Spec
-----------------------------------------------------------------------------
(* Opening, re-attaching, detaching and every close keep the timer of a    *)
(* session in step with its subscriber.                                    *)
LEMMA TimerInductive ==
    ASSUME TypeOK, RegistryInv, TimerIffDetached, [Next]_vars
    PROVE  TimerIffDetached'
<1> USE ConstantsAssumption
    DEF TypeOK, RegistryInv, IndexSound, TimerIffDetached, registry, transport, browser,
        sweeping
<1>1. ASSUME NEW w \in Conns, WsAccept(w)
      PROVE  TimerIffDetached'
    BY <1>1 DEF WsAccept
<1>2. ASSUME NEW w \in Conns, NEW c \in Chars, OpenReattach(w, c)
      PROVE  TimerIffDetached'
    BY <1>2 DEF OpenReattach, Standing, Connected, Disarm, Joins
<1>3. ASSUME NEW w \in Conns, NEW c \in Chars, NEW s \in Sids,
             OpenNew(w, c, s)
      PROVE  TimerIffDetached'
    BY <1>3 DEF OpenNew, Issued, Standing, Connected
<1>4. ASSUME NEW w \in Conns, OpenConnected(w)
      PROVE  TimerIffDetached'
    BY <1>4 DEF OpenConnected, Emit, Joins
<1>5. ASSUME NEW w \in Conns, OpenRefused(w)
      PROVE  TimerIffDetached'
    BY <1>5 DEF OpenRefused
<1>6. ASSUME NEW w \in Conns, OpenLoginFails(w)
      PROVE  TimerIffDetached'
    BY <1>6 DEF OpenLoginFails
<1>7. ASSUME NEW w \in Conns, NEW s \in Sids, CloseRequest(w, s)
      PROVE  TimerIffDetached'
    BY <1>7 DEF CloseRequest, HasWriter, CloseSession, Unindex, Disarm,
       CancelRecv, Hangup
<1>8. ASSUME NEW w \in Conns, CloseEnd(w)
      PROVE  TimerIffDetached'
    BY <1>8 DEF CloseEnd, Gathered
<1>9. ASSUME NEW w \in Conns, WsEnd(w)
      PROVE  TimerIffDetached'
    BY <1>9 DEF WsEnd, Detached
<1>10. ASSUME NEW s \in Sids, TimerFire(s)
       PROVE  TimerIffDetached'
    BY <1>10 DEF TimerFire, CloseSession, Unindex, Disarm, CancelRecv,
       Hangup
<1>11. ASSUME NEW s \in Sids, PeerDrops(s)
       PROVE  TimerIffDetached'
    BY <1>11 DEF PeerDrops
<1>12. ASSUME NEW s \in Sids, RecvBye(s)
       PROVE  TimerIffDetached'
    BY <1>12 DEF RecvBye, Emit
<1>13. ASSUME NEW s \in Sids, RecvEof(s)
       PROVE  TimerIffDetached'
    BY <1>13 DEF RecvEof, Emit
<1>14. ASSUME NEW s \in Sids, RecvAnswerFails(s)
       PROVE  TimerIffDetached'
    BY <1>14 DEF RecvAnswerFails, Emit
<1>15. ASSUME NEW s \in Sids, RecvCancelled(s)
       PROVE  TimerIffDetached'
    BY <1>15 DEF RecvCancelled, Emit
<1>16. ASSUME NEW s \in Sids, ShutdownClose(s)
       PROVE  TimerIffDetached'
    BY <1>16 DEF ShutdownClose, CloseSession, Unindex, Disarm, CancelRecv,
       Hangup, Farewell, Connected
<1>17. ASSUME NEW s \in Sids, ShutdownSkip(s)
       PROVE  TimerIffDetached'
    BY <1>17 DEF ShutdownSkip
<1>18. CASE ShutdownBegin
    BY <1>18 DEF ShutdownBegin, Snapshot
<1>19. CASE ShutdownNext
    BY <1>19 DEF ShutdownNext, Gathered
<1>20. CASE UNCHANGED vars
    BY <1>20 DEF vars
<1>21. QED
    BY <1>1, <1>2, <1>3, <1>4, <1>5, <1>6, <1>7, <1>8, <1>9, <1>10, <1>11,
       <1>12, <1>13, <1>14, <1>15, <1>16, <1>17, <1>18, <1>19, <1>20
       DEF Next, WsStep, SessionStep, Finish, RecvEnds, ShutdownSweeps

(* A detached session always has a timer that will forget it, and no timer *)
(* sleeps for a session that a connection holds: no session is forgotten   *)
(* while it is held, and none is kept for ever.                            *)
THEOREM TimersAreSound == Spec => []TimerIffDetached
<1>1. Init => RegistryInv /\ TimerIffDetached
    BY DEF Init, RegistryInv, IndexSound, TimerIffDetached
<1>2. TypeOK /\ RegistryInv /\ TimerIffDetached /\ [Next]_vars
          => RegistryInv' /\ TimerIffDetached'
    BY RegistryInductive, TimerInductive
<1>3. QED
    BY <1>1, <1>2, TypeCorrect, PTL DEF Spec
-----------------------------------------------------------------------------
(* While w waits for its connect, the session it registered is untouched:  *)
(* w holds it, no socket, link or task of it exists yet, and no connection *)
(* has it on its list.                                                     *)
OpeningInv ==
    /\ \A w \in Conns : ws[w] = "connecting" =>
           /\ cur[w] \in sessions
           /\ onEvent[cur[w]] = w
           /\ sock[cur[w]] = "new"
           /\ link[cur[w]] = "none"
           /\ recv[cur[w]] = "none"
    /\ \A s \in Sids : key[s] = Null =>
           /\ sock[s] = "new"
           /\ link[s] = "none"
           /\ recv[s] = "none"
    /\ \A w \in Conns : \A s \in mine[w] : sock[s] # "new"
    /\ down # "no" => Live = {}

LEMMA OpeningInductive ==
    ASSUME TypeOK, RegistryInv, TimerIffDetached, OpeningInv, [Next]_vars
    PROVE  OpeningInv'
<1> USE ConstantsAssumption
    DEF TypeOK, RegistryInv, IndexSound, TimerIffDetached, OpeningInv, Live, registry,
        transport, browser, sweeping
<1>1. ASSUME NEW w \in Conns, WsAccept(w)
      PROVE  OpeningInv'
    BY <1>1 DEF WsAccept
<1>2. ASSUME NEW w \in Conns, NEW c \in Chars, OpenReattach(w, c)
      PROVE  OpeningInv'
    BY <1>2 DEF OpenReattach, Standing, Connected, Disarm, Joins
<1>3. ASSUME NEW w \in Conns, NEW c \in Chars, NEW s \in Sids,
             OpenNew(w, c, s)
      PROVE  OpeningInv'
    BY <1>3 DEF OpenNew, Issued, Standing, Connected
<1>4. ASSUME NEW w \in Conns, OpenConnected(w)
      PROVE  OpeningInv'
    BY <1>4 DEF OpenConnected, Emit, Joins
<1>5. ASSUME NEW w \in Conns, OpenRefused(w)
      PROVE  OpeningInv'
    BY <1>5 DEF OpenRefused
<1>6. ASSUME NEW w \in Conns, OpenLoginFails(w)
      PROVE  OpeningInv'
    BY <1>6 DEF OpenLoginFails
<1>7. ASSUME NEW w \in Conns, NEW s \in Sids, CloseRequest(w, s)
      PROVE  OpeningInv'
    BY <1>7 DEF CloseRequest, HasWriter, CloseSession, Unindex, Disarm,
       CancelRecv, Hangup
<1>8. ASSUME NEW w \in Conns, CloseEnd(w)
      PROVE  OpeningInv'
    BY <1>8 DEF CloseEnd, Gathered
<1>9. ASSUME NEW w \in Conns, WsEnd(w)
      PROVE  OpeningInv'
    BY <1>9 DEF WsEnd, Detached
<1>10. ASSUME NEW s \in Sids, TimerFire(s)
       PROVE  OpeningInv'
    BY <1>10 DEF TimerFire, CloseSession, Unindex, Disarm, CancelRecv,
       Hangup
<1>11. ASSUME NEW s \in Sids, PeerDrops(s)
       PROVE  OpeningInv'
    BY <1>11 DEF PeerDrops
<1>12. ASSUME NEW s \in Sids, RecvBye(s)
       PROVE  OpeningInv'
    BY <1>12 DEF RecvBye, Emit
<1>13. ASSUME NEW s \in Sids, RecvEof(s)
       PROVE  OpeningInv'
    BY <1>13 DEF RecvEof, Emit
<1>14. ASSUME NEW s \in Sids, RecvAnswerFails(s)
       PROVE  OpeningInv'
    BY <1>14 DEF RecvAnswerFails, Emit
<1>15. ASSUME NEW s \in Sids, RecvCancelled(s)
       PROVE  OpeningInv'
    BY <1>15 DEF RecvCancelled, Emit
<1>16. ASSUME NEW s \in Sids, ShutdownClose(s)
       PROVE  OpeningInv'
    BY SMTT(60), <1>16 DEF ShutdownClose, CloseSession, Unindex, Disarm, CancelRecv,
       Hangup, Farewell, Connected
<1>17. ASSUME NEW s \in Sids, ShutdownSkip(s)
       PROVE  OpeningInv'
    BY <1>17 DEF ShutdownSkip
<1>18. CASE ShutdownBegin
    BY <1>18 DEF ShutdownBegin, Snapshot
<1>19. CASE ShutdownNext
    BY <1>19 DEF ShutdownNext, Gathered
<1>20. CASE UNCHANGED vars
    BY <1>20 DEF vars
<1>21. QED
    BY <1>1, <1>2, <1>3, <1>4, <1>5, <1>6, <1>7, <1>8, <1>9, <1>10, <1>11,
       <1>12, <1>13, <1>14, <1>15, <1>16, <1>17, <1>18, <1>19, <1>20
       DEF Next, WsStep, SessionStep, Finish, RecvEnds, ShutdownSweeps
-----------------------------------------------------------------------------
(* Links come up only for registered sessions and go with them, and so do  *)
(* receive loops; while the peer holds a link, its socket is open.         *)
LinkInv ==
    /\ LinkOwned
    /\ \A s \in Sids : recv[s] = "running" => s \in sessions
    /\ \A s \in Sids : link[s] = "up" => sock[s] = "open"

LEMMA LinkInductive ==
    ASSUME TypeOK, RegistryInv, TimerIffDetached, OpeningInv, LinkInv, [Next]_vars
    PROVE  LinkInv'
<1> USE ConstantsAssumption
    DEF TypeOK, RegistryInv, IndexSound, TimerIffDetached, OpeningInv, LinkInv,
        LinkOwned, HasWriter, registry, transport, browser, sweeping
<1>1. ASSUME NEW w \in Conns, WsAccept(w)
      PROVE  LinkInv'
    BY <1>1 DEF WsAccept
<1>2. ASSUME NEW w \in Conns, NEW c \in Chars, OpenReattach(w, c)
      PROVE  LinkInv'
    BY <1>2 DEF OpenReattach, Standing, Connected, Disarm, Joins
<1>3. ASSUME NEW w \in Conns, NEW c \in Chars, NEW s \in Sids,
             OpenNew(w, c, s)
      PROVE  LinkInv'
    BY <1>3 DEF OpenNew, Issued, Standing, Connected
<1>4. ASSUME NEW w \in Conns, OpenConnected(w)
      PROVE  LinkInv'
    BY <1>4 DEF OpenConnected, Emit, Joins
<1>5. ASSUME NEW w \in Conns, OpenRefused(w)
      PROVE  LinkInv'
    BY <1>5 DEF OpenRefused
<1>6. ASSUME NEW w \in Conns, OpenLoginFails(w)
      PROVE  LinkInv'
    BY <1>6 DEF OpenLoginFails
<1>7. ASSUME NEW w \in Conns, NEW s \in Sids, CloseRequest(w, s)
      PROVE  LinkInv'
    BY <1>7 DEF CloseRequest, HasWriter, CloseSession, Unindex, Disarm,
       CancelRecv, Hangup
<1>8. ASSUME NEW w \in Conns, CloseEnd(w)
      PROVE  LinkInv'
    BY <1>8 DEF CloseEnd, Gathered
<1>9. ASSUME NEW w \in Conns, WsEnd(w)
      PROVE  LinkInv'
    BY <1>9 DEF WsEnd, Detached
<1>10. ASSUME NEW s \in Sids, TimerFire(s)
       PROVE  LinkInv'
    BY <1>10 DEF TimerFire, CloseSession, Unindex, Disarm, CancelRecv,
       Hangup
<1>11. ASSUME NEW s \in Sids, PeerDrops(s)
       PROVE  LinkInv'
    BY <1>11 DEF PeerDrops
<1>12. ASSUME NEW s \in Sids, RecvBye(s)
       PROVE  LinkInv'
    BY <1>12 DEF RecvBye, Emit
<1>13. ASSUME NEW s \in Sids, RecvEof(s)
       PROVE  LinkInv'
    BY <1>13 DEF RecvEof, Emit
<1>14. ASSUME NEW s \in Sids, RecvAnswerFails(s)
       PROVE  LinkInv'
    BY <1>14 DEF RecvAnswerFails, Emit
<1>15. ASSUME NEW s \in Sids, RecvCancelled(s)
       PROVE  LinkInv'
    BY <1>15 DEF RecvCancelled, Emit
<1>16. ASSUME NEW s \in Sids, ShutdownClose(s)
       PROVE  LinkInv'
    BY <1>16 DEF ShutdownClose, CloseSession, Unindex, Disarm, CancelRecv,
       Hangup, Farewell, Connected
<1>17. ASSUME NEW s \in Sids, ShutdownSkip(s)
       PROVE  LinkInv'
    BY <1>17 DEF ShutdownSkip
<1>18. CASE ShutdownBegin
    BY <1>18 DEF ShutdownBegin, Snapshot
<1>19. CASE ShutdownNext
    BY <1>19 DEF ShutdownNext, Gathered
<1>20. CASE UNCHANGED vars
    BY <1>20 DEF vars
<1>21. QED
    BY <1>1, <1>2, <1>3, <1>4, <1>5, <1>6, <1>7, <1>8, <1>9, <1>10, <1>11,
       <1>12, <1>13, <1>14, <1>15, <1>16, <1>17, <1>18, <1>19, <1>20
       DEF Next, WsStep, SessionStep, Finish, RecvEnds, ShutdownSweeps

(* No dead connection holds a session, because the session a finished      *)
(* close request takes off its list is no longer registered.               *)
HolderInv ==
    /\ NoDeadHolder
    /\ \A w \in Conns : ws[w] = "closing" => cur[w] \notin sessions /\ key[cur[w]] # Null

LEMMA HolderInductive ==
    ASSUME TypeOK, RegistryInv, OpeningInv, HolderInv, [Next]_vars
    PROVE  HolderInv'
<1> USE ConstantsAssumption
    DEF TypeOK, RegistryInv, OpeningInv, HolderInv, NoDeadHolder, Live, registry,
        transport, browser, sweeping
<1>1. ASSUME NEW w \in Conns, WsAccept(w)
      PROVE  HolderInv'
    BY <1>1 DEF WsAccept
<1>2. ASSUME NEW w \in Conns, NEW c \in Chars, OpenReattach(w, c)
      PROVE  HolderInv'
    BY <1>2 DEF OpenReattach, Standing, Connected, Disarm, Joins
<1>3. ASSUME NEW w \in Conns, NEW c \in Chars, NEW s \in Sids,
             OpenNew(w, c, s)
      PROVE  HolderInv'
    BY <1>3 DEF OpenNew, Issued, Standing, Connected
<1>4. ASSUME NEW w \in Conns, OpenConnected(w)
      PROVE  HolderInv'
    BY <1>4 DEF OpenConnected, Emit, Joins
<1>5. ASSUME NEW w \in Conns, OpenRefused(w)
      PROVE  HolderInv'
    BY <1>5 DEF OpenRefused
<1>6. ASSUME NEW w \in Conns, OpenLoginFails(w)
      PROVE  HolderInv'
    BY <1>6 DEF OpenLoginFails
<1>7. ASSUME NEW w \in Conns, NEW s \in Sids, CloseRequest(w, s)
      PROVE  HolderInv'
    BY <1>7 DEF CloseRequest, HasWriter, CloseSession, Unindex, Disarm,
       CancelRecv, Hangup
<1>8. ASSUME NEW w \in Conns, CloseEnd(w)
      PROVE  HolderInv'
    BY <1>8 DEF CloseEnd, Gathered
<1>9. ASSUME NEW w \in Conns, WsEnd(w)
      PROVE  HolderInv'
    BY <1>9 DEF WsEnd, Detached
<1>10. ASSUME NEW s \in Sids, TimerFire(s)
       PROVE  HolderInv'
    BY <1>10 DEF TimerFire, CloseSession, Unindex, Disarm, CancelRecv,
       Hangup
<1>11. ASSUME NEW s \in Sids, PeerDrops(s)
       PROVE  HolderInv'
    BY <1>11 DEF PeerDrops
<1>12. ASSUME NEW s \in Sids, RecvBye(s)
       PROVE  HolderInv'
    BY <1>12 DEF RecvBye, Emit
<1>13. ASSUME NEW s \in Sids, RecvEof(s)
       PROVE  HolderInv'
    BY <1>13 DEF RecvEof, Emit
<1>14. ASSUME NEW s \in Sids, RecvAnswerFails(s)
       PROVE  HolderInv'
    BY <1>14 DEF RecvAnswerFails, Emit
<1>15. ASSUME NEW s \in Sids, RecvCancelled(s)
       PROVE  HolderInv'
    BY <1>15 DEF RecvCancelled, Emit
<1>16. ASSUME NEW s \in Sids, ShutdownClose(s)
       PROVE  HolderInv'
    BY <1>16 DEF ShutdownClose, CloseSession, Unindex, Disarm, CancelRecv,
       Hangup, Farewell, Connected
<1>17. ASSUME NEW s \in Sids, ShutdownSkip(s)
       PROVE  HolderInv'
    BY <1>17 DEF ShutdownSkip
<1>18. CASE ShutdownBegin
    BY <1>18 DEF ShutdownBegin, Snapshot
<1>19. CASE ShutdownNext
    BY <1>19 DEF ShutdownNext, Gathered
<1>20. CASE UNCHANGED vars
    BY <1>20 DEF vars
<1>21. QED
    BY <1>1, <1>2, <1>3, <1>4, <1>5, <1>6, <1>7, <1>8, <1>9, <1>10, <1>11,
       <1>12, <1>13, <1>14, <1>15, <1>16, <1>17, <1>18, <1>19, <1>20
       DEF Next, WsStep, SessionStep, Finish, RecvEnds, ShutdownSweeps

(* Once shutdown() has taken its list, nothing is registered beside it.    *)
ShutdownInv ==
    /\ ShutdownClean
    /\ down # "no" => sessions \subseteq todo
    /\ down = "done" => todo = {}

LEMMA ShutdownInductive ==
    ASSUME TypeOK, OpeningInv, LinkOwned, LinkOwned', ShutdownInv, [Next]_vars
    PROVE  ShutdownInv'
<1> USE DEF TypeOK, OpeningInv, LinkOwned, ShutdownInv, ShutdownClean, Live, registry,
            transport, browser, sweeping
<1>1. ASSUME NEW w \in Conns, WsAccept(w)
      PROVE  ShutdownInv'
    BY <1>1 DEF WsAccept
<1>2. ASSUME NEW w \in Conns, NEW c \in Chars, OpenReattach(w, c)
      PROVE  ShutdownInv'
    BY <1>2 DEF OpenReattach, Standing, Connected, Disarm, Joins
<1>3. ASSUME NEW w \in Conns, NEW c \in Chars, NEW s \in Sids,
             OpenNew(w, c, s)
      PROVE  ShutdownInv'
    BY <1>3 DEF OpenNew, Issued, Standing, Connected
<1>4. ASSUME NEW w \in Conns, OpenConnected(w)
      PROVE  ShutdownInv'
    BY <1>4 DEF OpenConnected, Emit, Joins
<1>5. ASSUME NEW w \in Conns, OpenRefused(w)
      PROVE  ShutdownInv'
    BY <1>5 DEF OpenRefused
<1>6. ASSUME NEW w \in Conns, OpenLoginFails(w)
      PROVE  ShutdownInv'
    BY <1>6 DEF OpenLoginFails
<1>7. ASSUME NEW w \in Conns, NEW s \in Sids, CloseRequest(w, s)
      PROVE  ShutdownInv'
    BY <1>7 DEF CloseRequest, HasWriter, CloseSession, Unindex, Disarm,
       CancelRecv, Hangup
<1>8. ASSUME NEW w \in Conns, CloseEnd(w)
      PROVE  ShutdownInv'
    BY <1>8 DEF CloseEnd, Gathered
<1>9. ASSUME NEW w \in Conns, WsEnd(w)
      PROVE  ShutdownInv'
    BY <1>9 DEF WsEnd, Detached
<1>10. ASSUME NEW s \in Sids, TimerFire(s)
       PROVE  ShutdownInv'
    BY <1>10 DEF TimerFire, CloseSession, Unindex, Disarm, CancelRecv,
       Hangup
<1>11. ASSUME NEW s \in Sids, PeerDrops(s)
       PROVE  ShutdownInv'
    BY <1>11 DEF PeerDrops
<1>12. ASSUME NEW s \in Sids, RecvBye(s)
       PROVE  ShutdownInv'
    BY <1>12 DEF RecvBye, Emit
<1>13. ASSUME NEW s \in Sids, RecvEof(s)
       PROVE  ShutdownInv'
    BY <1>13 DEF RecvEof, Emit
<1>14. ASSUME NEW s \in Sids, RecvAnswerFails(s)
       PROVE  ShutdownInv'
    BY <1>14 DEF RecvAnswerFails, Emit
<1>15. ASSUME NEW s \in Sids, RecvCancelled(s)
       PROVE  ShutdownInv'
    BY <1>15 DEF RecvCancelled, Emit
<1>16. ASSUME NEW s \in Sids, ShutdownClose(s)
       PROVE  ShutdownInv'
    BY <1>16 DEF ShutdownClose, CloseSession, Unindex, Disarm, CancelRecv,
       Hangup, Farewell, Connected
<1>17. ASSUME NEW s \in Sids, ShutdownSkip(s)
       PROVE  ShutdownInv'
    BY <1>17 DEF ShutdownSkip
<1>18. CASE ShutdownBegin
    BY <1>18 DEF ShutdownBegin, Snapshot
<1>19. CASE ShutdownNext
    BY <1>19 DEF ShutdownNext, Gathered
<1>20. CASE UNCHANGED vars
    BY <1>20 DEF vars
<1>21. QED
    BY <1>1, <1>2, <1>3, <1>4, <1>5, <1>6, <1>7, <1>8, <1>9, <1>10, <1>11,
       <1>12, <1>13, <1>14, <1>15, <1>16, <1>17, <1>18, <1>19, <1>20
       DEF Next, WsStep, SessionStep, Finish, RecvEnds, ShutdownSweeps
-----------------------------------------------------------------------------
(* The inductive invariant of the session manager, in its named parts. *)
IInv ==
    /\ TypeOK
    /\ RegistryInv
    /\ TimerIffDetached
    /\ OpeningInv
    /\ LinkInv
    /\ HolderInv
    /\ ShutdownInv

LEMMA Invariance == Spec => []IInv
<1>1. Init => RegistryInv /\ TimerIffDetached /\ OpeningInv
    BY DEF Init, RegistryInv, IndexSound, TimerIffDetached, OpeningInv, Live
<1>2. Init => LinkInv /\ HolderInv /\ ShutdownInv
    BY DEF Init, LinkInv, LinkOwned, HasWriter, HolderInv, NoDeadHolder,
       ShutdownInv, ShutdownClean
<1>3. TypeOK /\ IInv /\ [Next]_vars /\ TypeOK' => IInv'
    <2> SUFFICES ASSUME TypeOK, IInv, [Next]_vars, TypeOK'
                 PROVE  IInv'
        OBVIOUS
    <2>1. RegistryInv' /\ TimerIffDetached' /\ OpeningInv'
        BY RegistryInductive, TimerInductive, OpeningInductive DEF IInv
    <2>2. LinkInv' /\ HolderInv'
        BY LinkInductive, HolderInductive DEF IInv
    <2>3. ShutdownInv'
        BY <2>2, ShutdownInductive DEF IInv, LinkInv
    <2>4. QED
        BY <2>1, <2>2, <2>3 DEF IInv
<1>4. TypeOK /\ Init => IInv
    BY <1>1, <1>2 DEF IInv
<1>5. QED
    BY <1>3, <1>4, TypeCorrect, PTL DEF Spec

(* No connection to the legacy server is open without a registered session *)
(* through which it can be closed.                                         *)
THEOREM LinksAreOwned == Spec => []LinkOwned
<1>1. IInv => LinkOwned
    BY DEF IInv, LinkInv
<1>2. QED
    BY <1>1, Invariance, PTL

(* A session whose login went through is parked, or held by a connection   *)
(* that is alive and will detach it.                                       *)
THEOREM HoldersAreAlive == Spec => []NoDeadHolder
<1>1. IInv => NoDeadHolder
    BY DEF IInv, HolderInv
<1>2. QED
    BY <1>1, Invariance, PTL

(* After the shutdown sweep nothing is registered and no link is open.     *)
THEOREM ShutdownIsClean == Spec => []ShutdownClean
<1>1. IInv => ShutdownClean
    BY DEF IInv, ShutdownInv
<1>2. QED
    BY <1>1, Invariance, PTL

(* A link that the legacy server still holds is cut only by the timer.     *)
LEMMA CutStep ==
    ASSUME IInv, [Next]_vars, NEW x \in Sids, link[x] = "up", link'[x] = "cut"
    PROVE  TimerFire(x)
<1> DEFINE Cut == TimerFire(x)
<1> USE DEF IInv, TypeOK, LinkInv, registry, transport, browser, sweeping
<1>1. ASSUME NEW w \in Conns, WsAccept(w)
      PROVE  Cut
    BY <1>1 DEF WsAccept
<1>2. ASSUME NEW w \in Conns, NEW c \in Chars, OpenReattach(w, c)
      PROVE  Cut
    BY <1>2 DEF OpenReattach
<1>3. ASSUME NEW w \in Conns, NEW c \in Chars, NEW s \in Sids, OpenNew(w, c, s)
      PROVE  Cut
    BY <1>3 DEF OpenNew
<1>4. ASSUME NEW w \in Conns, OpenConnected(w)
      PROVE  Cut
    BY <1>4 DEF OpenConnected
<1>5. ASSUME NEW w \in Conns, OpenRefused(w)
      PROVE  Cut
    BY <1>5 DEF OpenRefused
<1>6. ASSUME NEW w \in Conns, OpenLoginFails(w)
      PROVE  Cut
    BY <1>6 DEF OpenLoginFails
<1>7. ASSUME NEW w \in Conns, NEW s \in Sids, CloseRequest(w, s)
      PROVE  Cut
    BY <1>7 DEF CloseRequest, CloseSession, Hangup
<1>8. ASSUME NEW w \in Conns, CloseEnd(w)
      PROVE  Cut
    BY <1>8 DEF CloseEnd
<1>9. ASSUME NEW w \in Conns, WsEnd(w)
      PROVE  Cut
    BY <1>9 DEF WsEnd
<1>10. ASSUME NEW s \in Sids, TimerFire(s)
       PROVE  Cut
    BY <1>10 DEF TimerFire, CloseSession, Hangup
<1>11. ASSUME NEW s \in Sids, PeerDrops(s)
       PROVE  Cut
    BY <1>11 DEF PeerDrops
<1>12. ASSUME NEW s \in Sids, RecvBye(s)
       PROVE  Cut
    BY <1>12 DEF RecvBye
<1>13. ASSUME NEW s \in Sids, RecvEof(s)
       PROVE  Cut
    BY <1>13 DEF RecvEof
<1>14. ASSUME NEW s \in Sids, RecvAnswerFails(s)
       PROVE  Cut
    BY <1>14 DEF RecvAnswerFails
<1>15. ASSUME NEW s \in Sids, RecvCancelled(s)
       PROVE  Cut
    BY <1>15 DEF RecvCancelled
<1>16. ASSUME NEW s \in Sids, ShutdownClose(s)
       PROVE  Cut
    BY <1>16 DEF ShutdownClose, CloseSession, Hangup, Farewell, Connected
<1>17. ASSUME NEW s \in Sids, ShutdownSkip(s)
       PROVE  Cut
    BY <1>17 DEF ShutdownSkip
<1>18. CASE ShutdownBegin
    BY <1>18 DEF ShutdownBegin
<1>19. CASE ShutdownNext
    BY <1>19 DEF ShutdownNext
<1>20. CASE UNCHANGED vars
    BY <1>20 DEF vars, registry, transport, browser, sweeping
<1>21. QED
    BY <1>1, <1>2, <1>3, <1>4, <1>5, <1>6, <1>7, <1>8, <1>9, <1>10, <1>11,
       <1>12, <1>13, <1>14, <1>15, <1>16, <1>17, <1>18, <1>19, <1>20
       DEF Next, WsStep, SessionStep, Finish, RecvEnds, ShutdownSweeps

(* The only close without #x of a character the server still has online is *)
(* the one of its own detach timer.                                        *)
THEOREM CutsAreTimeouts == Spec => CutOnlyByTimer
<1>1. IInv /\ [Next]_vars
          => [\A s \in Sids : link[s] = "up" /\ link'[s] = "cut" => TimerFire(s)]_vars
    BY CutStep
<1>2. QED
    BY <1>1, Invariance, PTL DEF Spec, CutOnlyByTimer
-----------------------------------------------------------------------------
(* Steps that issue, register and forget nothing, start no receive loop,   *)
(* move no subscriber and end no connection do not show in the lease.      *)
LEMMA LeaseStutter ==
    ASSUME UNCHANGED <<sessions, key, onEvent>>,
           \A s \in Sids : recv'[s] = "none" <=> recv[s] = "none",
           \A w \in Conns : ws'[w] = "ended" <=> ws[w] = "ended"
    PROVE  UNCHANGED Lease!vars
BY DEF Lease!vars, LifeOf

(* A session that close_session forgets is gone from the lease, and no     *)
(* other session changes.                                                  *)
LEMMA LeaseClose ==
    ASSUME IInv, NEW s \in sessions,
           sessions' = sessions \ {s},
           recv' = [recv EXCEPT ![s] = IF @ = "running" THEN "cancelled" ELSE @],
           UNCHANGED <<key, onEvent>>
    PROVE  /\ [x \in Sids |-> LifeOf(x)]' =
                  [[x \in Sids |-> LifeOf(x)] EXCEPT ![s] = "gone"]
           /\ Lease!Registered(s)
<1> USE ConstantsAssumption DEF IInv, TypeOK, RegistryInv, IndexSound
<1>1. LifeOf(s)' = "gone"
    BY DEF LifeOf
<1>2. \A x \in Sids \ {s} : LifeOf(x)' = LifeOf(x)
    BY DEF LifeOf
<1>3. [x \in Sids |-> LifeOf(x)]' =
          [[x \in Sids |-> LifeOf(x)] EXCEPT ![s] = "gone"]
    BY <1>1, <1>2
<1>4. Lease!Registered(s)
    BY DEF LifeOf, Lease!Registered
<1>5. QED
    BY <1>3, <1>4

(* Every step of SessionManager is a step of the lease or does not show in *)
(* it.                                                                     *)
LEMMA LeaseStep ==
    ASSUME IInv, [Next]_vars
    PROVE  [Lease!Next]_(Lease!vars)
<1> USE ConstantsAssumption
    DEF IInv, TypeOK, RegistryInv, IndexSound, registry, transport, browser, sweeping
<1>1. ASSUME NEW w \in Conns, WsAccept(w)
      PROVE  [Lease!Next]_(Lease!vars)
    BY <1>1, LeaseStutter DEF WsAccept
<1>2. ASSUME NEW w \in Conns, NEW c \in Chars, OpenReattach(w, c)
      PROVE  [Lease!Next]_(Lease!vars)
    <2> DEFINE s == byChar[c]
    <2>1. s \in sessions /\ w \in Conns /\ ws[w] = "idle"
        BY <1>2 DEF OpenReattach, Standing
    <2>2. onEvent' = [onEvent EXCEPT ![s] = w] /\ UNCHANGED <<sessions, key, recv, ws>>
        BY <1>2 DEF OpenReattach
    <2>3. Lease!Take(s, w)
        BY <2>1, <2>2 DEF Lease!Take, Lease!Registered, LifeOf
    <2>4. QED
        BY <2>1, <2>3 DEF Lease!Next
<1>3. ASSUME NEW w \in Conns, NEW c \in Chars, NEW s \in Sids,
             OpenNew(w, c, s)
      PROVE  [Lease!Next]_(Lease!vars)
    <2>1. /\ key[s] = Null /\ s \notin sessions /\ ws[w] = "idle"
          /\ recv[s] = "none"
        BY <1>3 DEF OpenNew, Issued, OpeningInv
    <2>2. /\ key' = [key EXCEPT ![s] = c]
          /\ sessions' = sessions \cup {s}
          /\ onEvent' = [onEvent EXCEPT ![s] = w]
          /\ ws' = [ws EXCEPT ![w] = "connecting"]
          /\ UNCHANGED recv
        BY <1>3 DEF OpenNew
    <2>3. LifeOf(s)' = "opening"
        BY <2>1, <2>2 DEF LifeOf
    <2>4. \A x \in Sids \ {s} : LifeOf(x)' = LifeOf(x)
        BY <2>1, <2>2 DEF LifeOf
    <2>5. [x \in Sids |-> LifeOf(x)]' = [[x \in Sids |-> LifeOf(x)] EXCEPT
                 ![s] = "opening"]
        BY <2>3, <2>4
    <2>6. {v \in Conns : ws[v] = "ended"}' = {v \in Conns : ws[v] = "ended"}
        BY <2>1, <2>2
    <2>7. [x \in Sids |-> LifeOf(x)][s] = "unborn"
        BY <2>1 DEF LifeOf
    <2>8. Lease!Grant(s, w)
        BY <2>1, <2>2, <2>5, <2>6, <2>7 DEF Lease!Grant
    <2>9. QED
        BY <2>1, <2>8 DEF Lease!Next
<1>4. ASSUME NEW w \in Conns, OpenConnected(w)
      PROVE  [Lease!Next]_(Lease!vars)
    <2>0. PICK s \in Sids : s = cur[w]
        BY <1>4 DEF OpenConnected
    <2>1. s \in sessions /\ key[s] # Null /\ onEvent[s] = w /\ recv[s] = "none"
        BY <1>4, <2>0 DEF OpenConnected, OpeningInv
    <2>2. /\ recv' = [recv EXCEPT ![s] = "running"]
          /\ ws[w] = "connecting" /\ ws' = [ws EXCEPT ![w] = "idle"]
          /\ UNCHANGED <<sessions, key, onEvent>>
        BY <1>4, <2>0 DEF OpenConnected
    <2>3. LifeOf(s)' = "live"
        BY <2>1, <2>2 DEF LifeOf
    <2>4. \A x \in Sids \ {s} : LifeOf(x)' = LifeOf(x)
        BY <2>1, <2>2 DEF LifeOf
    <2>5. [x \in Sids |-> LifeOf(x)]' = [[x \in Sids |-> LifeOf(x)] EXCEPT ![s] = "live"]
        BY <2>3, <2>4
    <2>6. {v \in Conns : ws[v] = "ended"}' = {v \in Conns : ws[v] = "ended"}
        BY <2>1, <2>2
    <2>7. [x \in Sids |-> LifeOf(x)][s] = "opening"
        BY <2>1 DEF LifeOf
    <2>8. Lease!Establish(s)
        BY <2>1, <2>2, <2>5, <2>6, <2>7 DEF Lease!Establish
    <2>9. QED
        BY <2>1, <2>8 DEF Lease!Next
<1>5. ASSUME NEW w \in Conns, OpenRefused(w)
      PROVE  [Lease!Next]_(Lease!vars)
    BY <1>5, LeaseStutter DEF OpenRefused
<1>6. ASSUME NEW w \in Conns, OpenLoginFails(w)
      PROVE  [Lease!Next]_(Lease!vars)
    BY <1>6, LeaseStutter DEF OpenLoginFails
<1>7. ASSUME NEW w \in Conns, NEW s \in Sids, CloseRequest(w, s)
      PROVE  [Lease!Next]_(Lease!vars)
    <2>1. s \in sessions /\ ws[w] = "idle" /\ ws' = [ws EXCEPT ![w] = "closing"]
        BY <1>7 DEF CloseRequest
    <2>2. /\ sessions' = sessions \ {s}
          /\ recv' = [recv EXCEPT ![s] = IF @ = "running" THEN "cancelled" ELSE @]
          /\ UNCHANGED <<key, onEvent>>
        BY <1>7 DEF CloseRequest, CloseSession, CancelRecv
    <2>3. {v \in Conns : ws[v] = "ended"}' = {v \in Conns : ws[v] = "ended"}
        BY <2>1, <2>2
    <2>4. /\ [x \in Sids |-> LifeOf(x)]' =
                 [[x \in Sids |-> LifeOf(x)] EXCEPT ![s] = "gone"]
          /\ Lease!Registered(s)
        BY <2>1, <2>2, LeaseClose
    <2>5. Lease!End(s, w)
        BY <2>1, <2>2, <2>3, <2>4 DEF Lease!End
    <2>6. QED
        BY <2>1, <2>5 DEF Lease!Next
<1>8. ASSUME NEW w \in Conns, CloseEnd(w)
      PROVE  [Lease!Next]_(Lease!vars)
    BY <1>8, LeaseStutter DEF CloseEnd
<1>9. ASSUME NEW w \in Conns, WsEnd(w)
      PROVE  [Lease!Next]_(Lease!vars)
    <2> DEFINE S == Detached(w)
    <2>1. /\ ws[w] = "idle" /\ ws' = [ws EXCEPT ![w] = "ended"]
          /\ onEvent' = [s \in Sids |-> IF s \in S THEN Null ELSE onEvent[s]]
          /\ UNCHANGED <<sessions, key, recv>>
        BY <1>9 DEF WsEnd
    <2>2. S \in SUBSET {s \in Sids : s \in sessions}
        BY DEF Detached
    <2>3. \A s \in sessions : recv[s] # "none" /\ onEvent[s] = w => s \in S
        BY DEF Detached, HolderInv, NoDeadHolder
    <2>4. {s \in Sids : Lease!Registered(s)} = {s \in Sids : s \in sessions}
        BY DEF Lease!Registered, LifeOf
    <2>5. {s \in Sids : [t \in Sids |-> LifeOf(t)][s] = "live" /\ onEvent[s] = w}
              \subseteq S
        BY <2>3 DEF LifeOf
    <2>6. [s \in Sids |-> LifeOf(s)]' = [s \in Sids |-> LifeOf(s)]
        BY <2>1 DEF LifeOf
    <2>7. {v \in Conns : ws[v] = "ended"}' = {v \in Conns : ws[v] = "ended"} \cup {w}
        BY <2>1
    <2>8. \E T \in SUBSET {s \in Sids : Lease!Registered(s)} :
              /\ {s \in Sids : [t \in Sids |-> LifeOf(t)][s] = "live" /\ onEvent[s] = w}
                 \subseteq T
              /\ onEvent' = [s \in Sids |-> IF s \in T THEN Null ELSE onEvent[s]]
        <3>1. S \in SUBSET {s \in Sids : Lease!Registered(s)}
            BY <2>2, <2>4
        <3>2. QED
            BY <3>1, <2>1, <2>5
    <2>9. w \notin {v \in Conns : ws[v] = "ended"}
        BY <2>1
    <2>10. Lease!Leave(w)
        BY <2>6, <2>7, <2>8, <2>9 DEF Lease!Leave
    <2>11. QED
        BY <2>10 DEF Lease!Next
<1>10. ASSUME NEW s \in Sids, TimerFire(s)
       PROVE  [Lease!Next]_(Lease!vars)
    <2>1. s \in sessions /\ onEvent[s] = Null /\ UNCHANGED ws
        BY <1>10 DEF TimerFire, TimerIffDetached
    <2>2. /\ sessions' = sessions \ {s}
          /\ recv' = [recv EXCEPT ![s] = IF @ = "running" THEN "cancelled" ELSE @]
          /\ UNCHANGED <<key, onEvent>>
        BY <1>10 DEF TimerFire, CloseSession, CancelRecv
    <2>3. {v \in Conns : ws[v] = "ended"}' = {v \in Conns : ws[v] = "ended"}
        BY <2>1, <2>2
    <2>4. /\ [x \in Sids |-> LifeOf(x)]' =
                 [[x \in Sids |-> LifeOf(x)] EXCEPT ![s] = "gone"]
          /\ Lease!Registered(s)
        BY <2>1, <2>2, LeaseClose
    <2>5. Lease!Expire(s)
        BY <2>1, <2>2, <2>3, <2>4 DEF Lease!Expire
    <2>6. QED
        BY <2>1, <2>5 DEF Lease!Next
<1>11. ASSUME NEW s \in Sids, PeerDrops(s)
       PROVE  [Lease!Next]_(Lease!vars)
    BY <1>11, LeaseStutter DEF PeerDrops
<1>12. ASSUME NEW s \in Sids, RecvBye(s)
       PROVE  [Lease!Next]_(Lease!vars)
    BY <1>12, LeaseStutter DEF RecvBye
<1>13. ASSUME NEW s \in Sids, RecvEof(s)
       PROVE  [Lease!Next]_(Lease!vars)
    BY <1>13, LeaseStutter DEF RecvEof
<1>14. ASSUME NEW s \in Sids, RecvAnswerFails(s)
       PROVE  [Lease!Next]_(Lease!vars)
    BY <1>14, LeaseStutter DEF RecvAnswerFails
<1>15. ASSUME NEW s \in Sids, RecvCancelled(s)
       PROVE  [Lease!Next]_(Lease!vars)
    BY <1>15, LeaseStutter DEF RecvCancelled
<1>16. ASSUME NEW s \in Sids, ShutdownClose(s)
       PROVE  [Lease!Next]_(Lease!vars)
    <2>1. /\ s \in sessions /\ UNCHANGED ws
          /\ \A t \in sessions : recv[t] # "none" => onEvent[t] = Null
        BY <1>16 DEF ShutdownClose, OpeningInv, HolderInv, NoDeadHolder
    <2>2. /\ sessions' = sessions \ {s}
          /\ recv' = [recv EXCEPT ![s] = IF @ = "running" THEN "cancelled" ELSE @]
          /\ UNCHANGED <<key, onEvent>>
        BY <1>16 DEF ShutdownClose, CloseSession, CancelRecv
    <2>3. {v \in Conns : ws[v] = "ended"}' = {v \in Conns : ws[v] = "ended"}
        BY <2>1, <2>2
    <2>4. /\ [x \in Sids |-> LifeOf(x)]' =
                 [[x \in Sids |-> LifeOf(x)] EXCEPT ![s] = "gone"]
          /\ Lease!Registered(s)
        BY <2>1, <2>2, LeaseClose
    <2>5. \A t \in Sids : [x \in Sids |-> LifeOf(x)][t] = "live" => onEvent[t] = Null
        BY <2>1 DEF LifeOf
    <2>6. Lease!Sweep(s)
        BY <2>1, <2>2, <2>3, <2>4, <2>5 DEF Lease!Sweep
    <2>7. QED
        BY <2>1, <2>6 DEF Lease!Next
<1>17. ASSUME NEW s \in Sids, ShutdownSkip(s)
       PROVE  [Lease!Next]_(Lease!vars)
    BY <1>17, LeaseStutter DEF ShutdownSkip
<1>18. CASE ShutdownBegin
    BY <1>18, LeaseStutter DEF ShutdownBegin
<1>19. CASE ShutdownNext
    BY <1>19, LeaseStutter DEF ShutdownNext
<1>20. CASE UNCHANGED vars
    BY <1>20, LeaseStutter DEF vars
<1>21. QED
    BY <1>1, <1>2, <1>3, <1>4, <1>5, <1>6, <1>7, <1>8, <1>9, <1>10, <1>11, <1>12, <1>13,
       <1>14, <1>15, <1>16, <1>17, <1>18, <1>19, <1>20
       DEF Next, WsStep, SessionStep, Finish, RecvEnds, ShutdownSweeps

(* SessionManager implements the lease: sessions are granted, taken over,  *)
(* parked when their browser leaves, and end by expiry while parked, on    *)
(* request, or in the shutdown sweep, once and for good.                   *)
THEOREM ImplementsLeaseSafety == Spec => Lease!Spec
<1>1. Init => Lease!Init
    BY DEF Init, Lease!Init, LifeOf
<1>2. IInv /\ [Next]_vars => [Lease!Next]_(Lease!vars)
    BY LeaseStep
<1>3. QED
    BY <1>1, <1>2, Invariance, PTL DEF Spec, Lease!Spec
-----------------------------------------------------------------------------
(* What holds when a browser comes back only after its WebSocket has ended *)
(* (Overlap is FALSE): one WebSocket lives at a time, and whatever it has  *)
(* opened or taken over and not closed is its own.                         *)
ClaimInv ==
    /\ \A v, w \in Live : v = w
    /\ \A w \in Conns \ Live : mine[w] = {}
    /\ \A w \in Conns : \A s \in mine[w] \cap sessions : onEvent[s] = w

LEMMA ClaimInductive ==
    ASSUME ~Overlap, TypeOK, RegistryInv, OpeningInv, ClaimInv, [Next]_vars
    PROVE  ClaimInv'
<1> USE ConstantsAssumption
    DEF TypeOK, RegistryInv, IndexSound, OpeningInv, ClaimInv, Live, registry, transport,
        browser, sweeping
<1>1. ASSUME NEW w \in Conns, WsAccept(w)
      PROVE  ClaimInv'
    BY <1>1 DEF WsAccept
<1>2. ASSUME NEW w \in Conns, NEW c \in Chars, OpenReattach(w, c)
      PROVE  ClaimInv'
    BY SMTT(60), <1>2 DEF OpenReattach, Standing, Connected, Disarm, Joins
<1>3. ASSUME NEW w \in Conns, NEW c \in Chars, NEW s \in Sids,
             OpenNew(w, c, s)
      PROVE  ClaimInv'
    BY <1>3 DEF OpenNew, Issued, Standing, Connected
<1>4. ASSUME NEW w \in Conns, OpenConnected(w)
      PROVE  ClaimInv'
    BY <1>4 DEF OpenConnected, Emit, Joins
<1>5. ASSUME NEW w \in Conns, OpenRefused(w)
      PROVE  ClaimInv'
    BY <1>5 DEF OpenRefused
<1>6. ASSUME NEW w \in Conns, OpenLoginFails(w)
      PROVE  ClaimInv'
    BY <1>6 DEF OpenLoginFails
<1>7. ASSUME NEW w \in Conns, NEW s \in Sids, CloseRequest(w, s)
      PROVE  ClaimInv'
    BY <1>7 DEF CloseRequest, HasWriter, CloseSession, Unindex, Disarm,
       CancelRecv, Hangup
<1>8. ASSUME NEW w \in Conns, CloseEnd(w)
      PROVE  ClaimInv'
    BY <1>8 DEF CloseEnd, Gathered
<1>9. ASSUME NEW w \in Conns, WsEnd(w)
      PROVE  ClaimInv'
    BY <1>9 DEF WsEnd, Detached
<1>10. ASSUME NEW s \in Sids, TimerFire(s)
       PROVE  ClaimInv'
    BY <1>10 DEF TimerFire, CloseSession, Unindex, Disarm, CancelRecv,
       Hangup
<1>11. ASSUME NEW s \in Sids, PeerDrops(s)
       PROVE  ClaimInv'
    BY <1>11 DEF PeerDrops
<1>12. ASSUME NEW s \in Sids, RecvBye(s)
       PROVE  ClaimInv'
    BY <1>12 DEF RecvBye, Emit
<1>13. ASSUME NEW s \in Sids, RecvEof(s)
       PROVE  ClaimInv'
    BY <1>13 DEF RecvEof, Emit
<1>14. ASSUME NEW s \in Sids, RecvAnswerFails(s)
       PROVE  ClaimInv'
    BY <1>14 DEF RecvAnswerFails, Emit
<1>15. ASSUME NEW s \in Sids, RecvCancelled(s)
       PROVE  ClaimInv'
    BY <1>15 DEF RecvCancelled, Emit
<1>16. ASSUME NEW s \in Sids, ShutdownClose(s)
       PROVE  ClaimInv'
    BY <1>16 DEF ShutdownClose, CloseSession, Unindex, Disarm, CancelRecv,
       Hangup, Farewell, Connected
<1>17. ASSUME NEW s \in Sids, ShutdownSkip(s)
       PROVE  ClaimInv'
    BY <1>17 DEF ShutdownSkip
<1>18. CASE ShutdownBegin
    BY <1>18 DEF ShutdownBegin, Snapshot
<1>19. CASE ShutdownNext
    BY <1>19 DEF ShutdownNext, Gathered
<1>20. CASE UNCHANGED vars
    BY <1>20 DEF vars
<1>21. QED
    BY <1>1, <1>2, <1>3, <1>4, <1>5, <1>6, <1>7, <1>8, <1>9, <1>10, <1>11,
       <1>12, <1>13, <1>14, <1>15, <1>16, <1>17, <1>18, <1>19, <1>20
       DEF Next, WsStep, SessionStep, Finish, RecvEnds, ShutdownSweeps

(* A registered session has been opened up to its login lines, or is still *)
(* waiting for its connect or was refused one; a timer sleeps only for one *)
(* that was opened.                                                        *)
StageInv ==
    /\ \A s \in sessions : sock[s] = "new" \/ link[s] \in {"up", "down"}
    /\ \A s \in Sids : timer[s] => sock[s] # "new"

LEMMA StageInductive ==
    ASSUME TypeOK, TimerIffDetached, OpeningInv, LinkInv, StageInv,
           [Next]_vars
    PROVE  StageInv'
<1> USE ConstantsAssumption
    DEF TypeOK, TimerIffDetached, OpeningInv, LinkInv, LinkOwned, HasWriter,
        StageInv, Live, registry, transport,
        browser, sweeping
<1>1. ASSUME NEW w \in Conns, WsAccept(w)
      PROVE  StageInv'
    BY <1>1 DEF WsAccept
<1>2. ASSUME NEW w \in Conns, NEW c \in Chars, OpenReattach(w, c)
      PROVE  StageInv'
    BY <1>2 DEF OpenReattach, Standing, Connected, Disarm, Joins
<1>3. ASSUME NEW w \in Conns, NEW c \in Chars, NEW s \in Sids,
             OpenNew(w, c, s)
      PROVE  StageInv'
    BY <1>3 DEF OpenNew, Issued, Standing, Connected
<1>4. ASSUME NEW w \in Conns, OpenConnected(w)
      PROVE  StageInv'
    BY <1>4 DEF OpenConnected, Emit, Joins
<1>5. ASSUME NEW w \in Conns, OpenRefused(w)
      PROVE  StageInv'
    BY <1>5 DEF OpenRefused
<1>6. ASSUME NEW w \in Conns, OpenLoginFails(w)
      PROVE  StageInv'
    BY <1>6 DEF OpenLoginFails
<1>7. ASSUME NEW w \in Conns, NEW s \in Sids, CloseRequest(w, s)
      PROVE  StageInv'
    BY <1>7 DEF CloseRequest, HasWriter, CloseSession, Unindex, Disarm,
       CancelRecv, Hangup
<1>8. ASSUME NEW w \in Conns, CloseEnd(w)
      PROVE  StageInv'
    BY <1>8 DEF CloseEnd, Gathered
<1>9. ASSUME NEW w \in Conns, WsEnd(w)
      PROVE  StageInv'
    BY <1>9 DEF WsEnd, Detached
<1>10. ASSUME NEW s \in Sids, TimerFire(s)
       PROVE  StageInv'
    BY <1>10 DEF TimerFire, CloseSession, Unindex, Disarm, CancelRecv,
       Hangup
<1>11. ASSUME NEW s \in Sids, PeerDrops(s)
       PROVE  StageInv'
    BY <1>11 DEF PeerDrops
<1>12. ASSUME NEW s \in Sids, RecvBye(s)
       PROVE  StageInv'
    BY <1>12 DEF RecvBye, Emit
<1>13. ASSUME NEW s \in Sids, RecvEof(s)
       PROVE  StageInv'
    BY <1>13 DEF RecvEof, Emit
<1>14. ASSUME NEW s \in Sids, RecvAnswerFails(s)
       PROVE  StageInv'
    BY <1>14 DEF RecvAnswerFails, Emit
<1>15. ASSUME NEW s \in Sids, RecvCancelled(s)
       PROVE  StageInv'
    BY <1>15 DEF RecvCancelled, Emit
<1>16. ASSUME NEW s \in Sids, ShutdownClose(s)
       PROVE  StageInv'
    BY <1>16 DEF ShutdownClose, CloseSession, Unindex, Disarm, CancelRecv,
       Hangup, Farewell, Connected
<1>17. ASSUME NEW s \in Sids, ShutdownSkip(s)
       PROVE  StageInv'
    BY <1>17 DEF ShutdownSkip
<1>18. CASE ShutdownBegin
    BY <1>18 DEF ShutdownBegin, Snapshot
<1>19. CASE ShutdownNext
    BY <1>19 DEF ShutdownNext, Gathered
<1>20. CASE UNCHANGED vars
    BY <1>20 DEF vars
<1>21. QED
    BY <1>1, <1>2, <1>3, <1>4, <1>5, <1>6, <1>7, <1>8, <1>9, <1>10, <1>11,
       <1>12, <1>13, <1>14, <1>15, <1>16, <1>17, <1>18, <1>19, <1>20
       DEF Next, WsStep, SessionStep, Finish, RecvEnds, ShutdownSweeps

(* No link was lost: the gateway knows of every link that has ended.       *)
NoneLost == \A s \in Sids : link[s] # "down"

(* Until the shutdown sweep the index then names every link of a character *)
(* and the session whose connect is under way, so that a second open finds *)
(* it and no two links of one character arise.                             *)
IndexedInv ==
    NoneLost =>
        /\ down = "no" =>
              /\ \A s \in Sids : link[s] = "up" => byChar[key[s]] = s
              /\ \A w \in Conns : ws[w] = "connecting" => byChar[key[cur[w]]] = cur[w]
        /\ OneLink

LEMMA IndexedInductive ==
    ASSUME ~Overlap, TypeOK, RegistryInv, TimerIffDetached, OpeningInv, LinkInv,
           ClaimInv, StageInv, IndexedInv, [Next]_vars
    PROVE  IndexedInv'
<1> USE ConstantsAssumption
    DEF TypeOK, RegistryInv, IndexSound, TimerIffDetached, OpeningInv, LinkInv,
        LinkOwned, HasWriter, ClaimInv, StageInv, IndexedInv, NoneLost, OneLink, Live, registry, transport,
        browser, sweeping
<1>1. ASSUME NEW w \in Conns, WsAccept(w)
      PROVE  IndexedInv'
    BY <1>1 DEF WsAccept
<1>2. ASSUME NEW w \in Conns, NEW c \in Chars, OpenReattach(w, c)
      PROVE  IndexedInv'
    BY <1>2 DEF OpenReattach, Standing, Connected, Disarm, Joins
<1>3. ASSUME NEW w \in Conns, NEW c \in Chars, NEW s \in Sids,
             OpenNew(w, c, s)
      PROVE  IndexedInv'
    <2>1. /\ key[s] = Null /\ s \notin sessions /\ link[s] = "none"
          /\ ws[w] = "idle" /\ ~Standing(c)
        BY <1>3 DEF OpenNew, Issued
    <2>2. /\ key' = [key EXCEPT ![s] = c]
          /\ byChar' = [byChar EXCEPT ![c] = s]
          /\ ws' = [ws EXCEPT ![w] = "connecting"]
          /\ cur' = [cur EXCEPT ![w] = s]
          /\ UNCHANGED <<link, down>>
        BY <1>3 DEF OpenNew
    <2>3. CASE ~NoneLost
        BY <2>2, <2>3
    <2>4. CASE NoneLost
        <3>1. \A t \in Sids : link[t] = "up" => t # s /\ t \in sessions
            BY <2>1
        <3>2. \A v \in Conns : ws[v] # "connecting"
            BY SMTT(60), <2>1
        <3>3. \A t \in Sids : link[t] = "up" /\ down = "no" => key[t] # c
            <4> SUFFICES ASSUME NEW t \in Sids, link[t] = "up", down = "no", key[t] = c
                         PROVE  FALSE
                OBVIOUS
            <4>1. byChar[c] = t /\ sock[t] = "open" /\ t # Null
                BY <2>4
            <4>2. QED
                BY <2>1, <4>1 DEF Standing, Connected
        <3>4. down' = "no" => \A t \in Sids : link'[t] = "up" => byChar'[key'[t]] = t
            <4> SUFFICES ASSUME NEW t \in Sids, link[t] = "up", down = "no"
                         PROVE  byChar'[key'[t]] = t
                BY <2>2
            <4>1. key'[t] = key[t] /\ key[t] # c /\ key[t] \in Chars
                BY <2>2, <3>1, <3>3
            <4>2. QED
                BY <2>2, <2>4, <4>1
        <3>5. \A v \in Conns : ws'[v] = "connecting" => byChar'[key'[cur'[v]]] = cur'[v]
            BY <2>2, <3>2
        <3>6. OneLink'
            BY <2>2, <2>4, <3>1
        <3>7. QED
            BY <3>4, <3>5, <3>6
    <2>5. QED
        BY <2>3, <2>4
<1>4. ASSUME NEW w \in Conns, OpenConnected(w)
      PROVE  IndexedInv'
    BY <1>4 DEF OpenConnected, Emit, Joins
<1>5. ASSUME NEW w \in Conns, OpenRefused(w)
      PROVE  IndexedInv'
    BY <1>5 DEF OpenRefused
<1>6. ASSUME NEW w \in Conns, OpenLoginFails(w)
      PROVE  IndexedInv'
    BY <1>6 DEF OpenLoginFails
<1>7. ASSUME NEW w \in Conns, NEW s \in Sids, CloseRequest(w, s)
      PROVE  IndexedInv'
    BY <1>7 DEF CloseRequest, HasWriter, CloseSession, Unindex, Disarm,
       CancelRecv, Hangup
<1>8. ASSUME NEW w \in Conns, CloseEnd(w)
      PROVE  IndexedInv'
    BY <1>8 DEF CloseEnd, Gathered
<1>9. ASSUME NEW w \in Conns, WsEnd(w)
      PROVE  IndexedInv'
    BY <1>9 DEF WsEnd, Detached
<1>10. ASSUME NEW s \in Sids, TimerFire(s)
       PROVE  IndexedInv'
    BY <1>10 DEF TimerFire, CloseSession, Unindex, Disarm, CancelRecv,
       Hangup
<1>11. ASSUME NEW s \in Sids, PeerDrops(s)
       PROVE  IndexedInv'
    BY <1>11 DEF PeerDrops
<1>12. ASSUME NEW s \in Sids, RecvBye(s)
       PROVE  IndexedInv'
    BY <1>12 DEF RecvBye, Emit
<1>13. ASSUME NEW s \in Sids, RecvEof(s)
       PROVE  IndexedInv'
    BY <1>13 DEF RecvEof, Emit
<1>14. ASSUME NEW s \in Sids, RecvAnswerFails(s)
       PROVE  IndexedInv'
    BY <1>14 DEF RecvAnswerFails, Emit
<1>15. ASSUME NEW s \in Sids, RecvCancelled(s)
       PROVE  IndexedInv'
    BY <1>15 DEF RecvCancelled, Emit
<1>16. ASSUME NEW s \in Sids, ShutdownClose(s)
       PROVE  IndexedInv'
    BY <1>16 DEF ShutdownClose, CloseSession, Unindex, Disarm, CancelRecv,
       Hangup, Farewell, Connected
<1>17. ASSUME NEW s \in Sids, ShutdownSkip(s)
       PROVE  IndexedInv'
    BY <1>17 DEF ShutdownSkip
<1>18. CASE ShutdownBegin
    BY <1>18 DEF ShutdownBegin, Snapshot
<1>19. CASE ShutdownNext
    BY <1>19 DEF ShutdownNext, Gathered
<1>20. CASE UNCHANGED vars
    BY <1>20 DEF vars
<1>21. QED
    BY <1>1, <1>2, <1>3, <1>4, <1>5, <1>6, <1>7, <1>8, <1>9, <1>10, <1>11,
       <1>12, <1>13, <1>14, <1>15, <1>16, <1>17, <1>18, <1>19, <1>20
       DEF Next, WsStep, SessionStep, Finish, RecvEnds, ShutdownSweeps

(* What the browser in use was told last is true.  While it waits for its  *)
(* close request to end, the cancelled receive loop of that session has    *)
(* yet to report closed.                                                   *)
ToldInv ==
    /\ \A s \in sessions : sock[s] = "open" => recv[s] = "running"
    /\ \A w \in Live, s \in Sids : told[w][s] = "connected" =>
           /\ onEvent[s] = w
           /\ IF ws[w] = "closing" /\ s = cur[w]
                THEN recv[s] = "cancelled"
                ELSE s \in sessions /\ recv[s] = "running"
    /\ \A w \in Conns, s \in Sids : ws[w] = "new" => told[w][s] # "connected"

LEMMA ToldInductive ==
    ASSUME ~Overlap, "reset" \notin Faults, TypeOK, RegistryInv, TimerIffDetached,
           OpeningInv, LinkInv, HolderInv, ClaimInv, ToldInv, [Next]_vars
    PROVE  ToldInv'
<1> USE ConstantsAssumption
    DEF TypeOK, RegistryInv, IndexSound, TimerIffDetached, OpeningInv, LinkInv,
        LinkOwned, HasWriter, HolderInv, ClaimInv, ToldInv, Live, registry, transport,
        browser, sweeping
<1>1. ASSUME NEW w \in Conns, WsAccept(w)
      PROVE  ToldInv'
    BY <1>1 DEF WsAccept
<1>2. ASSUME NEW w \in Conns, NEW c \in Chars, OpenReattach(w, c)
      PROVE  ToldInv'
    BY <1>2 DEF OpenReattach, Standing, Connected, Disarm, Joins
<1>3. ASSUME NEW w \in Conns, NEW c \in Chars, NEW s \in Sids,
             OpenNew(w, c, s)
      PROVE  ToldInv'
    BY <1>3 DEF OpenNew, Issued, Standing, Connected
<1>4. ASSUME NEW w \in Conns, OpenConnected(w)
      PROVE  ToldInv'
    BY <1>4 DEF OpenConnected, Emit, Joins
<1>5. ASSUME NEW w \in Conns, OpenRefused(w)
      PROVE  ToldInv'
    BY <1>5 DEF OpenRefused
<1>6. ASSUME NEW w \in Conns, OpenLoginFails(w)
      PROVE  ToldInv'
    BY <1>6 DEF OpenLoginFails
<1>7. ASSUME NEW w \in Conns, NEW s \in Sids, CloseRequest(w, s)
      PROVE  ToldInv'
    BY <1>7 DEF CloseRequest, HasWriter, CloseSession, Unindex, Disarm,
       CancelRecv, Hangup
<1>8. ASSUME NEW w \in Conns, CloseEnd(w)
      PROVE  ToldInv'
    BY <1>8 DEF CloseEnd, Gathered
<1>9. ASSUME NEW w \in Conns, WsEnd(w)
      PROVE  ToldInv'
    BY <1>9 DEF WsEnd, Detached
<1>10. ASSUME NEW s \in Sids, TimerFire(s)
       PROVE  ToldInv'
    BY <1>10 DEF TimerFire, CloseSession, Unindex, Disarm, CancelRecv,
       Hangup
<1>11. ASSUME NEW s \in Sids, PeerDrops(s)
       PROVE  ToldInv'
    BY <1>11 DEF PeerDrops
<1>12. ASSUME NEW s \in Sids, RecvBye(s)
       PROVE  ToldInv'
    BY <1>12 DEF RecvBye, Emit
<1>13. ASSUME NEW s \in Sids, RecvEof(s)
       PROVE  ToldInv'
    BY <1>13 DEF RecvEof, Emit
<1>14. ASSUME NEW s \in Sids, RecvAnswerFails(s)
       PROVE  ToldInv'
    BY <1>14 DEF RecvAnswerFails, Emit
<1>15. ASSUME NEW s \in Sids, RecvCancelled(s)
       PROVE  ToldInv'
    BY <1>15 DEF RecvCancelled, Emit
<1>16. ASSUME NEW s \in Sids, ShutdownClose(s)
       PROVE  ToldInv'
    BY <1>16 DEF ShutdownClose, CloseSession, Unindex, Disarm, CancelRecv,
       Hangup, Farewell, Connected
<1>17. ASSUME NEW s \in Sids, ShutdownSkip(s)
       PROVE  ToldInv'
    BY <1>17 DEF ShutdownSkip
<1>18. CASE ShutdownBegin
    BY <1>18 DEF ShutdownBegin, Snapshot
<1>19. CASE ShutdownNext
    BY <1>19 DEF ShutdownNext, Gathered
<1>20. CASE UNCHANGED vars
    BY <1>20 DEF vars
<1>21. QED
    BY <1>1, <1>2, <1>3, <1>4, <1>5, <1>6, <1>7, <1>8, <1>9, <1>10, <1>11,
       <1>12, <1>13, <1>14, <1>15, <1>16, <1>17, <1>18, <1>19, <1>20
       DEF Next, WsStep, SessionStep, Finish, RecvEnds, ShutdownSweeps

(* The inductive invariant under Overlap = FALSE; its last part needs that *)
(* no send fails before the reader has seen the end of the stream.         *)
SerialInv == IInv /\ ClaimInv /\ StageInv /\ IndexedInv

LEMMA SerialInvariance ==
    ASSUME ~Overlap
    PROVE  Spec => []SerialInv
<1>1. Init => ClaimInv /\ StageInv /\ IndexedInv
    BY DEF Init, ClaimInv, StageInv, IndexedInv, OneLink, Live
<1>2. IInv /\ ClaimInv /\ StageInv /\ IndexedInv /\ [Next]_vars
          => ClaimInv' /\ StageInv' /\ IndexedInv'
    BY ClaimInductive, StageInductive, IndexedInductive DEF IInv
<1>3. QED
    BY <1>1, <1>2, Invariance, PTL DEF Spec, SerialInv

(* While the gateway knows of every link that ended, and browsers do not   *)
(* overlap, no character is logged in twice on the legacy server.          *)
THEOREM OneLinkPerCharacter ==
    ASSUME ~Overlap
    PROVE  Spec => []OneLinkWhileNoneLost
<1>1. SerialInv => OneLinkWhileNoneLost
    BY DEF SerialInv, IndexedInv, NoneLost, OneLinkWhileNoneLost
<1>2. QED
    BY <1>1, SerialInvariance, PTL

(* Browsers that do not overlap keep what they open: the detach timer      *)
(* never closes a session that the living connection has not closed.       *)
THEOREM ClaimsAreNotReaped ==
    ASSUME ~Overlap
    PROVE  Spec => NotReapedWhileClaimed
<1>1. SerialInv /\ [Next]_vars
          => [\A s \in Sids : TimerFire(s) => \A w \in Live : s \notin mine[w]]_vars
    <2> SUFFICES ASSUME SerialInv, NEW s \in Sids, TimerFire(s), NEW w \in Live
                 PROVE  s \notin mine[w]
        OBVIOUS
    <2>1. s \in sessions /\ onEvent[s] = Null
        BY DEF TimerFire, SerialInv, IInv, TimerIffDetached
    <2>2. QED
        BY <2>1, ConstantsAssumption DEF SerialInv, ClaimInv, Live
<1>2. QED
    BY <1>1, SerialInvariance, PTL DEF Spec, NotReapedWhileClaimed

(* A browser that was told connected, and not otherwise since, has a       *)
(* registered session whose events come to it and whose link is read: if   *)
(* browsers do not overlap and a loss of the link shows first in the read. *)
THEOREM ToldIsTrue ==
    ASSUME ~Overlap, "reset" \notin Faults
    PROVE  Spec => []ConnectedIsTrue
<1>1. Init => ToldInv
    BY DEF Init, ToldInv, Live
<1>2. SerialInv /\ ToldInv /\ [Next]_vars => ToldInv'
    BY ToldInductive DEF SerialInv, IInv
<1>3. ToldInv => ConnectedIsTrue
    BY DEF ToldInv, ConnectedIsTrue
<1>4. QED
    BY <1>1, <1>2, <1>3, SerialInvariance, PTL DEF Spec
=============================================================================
