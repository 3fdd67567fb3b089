---------------------------- MODULE SessionLease ----------------------------
(***************************************************************************)
(* What the gateway promises about a character session, without sockets,   *)
(* tasks or indexes: a session is granted to one browser connection, other *)
(* connections may take it over, a connection that leaves parks what it    *)
(* holds, a parked session is taken again or expires, and a session that   *)
(* is gone stays gone.  SessionManager implements this specification.      *)
(***************************************************************************)
CONSTANTS
    Sids,     \* session ids
    Conns,    \* browser (WebSocket) connections
    Null      \* no connection

VARIABLES
    life,     \* life[s]: how far session s has come
    holder,   \* holder[s]: the connection that receives the events of s, or Null
    left      \* the connections that have ended

vars == <<life, holder, left>>

TypeOK ==
    /\ life \in [Sids -> {"unborn", "opening", "live", "gone"}]
    /\ holder \in [Sids -> Conns \cup {Null}]
    /\ left \in SUBSET Conns

Registered(s) == life[s] \in {"opening", "live"}

Init ==
    /\ life = [s \in Sids |-> "unborn"]
    /\ holder = [s \in Sids |-> Null]
    /\ left = {}

(* A connection asks for a new session; it is not usable yet. *)
Grant(s, w) ==
    /\ life[s] = "unborn"
    /\ w \notin left
    /\ life' = [life EXCEPT ![s] = "opening"]
    /\ holder' = [holder EXCEPT ![s] = w]
    /\ UNCHANGED left

(* The link of the session stands, while its connection is present. *)
Establish(s) ==
    /\ life[s] = "opening"
    /\ holder[s] \in Conns \ left
    /\ life' = [life EXCEPT ![s] = "live"]
    /\ UNCHANGED <<holder, left>>

(* Another connection, or the same one, becomes the holder. *)
Take(s, w) ==
    /\ Registered(s)
    /\ w \notin left
    /\ holder' = [holder EXCEPT ![s] = w]
    /\ UNCHANGED <<life, left>>

(* A connection ends: every live session it holds is parked in that step.  *)
(* Sessions it held before another connection took them may be parked too. *)
Leave(w) ==
    /\ w \notin left
    /\ left' = left \cup {w}
    /\ \E S \in SUBSET {s \in Sids : Registered(s)} :
          /\ {s \in Sids : life[s] = "live" /\ holder[s] = w} \subseteq S
          /\ holder' = [s \in Sids |-> IF s \in S THEN Null ELSE holder[s]]
    /\ UNCHANGED life

(* A parked session ends by itself. *)
Expire(s) ==
    /\ Registered(s)
    /\ holder[s] = Null
    /\ life' = [life EXCEPT ![s] = "gone"]
    /\ UNCHANGED <<holder, left>>

(* A session is ended at the request of a connection that is present. *)
End(s, w) ==
    /\ Registered(s)
    /\ w \notin left
    /\ life' = [life EXCEPT ![s] = "gone"]
    /\ UNCHANGED <<holder, left>>

(* The shutdown of the gateway ends sessions once nobody holds a live one. *)
Sweep(s) ==
    /\ Registered(s)
    /\ \A t \in Sids : life[t] = "live" => holder[t] = Null
    /\ life' = [life EXCEPT ![s] = "gone"]
    /\ UNCHANGED <<holder, left>>

Next ==
    \/ \E s \in Sids, w \in Conns : Grant(s, w) \/ Take(s, w) \/ End(s, w)
    \/ \E s \in Sids : Establish(s) \/ Expire(s) \/ Sweep(s)
    \/ \E w \in Conns : Leave(w)

Spec == Init /\ [][Next]_vars

(* A session that stays parked does not stay for ever. *)
FairSpec == Spec /\ \A s \in Sids : WF_vars(Expire(s))
=============================================================================
