------------------------ MODULE AccountScreensProofs ------------------------
(***************************************************************************)
(* A character is created where its graphics come from, and a screen that  *)
(* waits for nothing has its list as the service has it, for all servers,  *)
(* however many graphics they offer, and any number of logins, acts and    *)
(* failures.                                                               *)
(*                                                                         *)
(* At most one registration is waited for.  While it is, the form is busy  *)
(* and no graphics are under way, so that the target cannot change; and    *)
(* graphics under way mean that the target is unknown.                     *)
(*                                                                         *)
(* The list of a page is current, or a call that counts for it will bring  *)
(* it: a load that is not served yet or was served what is there now, or a *)
(* change that was served, whose answer starts such a load (LoadInv).      *)
(***************************************************************************)
EXTENDS AccountScreens, FiniteSetTheorems, TLAPS

Waited(c) == c.op = "register" /\ c.live

(* What a call keeps for as long as it is one. *)
IsCall(c) ==
    /\ {"op", "to", "index", "state", "result", "live"} \subseteq DOMAIN c
    /\ c.op = "graphics" =>
          c.to \in Servers /\ (c.state = "ok" => c.result = Graphics[c.to])
    /\ c.op = "register" =>
          c.to \in Servers /\ (c.index < Graphics[c.to] \/ c.index = 0)

CallsInv == \A c \in calls : IsCall(c)
OneWaits == \A c, d \in calls : Waited(c) /\ Waited(d) => c = d
WaitedIsTarget ==
    \A c \in calls : Waited(c) =>
        signedIn /\ screen = "register" /\ form.busy /\ c.to = form.target
GraphicsLoad ==
    /\ \A c \in calls : c.op = "graphics" => signedIn /\ form.loading
    /\ \A c, d \in calls : c.op = "graphics" /\ d.op = "graphics" => c = d
FormInv ==
    /\ {"typed", "target", "offers", "index", "loading", "busy"} \subseteq DOMAIN form
    /\ form.target \in Servers \cup {Nowhere}
    /\ form.typed \in Servers \cup {Nowhere}
    /\ form.loading => form.target = Nowhere
    /\ form.target # Nowhere =>
          form.offers = Graphics[form.target] /\ (form.index < form.offers \/ form.index = 0)

RegisterInv == CallsInv /\ OneWaits /\ WaitedIsTarget /\ GraphicsLoad /\ FormInv

(* A set of calls that come of others: with the same destination, but      *)
(* perhaps not waited for.                                                 *)
QuietCall(c) == IsCall(c) /\ c.op # "graphics" /\ ~Waited(c)

LEMMA OrphanedCalls ==
    ASSUME NEW cs, \A c \in cs : IsCall(c)
    PROVE  \A c \in Orphaned(cs) : QuietCall(c)
<1>1. ASSUME NEW d \in cs, d.op \notin {"get", "graphics"} PROVE QuietCall([d EXCEPT !.live = FALSE])
  <2> DEFINE c == [d EXCEPT !.live = FALSE]
  <2>1. /\ DOMAIN c = DOMAIN d /\ c.op = d.op /\ c.to = d.to /\ c.index = d.index
        /\ c.live = FALSE
    BY <1>1 DEF IsCall
  <2> HIDE DEF c
  <2>2. QuietCall(c)
    BY <1>1, <2>1 DEF QuietCall, IsCall, Waited
  <2> QED BY <2>2 DEF c
<1> QED BY <1>1 DEF Orphaned

LEMMA IssuedCalls ==
    ASSUME NEW cs, NEW c, IsCall(c)
    PROVE  \A d \in Issued(cs, c) :
             d \in cs \/ (/\ IsCall(d) /\ d.op = c.op /\ d.to = c.to /\ d.index = c.index
                          /\ d.live = c.live /\ d.state = c.state)
<1>1. ASSUME NEW n
      PROVE  LET d == [c EXCEPT !.id = n] IN
             /\ IsCall(d) /\ d.op = c.op /\ d.to = c.to /\ d.index = c.index
             /\ d.live = c.live /\ d.state = c.state
  <2> DEFINE d == [c EXCEPT !.id = n]
  <2>1. /\ DOMAIN d = DOMAIN c /\ d.op = c.op /\ d.to = c.to /\ d.index = c.index
        /\ d.live = c.live /\ d.state = c.state /\ d.result = c.result
    BY DEF IsCall
  <2> HIDE DEF d
  <2>2. IsCall(d)
    BY <2>1 DEF IsCall
  <2> QED BY <2>1, <2>2 DEF d
<1>2. PICK n : Issued(cs, c) = cs \cup {[c EXCEPT !.id = n]}
  BY DEF Issued
<1> QED BY <1>1, <1>2

(* Any call but for graphics and registrations, as the screens make it.    *)
LEMMA BlankIsCall ==
    /\ IsCall(Blank)
    /\ DOMAIN Blank = {"op", "list", "auth", "to", "index", "state", "result", "live", "frees", "id"}
    /\ Blank.op = "get" /\ Blank.state = "sent" /\ Blank.live = TRUE
  BY DEF Blank, IsCall

(* Calls of the other screens come and go. *)
LEMMA OthersKeep ==
    ASSUME RegisterInv, \A c \in calls' : c \in calls \/ QuietCall(c),
           UNCHANGED <<signedIn, screen, form>>
    PROVE  RegisterInv'
  BY DEF RegisterInv, CallsInv, OneWaits, WaitedIsTarget, GraphicsLoad, FormInv, QuietCall

LEMMA BlankFormInv ==
    ASSUME form' = BlankForm
    PROVE  FormInv'
  BY DEF FormInv, BlankForm

(* A screen that goes leaves nobody waiting. *)
LEMMA NoneWaits ==
    ASSUME RegisterInv, \A c \in calls' : QuietCall(c), form' \in {form, BlankForm}
    PROVE  RegisterInv'
<1>1. FormInv'
  BY BlankFormInv DEF RegisterInv, FormInv
<1> QED BY <1>1 DEF RegisterInv, CallsInv, OneWaits, WaitedIsTarget, GraphicsLoad, QuietCall

LEMMA MountStep ==
    ASSUME RegisterInv, NEW s, NEW tok, NEW cs, Mount(s, tok, cs),
           \A c \in cs : IsCall(c)
    PROVE  RegisterInv'
<1>1. \A c \in Orphaned(cs) : QuietCall(c)
  BY OrphanedCalls
<1>2. \A list, frees : QuietCall(reload(list, frees, tok))
  BY BlankIsCall DEF reload, QuietCall, IsCall, Waited
<1>3. \A c \in calls' : QuietCall(c)
  <2>1. CASE s = "game"
    BY <1>1, <2>1 DEF Mount
  <2>2. CASE s # "game"
    <3> DEFINE r == reload(ListOf(s), s \in Admin, tok)
    <3>1. calls' = Issued(Orphaned(cs), r)
      BY <2>2 DEF Mount
    <3>2. QuietCall(r)
      BY <1>2
    <3> HIDE DEF r
    <3>3. \A d \in calls' : d \in Orphaned(cs) \/ (IsCall(d) /\ d.op = r.op /\ d.live = r.live)
      BY <3>1, <3>2, IssuedCalls DEF QuietCall
    <3> QED BY <1>1, <3>2, <3>3 DEF QuietCall, Waited
  <2> QED BY <2>1, <2>2
<1>4. form' = BlankForm
  BY DEF Mount
<1> QED BY <1>3, <1>4, NoneWaits
-----------------------------------------------------------------------------
PhaseInv == "phase" \in DOMAIN page /\ page.phase \in {"login", "signup"}

LEMMA PhaseStep == PhaseInv /\ [AccountNext]_accountVars => PhaseInv'
<1> SUFFICES ASSUME PhaseInv, [AccountNext]_accountVars PROVE PhaseInv'
  OBVIOUS
<1>1. \A s : "phase" \in DOMAIN Fresh(s) /\ Fresh(s).phase = "login"
  BY DEF Fresh
<1>2. \A s, tok, cs : Mount(s, tok, cs) => PhaseInv'
  BY <1>1 DEF Mount, PhaseInv
<1> USE DEF PhaseInv
<1>3. CASE EnterAccount \/ \E phase \in {"login", "signup"} : setPhase(phase)
  BY <1>3 DEF EnterAccount, setPhase
<1>4. CASE handleLogout \/ TokenRefused \/ handleSelect
  BY <1>1, <1>2, <1>4 DEF handleLogout, TokenRefused, handleSelect
<1>5. CASE Add \/ DeleteCharacter \/ AskDelete \/ ConfirmDelete
  BY <1>5 DEF Add, DeleteCharacter, AskDelete, ConfirmDelete
<1>6. CASE \/ \E s \in {"select"} \cup Admin : Go(s)
           \/ \E kind \in {"chara", "chip"} : setKind(kind)
  BY <1>2, <1>6 DEF Go, setKind
<1>7. CASE \/ loadGraphics \/ submitCharacter \/ UNCHANGED accountVars
           \/ \E on \in BOOLEAN : registering(on)
           \/ \E s \in Servers \cup {Nowhere} : TypeServer(s)
           \/ \E i \in 0..form.offers : setImageIndex(i)
  BY <1>7 DEF loadGraphics, submitCharacter, registering, TypeServer, setImageIndex, Fill, accountVars
<1>8. ASSUME NEW c \in calls,
             \/ Serve(c) \/ AnswerGet(c) \/ AnswerChange(c) \/ AnswerLogin(c) \/ AnswerLogout(c)
             \/ AnswerOpen(c) \/ AnswerGraphics(c) \/ AnswerRegister(c)
      PROVE  PhaseInv'
  <2>1. CASE Serve(c)
    BY <2>1 DEF Serve
  <2>2. CASE AnswerGet(c) \/ AnswerChange(c)
    BY <2>2 DEF AnswerGet, AnswerChange
  <2>3. CASE AnswerLogin(c)
    BY <1>2, <2>3 DEF AnswerLogin
  <2>4. CASE AnswerLogout(c) \/ AnswerOpen(c)
    BY <1>1, <2>4 DEF AnswerLogout, AnswerOpen
  <2>5. CASE AnswerGraphics(c) \/ AnswerRegister(c)
    BY <2>5 DEF AnswerGraphics, AnswerRegister
  <2> QED BY <1>8, <2>1, <2>2, <2>3, <2>4, <2>5
<1> QED BY <1>3, <1>4, <1>5, <1>6, <1>7, <1>8 DEF AccountNext
-----------------------------------------------------------------------------
LEMMA IssuedOne ==
    ASSUME NEW cs, NEW c
    PROVE  \E x : Issued(cs, c) = cs \cup {x}
  BY DEF Issued

(* A new call that is no registration and asks for no graphics. *)
LEMMA QuietIssued ==
    ASSUME NEW cs, NEW c, QuietCall(c)
    PROVE  \A d \in Issued(cs, c) : d \in cs \/ QuietCall(d)
  BY IssuedCalls DEF QuietCall, Waited

LEMMA RegisterInit == AccountInit => RegisterInv /\ PhaseInv
<1> SUFFICES ASSUME AccountInit PROVE RegisterInv /\ PhaseInv
  OBVIOUS
<1>1. \A c \in calls : QuietCall(c)
  BY BlankIsCall DEF AccountInit, reload, QuietCall, IsCall, Waited
<1>2. FormInv
  BY DEF AccountInit, BlankForm, FormInv
<1>3. PhaseInv
  BY DEF AccountInit, PhaseInv, Fresh
<1> QED BY <1>1, <1>2, <1>3
        DEF RegisterInv, CallsInv, OneWaits, WaitedIsTarget, GraphicsLoad, QuietCall
-----------------------------------------------------------------------------
(* What the other screens start. *)
LEMMA StartStep ==
    ASSUME RegisterInv, NEW c, QuietCall(c), calls' = Issued(calls, c),
           UNCHANGED <<signedIn, screen, form>>
    PROVE  RegisterInv'
  BY QuietIssued, OthersKeep

LEMMA BlanksAreQuiet ==
    ASSUME NEW c, "op" \in DOMAIN c, c.op \notin {"graphics", "register"},
           {"to", "index", "state", "result", "live"} \subseteq DOMAIN c
    PROVE  QuietCall(c)
  BY DEF QuietCall, IsCall, Waited

LEMMA LoginScreenStep ==
    ASSUME RegisterInv, PhaseInv,
           EnterAccount \/ \E phase \in {"login", "signup"} : setPhase(phase)
    PROVE  RegisterInv'
<1>1. QuietCall([Blank EXCEPT !.op = page.phase])
  <2> DEFINE c == [Blank EXCEPT !.op = page.phase]
  <2>1. DOMAIN c = DOMAIN Blank /\ c.op = page.phase
    BY BlankIsCall
  <2> HIDE DEF c
  <2>2. QuietCall(c)
    BY <2>1, BlankIsCall, BlanksAreQuiet DEF PhaseInv
  <2> QED BY <2>2 DEF c
<1>2. CASE EnterAccount
  BY <1>1, <1>2, StartStep, OthersKeep DEF EnterAccount, Start
<1>3. CASE \E phase \in {"login", "signup"} : setPhase(phase)
  BY <1>3, OthersKeep DEF setPhase
<1> QED BY <1>2, <1>3

LEMMA LogoutStep == RegisterInv /\ handleLogout => RegisterInv'
<1> SUFFICES ASSUME RegisterInv, handleLogout PROVE RegisterInv'
  OBVIOUS
<1> DEFINE bye == [Blank EXCEPT !.op = "logout", !.auth = token]
<1>1. QuietCall(bye)
  <2>1. DOMAIN bye = DOMAIN Blank /\ bye.op = "logout"
    BY BlankIsCall
  <2> HIDE DEF bye
  <2> QED BY <2>1, BlankIsCall, BlanksAreQuiet
<1>2. \A c \in Issued(calls, bye) : IsCall(c)
  BY <1>1, QuietIssued DEF RegisterInv, CallsInv, QuietCall
<1>3. \/ calls' = Orphaned(calls) /\ UNCHANGED form
      \/ Mount("select", NoToken, Issued(calls, bye))
      \/ calls' = Issued(calls, bye) /\ UNCHANGED <<signedIn, screen, form>>
  BY DEF handleLogout
<1> HIDE DEF bye
<1>4. CASE calls' = Orphaned(calls) /\ UNCHANGED form
  BY <1>4, OrphanedCalls, NoneWaits DEF RegisterInv, CallsInv
<1>5. CASE Mount("select", NoToken, Issued(calls, bye))
  BY <1>2, <1>5, MountStep
<1>6. CASE calls' = Issued(calls, bye) /\ UNCHANGED <<signedIn, screen, form>>
  BY <1>1, <1>6, StartStep
<1> QED BY <1>3, <1>4, <1>5, <1>6

(* Blank with some other fields, by name. *)
LEMMA RemovalIsQuiet == \A list : QuietCall(removal(list)) /\ QuietCall([removal(list) EXCEPT !.live = page.asks])
<1> TAKE list
<1> DEFINE r == removal(list)
           d == [r EXCEPT !.live = page.asks]
<1>1. DOMAIN r = DOMAIN Blank /\ r.op = "remove"
  BY BlankIsCall DEF removal
<1> HIDE DEF r
<1>2. DOMAIN d = DOMAIN Blank /\ d.op = "remove"
  BY <1>1, BlankIsCall
<1> HIDE DEF d
<1>3. QuietCall(r) /\ QuietCall(d)
  BY <1>1, <1>2, BlankIsCall, BlanksAreQuiet
<1> QED BY <1>3 DEF r, d

LEMMA ReloadIsQuiet == \A list, frees, tok : QuietCall(reload(list, frees, tok))
  BY BlankIsCall DEF reload, QuietCall, IsCall, Waited

LEMMA ListScreenStep ==
    ASSUME RegisterInv,
           \/ TokenRefused \/ handleSelect \/ Add
           \/ DeleteCharacter \/ AskDelete \/ ConfirmDelete
           \/ \E s \in {"select"} \cup Admin : Go(s)
           \/ \E kind \in {"chara", "chip"} : setKind(kind)
    PROVE  RegisterInv'
<1>1. CASE TokenRefused \/ AskDelete
  BY <1>1, OthersKeep DEF TokenRefused, AskDelete
<1>2. CASE handleSelect
  <2>1. QuietCall([Blank EXCEPT !.op = "open"])
    BY DEF Blank, QuietCall, IsCall, Waited
  <2> QED BY <1>2, <2>1, StartStep DEF handleSelect, Start
<1>3. CASE Add
  <2>1. QuietCall([Blank EXCEPT !.op = "add", !.list = page.list, !.auth = stored])
    BY DEF Blank, QuietCall, IsCall, Waited
  <2> QED BY <1>3, <2>1, StartStep, OthersKeep DEF Add, Start
<1>4. CASE DeleteCharacter
  BY <1>4, RemovalIsQuiet, StartStep DEF DeleteCharacter, Start
<1>5. CASE ConfirmDelete
  BY <1>5, RemovalIsQuiet, StartStep DEF ConfirmDelete
<1>6. CASE \E s \in {"select"} \cup Admin : Go(s)
  BY <1>6, MountStep DEF Go, RegisterInv, CallsInv
<1>7. CASE \E kind \in {"chara", "chip"} : setKind(kind)
  BY <1>7, ReloadIsQuiet, StartStep DEF setKind, Start
<1> QED BY <1>1, <1>2, <1>3, <1>4, <1>5, <1>6, <1>7
-----------------------------------------------------------------------------
(* Register. *)
LEMMA RegisteringStep ==
    ASSUME RegisterInv, \E on \in BOOLEAN : registering(on)
    PROVE  RegisterInv'
<1>1. \A c \in calls : ~Waited(c)
  BY DEF registering, Idle, On, RegisterInv, WaitedIsTarget
<1>2. \A c \in calls' : QuietCall(c)
  BY <1>1 DEF registering, QuietCall, RegisterInv, CallsInv
<1> QED BY <1>2, NoneWaits DEF registering

LEMMA FillStep ==
    ASSUME RegisterInv,
           \/ \E s \in Servers \cup {Nowhere} : TypeServer(s)
           \/ \E i \in 0..form.offers : setImageIndex(i)
    PROVE  RegisterInv'
<1>1. UNCHANGED <<signedIn, screen, calls>>
  BY DEF TypeServer, setImageIndex, Fill
<1>2. FormInv' /\ form'.target = form.target /\ form'.busy = form.busy /\ form'.loading = form.loading
  <2>1. CASE \E s \in Servers \cup {Nowhere} : TypeServer(s)
    BY <2>1 DEF TypeServer, Fill, RegisterInv, FormInv
  <2>2. CASE \E i \in 0..form.offers : setImageIndex(i)
    BY <2>2 DEF setImageIndex, Fill, RegisterInv, FormInv
  <2> QED BY <2>1, <2>2
<1> QED BY <1>1, <1>2 DEF RegisterInv, CallsInv, OneWaits, WaitedIsTarget, GraphicsLoad

LEMMA LoadGraphicsStep == RegisterInv /\ loadGraphics => RegisterInv'
<1> SUFFICES ASSUME RegisterInv, loadGraphics PROVE RegisterInv'
  OBVIOUS
<1> USE DEF RegisterInv
<1> DEFINE g == [Blank EXCEPT !.op = "graphics", !.auth = stored, !.to = form.typed]
<1>1. \A c \in calls : ~Waited(c) /\ c.op # "graphics"
  BY DEF loadGraphics, WaitedIsTarget, GraphicsLoad
<1>2. IsCall(g) /\ g.op = "graphics"
  <2>1. form.typed \in Servers
    BY DEF loadGraphics, FormInv
  <2>2. DOMAIN g = DOMAIN Blank /\ g.op = "graphics" /\ g.to = form.typed /\ g.state = "sent"
    BY BlankIsCall
  <2> HIDE DEF g
  <2> QED BY <2>1, <2>2, BlankIsCall DEF IsCall
<1>3. calls' = Issued(calls, g)
  BY DEF loadGraphics
<1> HIDE DEF g
<1>4. \A d \in calls' : d \in calls \/ (IsCall(d) /\ d.op = "graphics")
  BY <1>2, <1>3, IssuedCalls
<1>5. PICK x : calls' = calls \cup {x}
  BY <1>3, IssuedOne
<1>6. signedIn' /\ form'.loading /\ form'.target = Nowhere /\ FormInv'
  BY DEF loadGraphics, On, FormInv
<1>7. CallsInv'
  BY <1>4 DEF CallsInv
<1>8. \A c \in calls' : ~Waited(c)
  BY <1>1, <1>4 DEF Waited
<1>9. GraphicsLoad'
  BY <1>1, <1>5, <1>6 DEF GraphicsLoad
<1> QED BY <1>6, <1>7, <1>8, <1>9 DEF OneWaits, WaitedIsTarget

LEMMA SubmitStep == RegisterInv /\ submitCharacter => RegisterInv'
<1> SUFFICES ASSUME RegisterInv, submitCharacter PROVE RegisterInv'
  OBVIOUS
<1> USE DEF RegisterInv
<1> DEFINE r == [Blank EXCEPT !.op = "register", !.auth = stored,
                              !.to = form.target, !.index = form.index]
<1>1. form.target \in Servers /\ ~form.loading /\ (form.index < Graphics[form.target] \/ form.index = 0)
  BY AccountAssumption DEF submitCharacter, FormInv
<1>2. \A c \in calls : ~Waited(c) /\ c.op # "graphics"
  BY <1>1 DEF submitCharacter, WaitedIsTarget, GraphicsLoad
<1>3. IsCall(r) /\ r.op = "register" /\ r.to = form.target
  <2>1. /\ DOMAIN r = DOMAIN Blank /\ r.op = "register" /\ r.to = form.target
        /\ r.index = form.index
    BY BlankIsCall
  <2> HIDE DEF r
  <2> QED BY <1>1, <2>1, BlankIsCall DEF IsCall
<1>4. calls' = Issued(calls, r)
  BY DEF submitCharacter
<1> HIDE DEF r
<1>5. \A d \in calls' : d \in calls \/ (IsCall(d) /\ d.op = "register" /\ d.to = form.target)
  BY <1>3, <1>4, IssuedCalls
<1>6. PICK x : calls' = calls \cup {x}
  BY <1>4, IssuedOne
<1>7. /\ signedIn' /\ screen' = "register" /\ form'.busy /\ form'.target = form.target
      /\ FormInv'
  BY DEF submitCharacter, On, FormInv
<1>8. CallsInv'
  BY <1>5 DEF CallsInv
<1>9. OneWaits'
  BY <1>2, <1>6 DEF OneWaits
<1>10. WaitedIsTarget'
  BY <1>2, <1>5, <1>7 DEF WaitedIsTarget
<1>11. GraphicsLoad'
  BY <1>2, <1>5 DEF GraphicsLoad
<1> QED BY <1>7, <1>8, <1>9, <1>10, <1>11
-----------------------------------------------------------------------------
(* The service and its answers. *)
LEMMA ServeStep ==
    ASSUME RegisterInv, NEW c \in calls, Serve(c)
    PROVE  RegisterInv'
<1> USE DEF RegisterInv
<1>1. PICK ok \in {Allowed(c), FALSE} :
        calls' = (calls \ {c}) \cup {[c EXCEPT !.state = IF ok THEN "ok" ELSE "failed",
                                               !.result = IF ok THEN Result(c) ELSE -1]}
  BY DEF Serve
<1> DEFINE d == [c EXCEPT !.state = IF ok THEN "ok" ELSE "failed",
                          !.result = IF ok THEN Result(c) ELSE -1]
<1>2. IsCall(c)
  BY DEF CallsInv
<1>3. /\ DOMAIN d = DOMAIN c /\ d.op = c.op /\ d.to = c.to /\ d.index = c.index
      /\ d.live = c.live
      /\ d.state = IF ok THEN "ok" ELSE "failed"
      /\ d.result = IF ok THEN Result(c) ELSE -1
  BY <1>2 DEF IsCall
<1>4. calls' = (calls \ {c}) \cup {d}
  BY <1>1
<1> HIDE DEF d
<1>5. c.op = "graphics" => Result(c) = Graphics[c.to]
  BY DEF Result
<1>6. IsCall(d)
  BY <1>2, <1>3, <1>5 DEF IsCall
<1>7. Waited(d) = Waited(c)
  BY <1>3 DEF Waited
<1>8. UNCHANGED <<signedIn, screen, form>>
  BY DEF Serve
<1>9. CallsInv' /\ FormInv'
  BY <1>4, <1>6, <1>8 DEF CallsInv, FormInv
<1>10. OneWaits'
  BY <1>4, <1>7 DEF OneWaits
<1>11. WaitedIsTarget'
  BY <1>3, <1>4, <1>7, <1>8 DEF WaitedIsTarget
<1>12. GraphicsLoad'
  BY <1>3, <1>4, <1>8 DEF GraphicsLoad
<1> QED BY <1>9, <1>10, <1>11, <1>12

LEMMA AnswerListsStep ==
    ASSUME RegisterInv, NEW c \in calls, AnswerGet(c) \/ AnswerChange(c) \/ AnswerLogin(c)
    PROVE  RegisterInv'
<1>1. CASE AnswerGet(c)
  BY <1>1, OthersKeep DEF AnswerGet
<1>2. CASE AnswerChange(c)
  <2>1. \A d \in Reloaded(c) : d \in calls \/ QuietCall(d)
    BY ReloadIsQuiet, QuietIssued DEF Reloaded
  <2> QED BY <1>2, <2>1, OthersKeep DEF AnswerChange
<1>3. CASE AnswerLogin(c)
  BY <1>3, MountStep, OthersKeep DEF AnswerLogin, RegisterInv, CallsInv
<1> QED BY <1>1, <1>2, <1>3

LEMMA AnswerLeavesStep ==
    ASSUME RegisterInv, NEW c \in calls, AnswerLogout(c) \/ AnswerOpen(c)
    PROVE  RegisterInv'
<1> USE DEF RegisterInv
<1>1. ~signedIn => \A d \in calls : QuietCall(d)
  BY DEF QuietCall, CallsInv, WaitedIsTarget, GraphicsLoad
<1>2. \A d \in Orphaned(calls \ {c}) : QuietCall(d)
  BY OrphanedCalls DEF CallsInv
<1>3. CASE AnswerLogout(c)
  <2>1. \A d \in calls' : QuietCall(d)
    BY <1>1, <1>2, <1>3 DEF AnswerLogout
  <2> QED BY <1>3, <2>1, NoneWaits DEF AnswerLogout
<1>4. CASE AnswerOpen(c)
  <2>1. CASE c.state = "ok" /\ screen \in {"select", "register"}
    <3>1. \A d \in calls' : QuietCall(d)
      BY <1>1, <1>2, <1>4, <2>1 DEF AnswerOpen
    <3> QED BY <1>4, <2>1, <3>1, NoneWaits DEF AnswerOpen
  <2>2. CASE ~(c.state = "ok" /\ screen \in {"select", "register"})
    BY <1>4, <2>2, OthersKeep DEF AnswerOpen
  <2> QED BY <2>1, <2>2
<1> QED BY <1>3, <1>4

LEMMA AnswerGraphicsStep ==
    ASSUME RegisterInv, NEW c \in calls, AnswerGraphics(c)
    PROVE  RegisterInv'
<1> USE DEF RegisterInv
<1>1. c.op = "graphics" /\ IsCall(c) /\ form.loading /\ form.target = Nowhere
  BY DEF AnswerGraphics, CallsInv, GraphicsLoad, FormInv
<1>2. \A d \in calls : ~Waited(d)
  BY <1>1, AccountAssumption DEF WaitedIsTarget, CallsInv, IsCall, Waited
<1>3. calls' = calls \ {c} /\ signedIn' = signedIn /\ screen' = screen
  BY DEF AnswerGraphics
<1>4. \A d \in calls' : d.op # "graphics"
  BY <1>1, <1>3 DEF GraphicsLoad
<1>5. FormInv'
  <2>1. CASE c.state = "ok"
    <3>1. form' = Offered(c) /\ c.to \in Servers /\ c.result = Graphics[c.to]
      BY <1>1, <2>1 DEF AnswerGraphics, IsCall
    <3> QED BY <3>1 DEF Offered, FormInv
  <2>2. CASE c.state # "ok"
    BY <1>1, <2>2 DEF AnswerGraphics, FormInv
  <2> QED BY <2>1, <2>2
<1> QED BY <1>2, <1>3, <1>4, <1>5 DEF CallsInv, OneWaits, WaitedIsTarget, GraphicsLoad

LEMMA AnswerRegisterStep ==
    ASSUME RegisterInv, NEW c \in calls, AnswerRegister(c)
    PROVE  RegisterInv'
<1> USE DEF RegisterInv
<1>1. CASE ~c.live
  BY <1>1, OthersKeep DEF AnswerRegister
<1>2. CASE c.live
  <2>1. Waited(c) /\ ~form.loading
    BY <1>2, AccountAssumption
       DEF AnswerRegister, Waited, WaitedIsTarget, FormInv, CallsInv, IsCall
  <2>2. \A d \in calls \ {c} : QuietCall(d)
    BY <2>1 DEF QuietCall, OneWaits, GraphicsLoad, CallsInv
  <2>3. CASE c.state = "ok"
    <3>1. calls' = Issued(calls \ {c}, reload("characters", FALSE, stored)) /\ form' = BlankForm
      BY <1>2, <2>3 DEF AnswerRegister
    <3>2. \A d \in calls' : QuietCall(d)
      BY <2>2, <3>1, ReloadIsQuiet, QuietIssued
    <3> QED BY <3>1, <3>2, NoneWaits
  <2>4. CASE c.state # "ok"
    <3>1. calls' = calls \ {c} /\ form' = [form EXCEPT !.busy = FALSE]
      BY <1>2, <2>4 DEF AnswerRegister
    <3>2. FormInv'
      BY <3>1 DEF FormInv
    <3> QED BY <2>2, <3>1, <3>2
            DEF QuietCall, CallsInv, OneWaits, WaitedIsTarget, GraphicsLoad
  <2> QED BY <2>3, <2>4
<1> QED BY <1>1, <1>2
-----------------------------------------------------------------------------
LEMMA RegisterStep ==
    ASSUME RegisterInv, PhaseInv, [AccountNext]_accountVars
    PROVE  RegisterInv'
<1>1. CASE UNCHANGED accountVars
  BY <1>1, OthersKeep DEF accountVars
<1>2. CASE EnterAccount \/ \E phase \in {"login", "signup"} : setPhase(phase)
  BY <1>2, LoginScreenStep
<1>3. CASE handleLogout
  BY <1>3, LogoutStep
<1>4. CASE \/ TokenRefused \/ handleSelect \/ Add
           \/ DeleteCharacter \/ AskDelete \/ ConfirmDelete
           \/ \E s \in {"select"} \cup Admin : Go(s)
           \/ \E kind \in {"chara", "chip"} : setKind(kind)
  BY <1>4, ListScreenStep
<1>5. CASE \E on \in BOOLEAN : registering(on)
  BY <1>5, RegisteringStep
<1>6. CASE \/ \E s \in Servers \cup {Nowhere} : TypeServer(s)
           \/ \E i \in 0..form.offers : setImageIndex(i)
  BY <1>6, FillStep
<1>7. CASE loadGraphics \/ submitCharacter
  BY <1>7, LoadGraphicsStep, SubmitStep
<1>8. ASSUME NEW c \in calls,
             \/ Serve(c) \/ AnswerGet(c) \/ AnswerChange(c) \/ AnswerLogin(c) \/ AnswerLogout(c)
             \/ AnswerOpen(c) \/ AnswerGraphics(c) \/ AnswerRegister(c)
      PROVE  RegisterInv'
  BY <1>8, ServeStep, AnswerListsStep, AnswerLeavesStep, AnswerGraphicsStep, AnswerRegisterStep
<1> QED BY <1>1, <1>2, <1>3, <1>4, <1>5, <1>6, <1>7, <1>8 DEF AccountNext

LEMMA RegisterImplies == RegisterInv => RegistersWhereLoaded
<1> SUFFICES ASSUME RegisterInv, NEW c \in calls, c.op = "register"
             PROVE  /\ c.index < Graphics[c.to] \/ (Graphics[c.to] = 0 /\ c.index = 0)
                    /\ c.live => c.to = form.target
  BY DEF RegistersWhereLoaded
<1>1. c.to \in Servers /\ (c.index < Graphics[c.to] \/ c.index = 0)
  BY DEF RegisterInv, CallsInv, IsCall
<1>2. Graphics[c.to] \in Nat
  BY <1>1, AccountAssumption
<1>3. c.live => c.to = form.target
  BY DEF RegisterInv, WaitedIsTarget, Waited
<1> QED BY <1>1, <1>2, <1>3

(* However loads, answers, screens and logins cross, a character is created *)
(* on the server that the form shows the graphics of, with one of them.     *)
THEOREM CreatedWhereLoaded == AccountSpec => []RegistersWhereLoaded
<1>1. AccountInit => RegisterInv /\ PhaseInv
  BY RegisterInit
<1>2. RegisterInv /\ PhaseInv /\ [AccountNext]_accountVars => (RegisterInv /\ PhaseInv)'
  BY RegisterStep, PhaseStep
<1>3. RegisterInv => RegistersWhereLoaded
  BY RegisterImplies
<1> QED BY <1>1, <1>2, <1>3, PTL DEF AccountSpec
-----------------------------------------------------------------------------
(* The lists.  A call that will bring the list of the page as the service   *)
(* has it, or a change whose answer will be followed by such a load.        *)
Ops == {"get", "add", "remove", "login", "signup", "logout", "open", "graphics", "register"}
Brings(c) ==
    /\ c.live /\ c.list = page.list
    /\ \/ c.op = "get" /\ c.state = "sent"
       \/ c.op = "get" /\ c.state = "ok" /\ c.result = server.version[c.list]
       \/ Changes(c) /\ c.state = "ok"
LoadInv ==
    signedIn /\ screen # "game" /\ ~page.disturbed =>
        page.best = server.version[page.list] \/ \E c \in calls : Brings(c)

(* No answer is newer than the list. *)
Dated(c) ==
    c.op = "get" => c.result \in Int /\ c.result <= server.version[c.list]
CallFields == {"op", "list", "state", "result", "live"}
ListCall(c) ==
    /\ CallFields \subseteq DOMAIN c
    /\ c.op \in Ops /\ c.list \in Lists
    /\ c.op = "register" => c.list = "characters"

VersionInv ==
    /\ {"version", "good", "issued"} \subseteq DOMAIN server
    /\ server.version \in [Lists -> Nat]
PageInv ==
    /\ {"list", "best", "disturbed"} \subseteq DOMAIN page
    /\ page.list \in Lists
    /\ page.best \in Int /\ page.best <= server.version[page.list]
ListCallsInv == \A c \in calls : ListCall(c) /\ Dated(c)
ListInv == VersionInv /\ PageInv /\ ListCallsInv /\ LoadInv

LEMMA OrphanedLists ==
    ASSUME NEW cs, \A c \in cs : ListCall(c) /\ Dated(c)
    PROVE  \A c \in Orphaned(cs) : ListCall(c) /\ Dated(c)
<1>1. ASSUME NEW d \in cs, d.op \notin {"get", "graphics"}
      PROVE  ListCall([d EXCEPT !.live = FALSE]) /\ Dated([d EXCEPT !.live = FALSE])
  <2> DEFINE c == [d EXCEPT !.live = FALSE]
  <2>1. ListCall(d)
    OBVIOUS
  <2>2. DOMAIN c = DOMAIN d /\ c.op = d.op /\ c.list = d.list
    BY <2>1 DEF ListCall, CallFields
  <2> HIDE DEF c
  <2>3. ListCall(c) /\ Dated(c)
    BY <1>1, <2>1, <2>2 DEF ListCall, Dated
  <2> QED BY <2>3 DEF c
<1> QED BY <1>1 DEF Orphaned

Same(x, c) ==
    /\ x.op = c.op /\ x.list = c.list /\ x.state = c.state
    /\ x.result = c.result /\ x.live = c.live

LEMMA IssuedFields ==
    ASSUME NEW cs, NEW c, ListCall(c)
    PROVE  \E x : Issued(cs, c) = cs \cup {x} /\ ListCall(x) /\ Same(x, c)
<1>1. ASSUME NEW n
      PROVE  LET x == [c EXCEPT !.id = n] IN ListCall(x) /\ Same(x, c)
  <2> DEFINE x == [c EXCEPT !.id = n]
  <2>1. /\ DOMAIN x = DOMAIN c /\ x.op = c.op /\ x.list = c.list /\ x.state = c.state
        /\ x.result = c.result /\ x.live = c.live
    BY DEF ListCall, CallFields
  <2> HIDE DEF x
  <2>2. ListCall(x)
    BY <2>1 DEF ListCall
  <2> QED BY <2>1, <2>2 DEF x, Same
<1>2. PICK n : Issued(cs, c) = cs \cup {[c EXCEPT !.id = n]}
  BY DEF Issued
<1> QED BY <1>1, <1>2

LEMMA ReloadBrings ==
    \A list \in Lists : \A frees, tok :
           LET r == reload(list, frees, tok) IN
           /\ ListCall(r) /\ r.op = "get" /\ r.list = list /\ r.state = "sent"
           /\ r.result = -1 /\ r.live
  BY DEF reload, Blank, ListCall, CallFields, Ops

LEMMA ListOfPage == \A s : ListOf(s) \in Lists
  BY DEF ListOf, Lists, Admin

(* Nothing that the list waits for is lost. *)
LEMMA ListsKept ==
    ASSUME ListInv, UNCHANGED server,
           {"list", "best", "disturbed"} \subseteq DOMAIN page',
           page'.list = page.list, page'.best = page.best, page'.disturbed = page.disturbed,
           signedIn' /\ screen' # "game" => signedIn /\ screen # "game",
           \A c \in calls' : c \in calls \/ (ListCall(c) /\ Dated(c)),
           \A c \in calls : Brings(c) => c \in calls'
    PROVE  ListInv'
<1>1. VersionInv' /\ PageInv'
  BY DEF ListInv, VersionInv, PageInv
<1>2. ListCallsInv'
  BY DEF ListInv, ListCallsInv, Dated
<1>3. \A c : Brings(c)' <=> Brings(c)
  BY DEF Brings
<1>4. LoadInv'
  BY <1>3 DEF ListInv, LoadInv
<1> QED BY <1>1, <1>2, <1>4 DEF ListInv

(* A call that starts, of any kind. *)
LEMMA ListsStart ==
    ASSUME ListInv, UNCHANGED <<server, signedIn, screen>>,
           {"list", "best", "disturbed"} \subseteq DOMAIN page',
           page'.list = page.list, page'.best = page.best, page'.disturbed = page.disturbed,
           NEW c, ListCall(c), c.op # "get", calls' = Issued(calls, c)
    PROVE  ListInv'
<1>1. PICK x : calls' = calls \cup {x} /\ ListCall(x) /\ x.op = c.op
  BY IssuedFields DEF Same
<1>2. Dated(x)
  BY <1>1 DEF Dated
<1> QED BY <1>1, <1>2, ListsKept

LEMMA ListsMount ==
    ASSUME ListInv, UNCHANGED server, NEW s, NEW tok, NEW cs, Mount(s, tok, cs),
           \A c \in cs : ListCall(c) /\ Dated(c)
    PROVE  ListInv'
<1>1. /\ {"list", "best", "disturbed"} \subseteq DOMAIN page'
      /\ page'.list = ListOf(s) /\ page'.best = -1 /\ screen' = s
  BY DEF Mount, Fresh
<1>2. VersionInv' /\ server.version[ListOf(s)] \in Nat
  BY ListOfPage DEF ListInv, VersionInv
<1>3. PageInv'
  BY <1>1, <1>2, ListOfPage DEF PageInv
<1>4. \A c \in Orphaned(cs) : ListCall(c) /\ Dated(c)
  BY OrphanedLists
<1>5. CASE s = "game"
  <2>1. calls' = Orphaned(cs)
    BY <1>5 DEF Mount
  <2> QED BY <1>1, <1>2, <1>3, <1>4, <1>5, <2>1 DEF ListInv, ListCallsInv, LoadInv, Dated
<1>6. CASE s # "game"
  <2> DEFINE r == reload(ListOf(s), s \in Admin, tok)
  <2>1. ListCall(r) /\ r.op = "get" /\ r.list = ListOf(s) /\ r.state = "sent" /\ r.result = -1 /\ r.live
    BY ListOfPage, ReloadBrings
  <2>2. calls' = Issued(Orphaned(cs), r)
    BY <1>6 DEF Mount
  <2> HIDE DEF r
  <2>3. PICK x : calls' = Orphaned(cs) \cup {x} /\ ListCall(x) /\ Same(x, r)
    BY <2>1, <2>2, IssuedFields
  <2>4. Dated(x) /\ Brings(x)'
    BY <1>1, <1>2, <2>1, <2>3 DEF Dated, Brings, Same
  <2>5. ListCallsInv'
    BY <1>4, <2>3, <2>4 DEF ListCallsInv, Dated
  <2>6. LoadInv'
    BY <2>3, <2>4 DEF LoadInv
  <2> QED BY <1>2, <1>3, <2>5, <2>6 DEF ListInv
<1> QED BY <1>5, <1>6

LEMMA ListInit == AccountInit => ListInv
<1> SUFFICES ASSUME AccountInit PROVE ListInv
  OBVIOUS
<1>1. VersionInv /\ server.version = [l \in Lists |-> 0]
  BY DEF AccountInit, VersionInv
<1>2. /\ {"list", "best", "disturbed"} \subseteq DOMAIN page
      /\ page.list = "characters" /\ page.best = -1 /\ "characters" \in Lists
  BY DEF AccountInit, Fresh, ListOf, Admin, Lists
<1>3. PageInv
  BY <1>1, <1>2 DEF PageInv
<1>4. PICK r : r = reload("characters", FALSE, 1)
  OBVIOUS
<1>5. ListCall(r) /\ r.op = "get" /\ r.list = "characters" /\ r.state = "sent" /\ r.result = -1 /\ r.live
  BY <1>2, <1>4 DEF reload, Blank, ListCall, CallFields, Ops
<1>6. calls = IF signedIn THEN {r} ELSE {}
  BY <1>4 DEF AccountInit
<1>7. ListCallsInv
  BY <1>1, <1>2, <1>5, <1>6 DEF ListCallsInv, Dated
<1>8. LoadInv
  BY <1>2, <1>5, <1>6 DEF LoadInv, Brings
<1> QED BY <1>1, <1>3, <1>7, <1>8 DEF ListInv
-----------------------------------------------------------------------------
LEMMA BlankLists ==
    /\ ListCall(Blank)
    /\ DOMAIN Blank = {"op", "list", "auth", "to", "index", "state", "result", "live", "frees", "id"}
    /\ Blank.list = "characters" /\ "characters" \in Lists
  BY DEF Blank, ListCall, CallFields, Ops, Lists

(* What the buttons start. *)
LEMMA StartedLists ==
    /\ \A op \in Ops \ {"get"} :
         ListCall([Blank EXCEPT !.op = op]) /\ [Blank EXCEPT !.op = op].op = op
    /\ \A tok : LET c == [Blank EXCEPT !.op = "logout", !.auth = tok] IN
         ListCall(c) /\ c.op = "logout"
    /\ \A list \in Lists : \A tok :
         LET c == [Blank EXCEPT !.op = "add", !.list = list, !.auth = tok] IN
         ListCall(c) /\ c.op = "add"
    /\ \A list \in Lists :
         /\ ListCall(removal(list)) /\ removal(list).op = "remove"
         /\ \A b : LET c == [removal(list) EXCEPT !.live = b] IN ListCall(c) /\ c.op = "remove"
    /\ \A tok, to : LET c == [Blank EXCEPT !.op = "graphics", !.auth = tok, !.to = to] IN
         ListCall(c) /\ c.op = "graphics"
    /\ \A tok, to, i :
         LET c == [Blank EXCEPT !.op = "register", !.auth = tok, !.to = to, !.index = i] IN
         ListCall(c) /\ c.op = "register"
<1> USE BlankLists
<1>1. ASSUME NEW op \in Ops \ {"get"}
      PROVE  ListCall([Blank EXCEPT !.op = op]) /\ [Blank EXCEPT !.op = op].op = op
  BY DEF Blank, ListCall, CallFields
<1>2. ASSUME NEW tok
      PROVE  LET c == [Blank EXCEPT !.op = "logout", !.auth = tok] IN
             ListCall(c) /\ c.op = "logout"
  BY DEF Blank, ListCall, CallFields, Ops
<1>3. ASSUME NEW list \in Lists, NEW tok
      PROVE  LET c == [Blank EXCEPT !.op = "add", !.list = list, !.auth = tok] IN
             ListCall(c) /\ c.op = "add"
  BY DEF Blank, ListCall, CallFields, Ops
<1>4. ASSUME NEW list \in Lists
      PROVE  /\ ListCall(removal(list)) /\ removal(list).op = "remove"
             /\ \A b : LET c == [removal(list) EXCEPT !.live = b] IN ListCall(c) /\ c.op = "remove"
  <2> DEFINE r == removal(list)
  <2>1. CallFields \subseteq DOMAIN r /\ r.op = "remove" /\ r.list = list
    BY DEF removal, Blank, CallFields
  <2> HIDE DEF r
  <2>2. ListCall(r)
    BY <2>1 DEF ListCall, Ops
  <2>3. ASSUME NEW b
        PROVE  LET c == [r EXCEPT !.live = b] IN ListCall(c) /\ c.op = "remove"
    BY <2>1 DEF ListCall, Ops, CallFields
  <2> QED BY <2>1, <2>2, <2>3 DEF r
<1>5. ASSUME NEW tok, NEW to
      PROVE  LET c == [Blank EXCEPT !.op = "graphics", !.auth = tok, !.to = to] IN
             ListCall(c) /\ c.op = "graphics"
  BY DEF Blank, ListCall, CallFields, Ops
<1>6. ASSUME NEW tok, NEW to, NEW i
      PROVE  LET c == [Blank EXCEPT !.op = "register", !.auth = tok, !.to = to, !.index = i] IN
             ListCall(c) /\ c.op = "register"
  BY DEF Blank, ListCall, CallFields, Ops
<1> QED BY <1>1, <1>2, <1>3, <1>4, <1>5, <1>6

LEMMA ListsLogin ==
    ASSUME ListInv, PhaseInv,
           EnterAccount \/ \E phase \in {"login", "signup"} : setPhase(phase)
    PROVE  ListInv'
<1>1. UNCHANGED <<server, signedIn, screen>>
  BY DEF EnterAccount, setPhase, Act, Start
<1>2. /\ {"list", "best", "disturbed"} \subseteq DOMAIN page'
      /\ page'.list = page.list /\ page'.best = page.best /\ page'.disturbed = page.disturbed
  BY DEF EnterAccount, setPhase, ListInv, PageInv
<1>3. CASE calls' = Issued(calls, [Blank EXCEPT !.op = page.phase])
  <2>1. page.phase \in Ops \ {"get"}
    BY DEF PhaseInv, Ops
  <2>2. PICK c : c = [Blank EXCEPT !.op = page.phase]
    OBVIOUS
  <2>3. ListCall(c) /\ c.op # "get"
    BY <2>1, <2>2, StartedLists
  <2> QED BY <1>1, <1>2, <1>3, <2>2, <2>3, ListsStart
<1>4. CASE calls' = calls
  BY <1>1, <1>2, <1>4, ListsKept
<1> QED BY <1>3, <1>4 DEF EnterAccount, setPhase, Start

LEMMA ListsLogout == ListInv /\ handleLogout => ListInv'
<1> SUFFICES ASSUME ListInv, handleLogout PROVE ListInv'
  OBVIOUS
<1> DEFINE bye == [Blank EXCEPT !.op = "logout", !.auth = token]
<1>1. ListCall(bye) /\ bye.op = "logout"
  BY StartedLists
<1>2. UNCHANGED server
  BY DEF handleLogout, Act
<1>3. \/ /\ signedIn' = FALSE /\ page' = Fresh("select") /\ calls' = Orphaned(calls)
      \/ Mount("select", NoToken, Issued(calls, bye))
      \/ /\ page' = [page EXCEPT !.busy = TRUE] /\ calls' = Issued(calls, bye)
         /\ UNCHANGED <<signedIn, screen>>
  BY DEF handleLogout
<1> HIDE DEF bye
<1>4. CASE signedIn' = FALSE /\ page' = Fresh("select") /\ calls' = Orphaned(calls)
  <2>1. PageInv'
    <3>1. page'.list \in Lists /\ page'.best = -1 /\ {"list", "best", "disturbed"} \subseteq DOMAIN page'
      BY <1>4, ListOfPage DEF Fresh
    <3>2. server'.version[page'.list] \in Nat
      BY <1>2, <3>1 DEF ListInv, VersionInv
    <3> QED BY <3>1, <3>2 DEF PageInv
  <2>2. ListCallsInv'
    BY <1>2, <1>4, OrphanedLists DEF ListInv, ListCallsInv, Dated
  <2> QED BY <1>2, <1>4, <2>1, <2>2 DEF ListInv, VersionInv, LoadInv
<1>5. CASE Mount("select", NoToken, Issued(calls, bye))
  <2>1. PICK x : Issued(calls, bye) = calls \cup {x} /\ ListCall(x) /\ x.op = bye.op
    BY <1>1, IssuedFields DEF Same
  <2>2. \A c \in Issued(calls, bye) : ListCall(c) /\ Dated(c)
    BY <1>1, <2>1 DEF ListInv, ListCallsInv, Dated
  <2> QED BY <1>2, <1>5, <2>2, ListsMount
<1>6. CASE /\ page' = [page EXCEPT !.busy = TRUE] /\ calls' = Issued(calls, bye)
           /\ UNCHANGED <<signedIn, screen>>
  <2>1. /\ {"list", "best", "disturbed"} \subseteq DOMAIN page'
        /\ page'.list = page.list /\ page'.best = page.best /\ page'.disturbed = page.disturbed
    BY <1>6 DEF ListInv, PageInv
  <2> QED BY <1>1, <1>2, <1>6, <2>1, ListsStart
<1> QED BY <1>3, <1>4, <1>5, <1>6

DialogInv == dialog \in Lists \cup {"none"}

LEMMA ListsScreen ==
    ASSUME ListInv, DialogInv,
           \/ TokenRefused \/ handleSelect \/ Add
           \/ DeleteCharacter \/ AskDelete \/ ConfirmDelete
           \/ \E s \in {"select"} \cup Admin : Go(s)
           \/ \E kind \in {"chara", "chip"} : setKind(kind)
    PROVE  ListInv'
<1> DEFINE SamePage ==
             /\ {"list", "best", "disturbed"} \subseteq DOMAIN page'
             /\ page'.list = page.list /\ page'.best = page.best
             /\ page'.disturbed = page.disturbed
<1>0. {"list", "best", "disturbed"} \subseteq DOMAIN page /\ page.list \in Lists
  BY DEF ListInv, PageInv
<1>1. CASE TokenRefused
  <2>1. /\ server' = [server EXCEPT !.good = @ \ {token}]
        /\ UNCHANGED <<signedIn, screen, page, calls>>
    BY <1>1 DEF TokenRefused
  <2>2. VersionInv' /\ server'.version = server.version
    BY <2>1 DEF ListInv, VersionInv
  <2>3. \A c : (Brings(c)' <=> Brings(c)) /\ (Dated(c)' <=> Dated(c))
    BY <2>1, <2>2 DEF Brings, Dated
  <2> QED BY <2>1, <2>2, <2>3 DEF ListInv, PageInv, ListCallsInv, LoadInv
<1>2. CASE AskDelete
  BY <1>2, ListsKept, <1>0 DEF AskDelete, Act
<1>3. CASE handleSelect
  <2>1. SamePage /\ UNCHANGED <<server, signedIn, screen>>
    BY <1>0, <1>3 DEF handleSelect, Start, Act
  <2>2. calls' = Issued(calls, [Blank EXCEPT !.op = "open"]) /\ "open" \in Ops \ {"get"}
    BY <1>3 DEF handleSelect, Start, Ops
  <2>3. PICK c : c = [Blank EXCEPT !.op = "open"]
    OBVIOUS
  <2>4. ListCall(c) /\ c.op # "get"
    BY <2>2, <2>3, StartedLists
  <2> QED BY <2>1, <2>2, <2>3, <2>4, ListsStart
<1>4. CASE Add
  <2>1. SamePage /\ UNCHANGED <<server, signedIn, screen>>
    BY <1>0, <1>4 DEF Add, Start, Act
  <2>2. CASE calls' = Issued(calls, [Blank EXCEPT !.op = "add", !.list = page.list, !.auth = stored])
    <3>1. PICK c : c = [Blank EXCEPT !.op = "add", !.list = page.list, !.auth = stored]
      OBVIOUS
    <3>2. ListCall(c) /\ c.op = "add"
      BY <1>0, <3>1, StartedLists
    <3> QED BY <2>1, <2>2, <3>1, <3>2, ListsStart
  <2>3. CASE calls' = calls
    BY <2>1, <2>3, ListsKept
  <2> QED BY <1>4, <2>2, <2>3 DEF Add, Start
<1>5. CASE DeleteCharacter
  <2>1. SamePage /\ UNCHANGED <<server, signedIn, screen>>
    BY <1>0, <1>5 DEF DeleteCharacter, Start, Act
  <2>2. PICK c : c = removal("characters")
    OBVIOUS
  <2>3. ListCall(c) /\ c.op = "remove" /\ calls' = Issued(calls, c)
    BY <1>5, <2>2, StartedLists, BlankLists DEF DeleteCharacter, Start
  <2> QED BY <2>1, <2>3, ListsStart
<1>6. CASE ConfirmDelete
  <2>1. SamePage /\ UNCHANGED <<server, signedIn, screen>>
    BY <1>0, <1>6 DEF ConfirmDelete, Act
  <2>2. PICK c : c = [removal(dialog) EXCEPT !.live = page.asks]
    OBVIOUS
  <2>3. ListCall(c) /\ c.op = "remove" /\ calls' = Issued(calls, c)
    BY <1>6, <2>2, StartedLists DEF ConfirmDelete, DialogInv
  <2> QED BY <2>1, <2>3, ListsStart
<1>7. CASE \E s \in {"select"} \cup Admin : Go(s)
  <2>1. PICK s : Mount(s, stored, calls) /\ UNCHANGED server
    BY <1>7 DEF Go, Act
  <2> QED BY <2>1, ListsMount DEF ListInv, ListCallsInv
<1>8. ASSUME NEW kind \in {"chara", "chip"}, setKind(kind) PROVE ListInv'
  <2>1. /\ UNCHANGED <<server, signedIn, screen>>
        /\ page' = [page EXCEPT !.list = kind, !.shown = -1, !.best = -1, !.busy = TRUE]
        /\ calls' = Issued(calls, reload(kind, TRUE, stored))
    BY <1>8 DEF setKind, Start, Act
  <2>2. /\ {"list", "best", "disturbed"} \subseteq DOMAIN page'
        /\ page'.list = kind /\ page'.best = -1 /\ kind \in Lists
    BY <1>0, <2>1 DEF Lists
  <2>3. PICK r : r = reload(kind, TRUE, stored)
    OBVIOUS
  <2>4. ListCall(r) /\ r.op = "get" /\ r.list = kind /\ r.state = "sent" /\ r.result = -1 /\ r.live
    BY <2>2, <2>3 DEF reload, Blank, ListCall, CallFields, Ops
  <2>5. PICK x : calls' = calls \cup {x} /\ ListCall(x) /\ Same(x, r)
    BY <2>1, <2>3, <2>4, IssuedFields
  <2>6. VersionInv' /\ server.version[kind] \in Nat
    BY <2>1, <2>2 DEF ListInv, VersionInv
  <2>7. Dated(x) /\ Brings(x)'
    BY <2>2, <2>4, <2>5, <2>6 DEF Dated, Brings, Same
  <2>8. PageInv'
    BY <2>1, <2>2, <2>6 DEF PageInv
  <2>9. ListCallsInv'
    <3>1. \A c : Dated(c)' <=> Dated(c)
      BY <2>1 DEF Dated
    <3> QED BY <2>5, <2>7, <3>1 DEF ListInv, ListCallsInv
  <2>10. LoadInv'
    BY <2>5, <2>7 DEF LoadInv
  <2> QED BY <2>6, <2>8, <2>9, <2>10 DEF ListInv
<1> QED BY <1>1, <1>2, <1>3, <1>4, <1>5, <1>6, <1>7, <1>8

LEMMA DialogStep == DialogInv /\ ListInv /\ [AccountNext]_accountVars => DialogInv'
<1> SUFFICES ASSUME DialogInv, ListInv, [AccountNext]_accountVars PROVE DialogInv'
  OBVIOUS
<1>1. dialog' \in {dialog, "none", page.list}
  BY DEF AccountNext, EnterAccount, handleLogout, TokenRefused, handleSelect, Add, DeleteCharacter,
         AskDelete, ConfirmDelete, loadGraphics, submitCharacter, setPhase, Go, setKind, registering,
         TypeServer, setImageIndex, Fill, Serve, AnswerGet, AnswerChange, AnswerLogin, AnswerLogout,
         AnswerOpen, AnswerGraphics, AnswerRegister, Start, accountVars
<1> QED BY <1>1 DEF DialogInv, ListInv, PageInv

LEMMA ListsForm ==
    ASSUME ListInv,
           \/ loadGraphics \/ submitCharacter \/ UNCHANGED accountVars
           \/ \E on \in BOOLEAN : registering(on)
           \/ \E s \in Servers \cup {Nowhere} : TypeServer(s)
           \/ \E i \in 0..form.offers : setImageIndex(i)
    PROVE  ListInv'
<1>0. {"list", "best", "disturbed"} \subseteq DOMAIN page /\ page.list \in Lists
  BY DEF ListInv, PageInv
<1>1. UNCHANGED <<server, page, signedIn>>
  BY DEF loadGraphics, submitCharacter, accountVars, bounds, registering, TypeServer, setImageIndex,
         Fill, Act
<1>2. CASE loadGraphics
  <2>1. PICK c : c = [Blank EXCEPT !.op = "graphics", !.auth = stored, !.to = form.typed]
    OBVIOUS
  <2>2. ListCall(c) /\ c.op = "graphics"
    BY <2>1, BlankLists DEF Blank, ListCall, CallFields, Ops
  <2>3. calls' = Issued(calls, c) /\ screen' = screen
    BY <1>2, <2>1 DEF loadGraphics
  <2> QED BY <1>0, <1>1, <2>2, <2>3, ListsStart
<1>3. CASE submitCharacter
  <2>1. PICK c : c = [Blank EXCEPT !.op = "register", !.auth = stored,
                                    !.to = form.target, !.index = form.index]
    OBVIOUS
  <2>2. ListCall(c) /\ c.op = "register"
    BY <2>1, BlankLists DEF Blank, ListCall, CallFields, Ops
  <2>3. calls' = Issued(calls, c) /\ screen' = screen
    BY <1>3, <2>1 DEF submitCharacter
  <2> QED BY <1>0, <1>1, <2>2, <2>3, ListsStart
<1>4. CASE \E on \in BOOLEAN : registering(on)
  <2>1. calls' = {c \in calls : c.op # "graphics"} /\ screen # "game"
    BY <1>4 DEF registering, Idle, On
  <2>2. \A c \in calls : Brings(c) => c \in calls'
    BY <2>1 DEF Brings, Changes
  <2> QED BY <1>0, <1>1, <1>4, <2>1, <2>2, ListsKept DEF registering, On, Idle
<1>5. CASE \/ UNCHANGED accountVars
           \/ \E s \in Servers \cup {Nowhere} : TypeServer(s)
           \/ \E i \in 0..form.offers : setImageIndex(i)
  <2>1. UNCHANGED <<calls, screen>>
    BY <1>5 DEF accountVars, TypeServer, setImageIndex, Fill
  <2> QED BY <1>0, <1>1, <2>1, ListsKept
<1> QED BY <1>2, <1>3, <1>4, <1>5
-----------------------------------------------------------------------------
(* The version of a list only grows. *)
LEMMA EffectVersions ==
    ASSUME VersionInv, NEW c, ListCall(c)
    PROVE  /\ {"version", "good", "issued"} \subseteq DOMAIN Effect(c)
           /\ Effect(c).version =
                IF Changes(c) THEN [server.version EXCEPT ![c.list] = @ + 1] ELSE server.version
  BY DEF Effect, VersionInv, ListCall, Ops, Changes

LEMMA ListsServe ==
    ASSUME ListInv, NEW c \in calls, Serve(c)
    PROVE  ListInv'
<1>0. /\ {"list", "best", "disturbed"} \subseteq DOMAIN page /\ page.list \in Lists
      /\ ListCall(c) /\ Dated(c) /\ server.version \in [Lists -> Nat]
  BY DEF ListInv, PageInv, ListCallsInv, VersionInv
<1>1. PICK ok \in {Allowed(c), FALSE} :
        /\ server' \in IF ok THEN {Effect(c)}
                       ELSE IF Allowed(c) THEN {server, Effect(c)} ELSE {server}
        /\ calls' = (calls \ {c})
                      \cup {[c EXCEPT !.state = IF ok THEN "ok" ELSE "failed",
                                      !.result = IF ok THEN Result(c) ELSE -1]}
        /\ page' = [page EXCEPT !.disturbed = @ \/ ~ok \/ (Changes(c) /\ ~c.live)]
  BY DEF Serve
<1>2. PICK d : d = [c EXCEPT !.state = IF ok THEN "ok" ELSE "failed",
                             !.result = IF ok THEN Result(c) ELSE -1]
  OBVIOUS
<1>3. /\ DOMAIN d = DOMAIN c /\ d.op = c.op /\ d.list = c.list /\ d.live = c.live
      /\ d.state = (IF ok THEN "ok" ELSE "failed")
      /\ d.result = (IF ok THEN Result(c) ELSE -1)
  BY <1>0, <1>2 DEF ListCall, CallFields
<1>4. ListCall(d) /\ calls' = (calls \ {c}) \cup {d} /\ UNCHANGED <<signedIn, screen>>
      /\ c.state = "sent"
  BY <1>0, <1>1, <1>2, <1>3 DEF ListCall, Serve
<1>5. /\ {"list", "best", "disturbed"} \subseteq DOMAIN page'
      /\ page'.list = page.list /\ page'.best = page.best
      /\ page'.disturbed <=> (page.disturbed \/ ~ok \/ (Changes(c) /\ ~c.live))
  BY <1>0, <1>1
<1>6. VersionInv' /\ server'.version =
        (IF Changes(c) /\ server' = Effect(c) THEN [server.version EXCEPT ![c.list] = @ + 1]
                                               ELSE server.version)
  <2>1. server' = server \/ server' = Effect(c)
    BY <1>1
  <2>2. CASE server' = server
    <3>1. Changes(c) => Effect(c) # server
      <4> SUFFICES ASSUME Changes(c), Effect(c) = server PROVE FALSE
        OBVIOUS
      <4>1. server.version = [server.version EXCEPT ![c.list] = @ + 1]
        BY <1>0, EffectVersions DEF ListInv
      <4>2. server.version[c.list] \in Nat /\ server.version[c.list] = server.version[c.list] + 1
        BY <1>0, <4>1 DEF ListCall
      <4> QED BY <4>2
    <3> QED BY <2>2, <3>1 DEF ListInv, VersionInv
  <2>3. CASE server' = Effect(c)
    BY <1>0, <2>3, EffectVersions DEF ListInv, VersionInv, ListCall
  <2> QED BY <2>1, <2>2, <2>3
<1>7. \A l \in Lists : /\ server.version[l] \in Nat /\ server'.version[l] \in Nat
                       /\ server.version[l] <= server'.version[l]
  BY <1>0, <1>6 DEF ListCall
<1>8. PageInv'
  <2>1. page.best \in Int /\ page.best <= server.version[page.list]
    BY DEF ListInv, PageInv
  <2>2. page.best <= server'.version[page.list]
    BY <1>0, <1>7, <2>1
  <2> QED BY <1>0, <1>5, <2>1, <2>2 DEF PageInv
<1>9. ListCallsInv'
  <2>1. ASSUME NEW e \in calls PROVE ListCall(e) /\ Dated(e)'
    <3>1. ListCall(e) /\ Dated(e)
      BY DEF ListInv, ListCallsInv
    <3>2. e.list \in Lists
      BY <3>1 DEF ListCall
    <3> QED BY <1>7, <3>1, <3>2 DEF Dated
  <2>2. Dated(d)'
    <3> SUFFICES ASSUME c.op = "get" PROVE d.result \in Int /\ d.result <= server'.version[c.list]
      BY <1>3 DEF Dated
    <3>1. d.result = server.version[c.list] \/ d.result = -1
      BY <1>3 DEF Result
    <3>2. c.list \in Lists
      BY <1>0 DEF ListCall
    <3> QED BY <1>7, <3>1, <3>2
  <2> QED BY <1>4, <2>1, <2>2 DEF ListCallsInv
<1>10. LoadInv'
  <2> SUFFICES ASSUME signedIn, screen # "game", ~page'.disturbed
               PROVE  page'.best = server'.version[page'.list] \/ \E e \in calls' : Brings(e)'
    BY <1>4 DEF LoadInv
  <2>1. ok /\ ~page.disturbed /\ (Changes(c) => c.live) /\ server' = Effect(c)
    BY <1>1, <1>5
  <2>2. d \in calls' /\ d.state = "ok"
    BY <1>3, <1>4, <2>1
  <2>3. CASE Changes(c) /\ c.list = page.list
    <3>1. Brings(d)'
      BY <1>3, <1>5, <2>1, <2>2, <2>3 DEF Brings, Changes
    <3> QED BY <2>2, <3>1
  <2>4. CASE ~(Changes(c) /\ c.list = page.list)
    <3>1. server'.version[page.list] = server.version[page.list]
      BY <1>0, <1>6, <2>4 DEF ListCall
    <3>2. CASE page.best = server.version[page.list]
      BY <1>5, <3>1, <3>2
    <3>3. ASSUME NEW w \in calls, Brings(w) PROVE \E e \in calls' : Brings(e)'
      <4>1. CASE w # c
        <5>1. Brings(w)'
          BY <1>5, <3>1, <3>3 DEF Brings
        <5> QED BY <1>4, <4>1, <5>1
      <4>2. CASE w = c
        <5>1. c.op = "get" /\ c.live /\ c.list = page.list
          BY <1>4, <3>3, <4>2 DEF Brings
        <5>2. d.result = server.version[c.list]
          BY <1>3, <2>1, <5>1 DEF Result
        <5>3. Brings(d)'
          BY <1>3, <1>5, <2>2, <3>1, <5>1, <5>2 DEF Brings
        <5> QED BY <2>2, <5>3
      <4> QED BY <4>1, <4>2
    <3> QED BY <2>1, <3>2, <3>3 DEF ListInv, LoadInv
  <2> QED BY <2>3, <2>4
<1> QED BY <1>6, <1>8, <1>9, <1>10 DEF ListInv

LEMMA ListsGet ==
    ASSUME ListInv, NEW c \in calls, AnswerGet(c)
    PROVE  ListInv'
<1>0. /\ {"list", "best", "disturbed"} \subseteq DOMAIN page /\ page.list \in Lists
      /\ ListCall(c) /\ Dated(c) /\ server.version \in [Lists -> Nat]
      /\ page.best \in Int /\ page.best <= server.version[page.list]
  BY DEF ListInv, PageInv, ListCallsInv, VersionInv
<1>1. /\ calls' = calls \ {c} /\ UNCHANGED <<server, signedIn, screen>> /\ c.op = "get"
      /\ c.state # "sent"
  BY DEF AnswerGet, Answers
<1>2. CASE c.list # page.list \/ c.state = "failed"
  <2>1. /\ {"list", "best", "disturbed"} \subseteq DOMAIN page'
        /\ page'.list = page.list /\ page'.best = page.best /\ page'.disturbed = page.disturbed
    BY <1>0, <1>2 DEF AnswerGet
  <2>2. ~Brings(c)
    BY <1>1, <1>2 DEF Brings, Changes
  <2> QED BY <1>1, <2>1, <2>2, ListsKept
<1>3. CASE c.list = page.list /\ c.state # "failed"
  <2>1. /\ {"list", "best", "disturbed"} \subseteq DOMAIN page'
        /\ page'.list = page.list /\ page'.best = Max(page.best, c.result)
        /\ page'.disturbed = page.disturbed
    BY <1>0, <1>3 DEF AnswerGet
  <2>2. c.result \in Int /\ c.result <= server.version[page.list] /\ server.version[page.list] \in Nat
    BY <1>0, <1>1, <1>3 DEF Dated
  <2>3. /\ page'.best \in Int /\ page'.best <= server.version[page.list]
        /\ c.result = server.version[page.list] \/ page.best = server.version[page.list] =>
             page'.best = server.version[page.list]
    BY <1>0, <2>1, <2>2 DEF Max
  <2>4. VersionInv' /\ PageInv' /\ ListCallsInv'
    BY <1>0, <1>1, <2>1, <2>3 DEF ListInv, VersionInv, PageInv, ListCallsInv, Dated
  <2>5. Brings(c) => c.result = server.version[page.list]
    BY <1>1, <1>3 DEF Brings, Changes
  <2>6. \A e : Brings(e)' <=> Brings(e)
    BY <1>1, <2>1 DEF Brings
  <2>7. LoadInv'
    BY <1>1, <2>1, <2>3, <2>5, <2>6 DEF ListInv, LoadInv
  <2> QED BY <2>4, <2>7 DEF ListInv
<1> QED BY <1>2, <1>3

(* The answer of a change is followed by a load of its list. *)
LEMMA ListsReloaded ==
    ASSUME ListInv, NEW c \in calls, UNCHANGED <<server, signedIn>>, Changes(c),
           signedIn' /\ screen' # "game" => signedIn /\ screen # "game",
           {"list", "best", "disturbed"} \subseteq DOMAIN page',
           page'.list = page.list, page'.best = page.best, page'.disturbed = page.disturbed,
           NEW frees,
           IF c.live /\ c.state = "ok"
             THEN calls' = Issued(calls \ {c}, reload(c.list, frees, stored))
             ELSE calls' = calls \ {c}
    PROVE  ListInv'
<1>0. ListCall(c) /\ c.list \in Lists /\ server.version \in [Lists -> Nat]
  BY DEF ListInv, ListCallsInv, ListCall, VersionInv
<1>1. CASE ~(c.live /\ c.state = "ok")
  <2>1. ~Brings(c)
    BY <1>1 DEF Brings, Changes
  <2> QED BY <1>1, <2>1, ListsKept
<1>2. CASE c.live /\ c.state = "ok"
  <2>1. PICK r : r = reload(c.list, frees, stored)
    OBVIOUS
  <2>2. ListCall(r) /\ r.op = "get" /\ r.list = c.list /\ r.state = "sent" /\ r.result = -1 /\ r.live
    BY <1>0, <2>1, ReloadBrings
  <2>3. PICK x : calls' = (calls \ {c}) \cup {x} /\ ListCall(x) /\ Same(x, r)
    BY <1>2, <2>1, <2>2, IssuedFields
  <2>4. Dated(x) /\ (c.list = page.list => Brings(x))
    <3>1. server.version[c.list] \in Nat
      BY <1>0
    <3> QED BY <2>2, <2>3, <3>1 DEF Dated, Brings, Same
  <2>5. \A e : (Brings(e)' <=> Brings(e)) /\ (Dated(e)' <=> Dated(e))
    BY DEF Brings, Dated
  <2>6. VersionInv' /\ PageInv' /\ ListCallsInv'
    BY <2>3, <2>4, <2>5 DEF ListInv, VersionInv, PageInv, ListCallsInv
  <2>7. LoadInv'
    <3>1. Brings(c) => c.list = page.list
      BY DEF Brings
    <3> QED BY <2>3, <2>4, <2>5, <3>1 DEF ListInv, LoadInv
  <2> QED BY <2>6, <2>7 DEF ListInv
<1> QED BY <1>1, <1>2

LEMMA ListsAnswer ==
    ASSUME ListInv, RegisterInv, NEW c \in calls,
           \/ AnswerChange(c) \/ AnswerLogin(c) \/ AnswerLogout(c)
           \/ AnswerOpen(c) \/ AnswerGraphics(c) \/ AnswerRegister(c)
    PROVE  ListInv'
<1> DEFINE SamePage ==
             /\ {"list", "best", "disturbed"} \subseteq DOMAIN page'
             /\ page'.list = page.list /\ page'.best = page.best
             /\ page'.disturbed = page.disturbed
<1>0. {"list", "best", "disturbed"} \subseteq DOMAIN page /\ page.list \in Lists /\ ListCall(c)
  BY DEF ListInv, PageInv, ListCallsInv
<1>1. UNCHANGED server
  BY DEF AnswerChange, AnswerLogin, AnswerLogout, AnswerOpen, AnswerGraphics, AnswerRegister, Answers
<1>2. ASSUME calls' = Orphaned(calls \ {c}), {"list", "best", "disturbed"} \subseteq DOMAIN page',
             page'.list \in Lists, page'.best = -1, ~signedIn' \/ screen' = "game"
      PROVE  ListInv'
  <2>1. \A e \in calls' : ListCall(e) /\ Dated(e)
    BY <1>2, OrphanedLists DEF ListInv, ListCallsInv
  <2>2. VersionInv' /\ server.version[page'.list] \in Nat
    BY <1>1, <1>2 DEF ListInv, VersionInv
  <2> QED BY <1>1, <1>2, <2>1, <2>2 DEF ListInv, PageInv, ListCallsInv, Dated, LoadInv
<1>3. \A s : /\ {"list", "best", "disturbed"} \subseteq DOMAIN Fresh(s)
             /\ Fresh(s).list \in Lists /\ Fresh(s).best = -1
  BY ListOfPage DEF Fresh
<1>4. CASE AnswerChange(c)
  <2>1. SamePage /\ UNCHANGED <<signedIn, screen>> /\ Changes(c)
    BY <1>0, <1>4 DEF AnswerChange, Changes
  <2>2. IF c.live /\ c.state = "ok"
          THEN calls' = Issued(calls \ {c}, reload(c.list, TRUE, stored))
          ELSE calls' = calls \ {c}
    BY <1>4 DEF AnswerChange, Reloaded
  <2> QED BY <1>1, <2>1, <2>2, ListsReloaded
<1>5. CASE AnswerLogin(c)
  <2>1. CASE Mount(screen, c.result, calls \ {c})
    BY <1>1, <2>1, ListsMount DEF ListInv, ListCallsInv
  <2>2. CASE calls' = calls \ {c} /\ SamePage /\ UNCHANGED <<signedIn, screen>>
    <3>1. ~Brings(c)
      BY <1>5 DEF AnswerLogin, Brings, Changes
    <3> QED BY <1>1, <2>2, <3>1, ListsKept
  <2> QED BY <1>0, <1>5, <2>1, <2>2 DEF AnswerLogin
<1>6. CASE AnswerLogout(c)
  <2>1. CASE signedIn
    <3>1. page' = Fresh("select") /\ calls' = Orphaned(calls \ {c}) /\ ~signedIn'
      BY <1>6, <2>1 DEF AnswerLogout
    <3> QED BY <1>2, <1>3, <3>1
  <2>2. CASE ~signedIn
    <3>1. page' = page /\ calls' = calls \ {c} /\ ~signedIn' /\ c.op = "logout"
      BY <1>6, <2>2 DEF AnswerLogout
    <3>2. ~Brings(c)
      BY <3>1 DEF Brings, Changes
    <3> QED BY <1>0, <1>1, <3>1, <3>2, ListsKept
  <2> QED BY <2>1, <2>2
<1>7. CASE AnswerOpen(c)
  <2>0. ~Brings(c) /\ signedIn' = signedIn
    BY <1>7 DEF AnswerOpen, Brings, Changes
  <2>1. CASE c.state = "ok" /\ screen \in {"select", "register"} /\ signedIn
    <3>1. page' = Fresh("game") /\ calls' = Orphaned(calls \ {c}) /\ screen' = "game"
      BY <1>7, <2>1 DEF AnswerOpen
    <3> QED BY <1>2, <1>3, <3>1
  <2>2. CASE c.state = "ok" /\ screen \in {"select", "register"} /\ ~signedIn
    <3>1. page' = page /\ calls' = calls \ {c}
      BY <1>7, <2>2 DEF AnswerOpen
    <3> QED BY <1>0, <1>1, <2>0, <2>2, <3>1, ListsKept
  <2>3. CASE ~(c.state = "ok" /\ screen \in {"select", "register"})
    <3>1. SamePage /\ calls' = calls \ {c} /\ screen' = screen
      BY <1>0, <1>7, <2>3 DEF AnswerOpen
    <3> QED BY <1>1, <2>0, <3>1, ListsKept
  <2> QED BY <2>1, <2>2, <2>3
<1>8. CASE AnswerGraphics(c)
  <2>1. ~Brings(c) /\ calls' = calls \ {c} /\ UNCHANGED <<page, signedIn, screen>>
    BY <1>8 DEF AnswerGraphics, Brings, Changes
  <2> QED BY <1>0, <1>1, <2>1, ListsKept
<1>9. CASE AnswerRegister(c)
  <2>1. /\ UNCHANGED <<signedIn, page>> /\ Changes(c) /\ c.list = "characters"
        /\ IF c.live /\ c.state = "ok"
             THEN calls' = Issued(calls \ {c}, reload("characters", FALSE, stored))
             ELSE calls' = calls \ {c}
    BY <1>0, <1>9 DEF AnswerRegister, Changes, ListCall
  <2>2. signedIn' /\ screen' # "game" => signedIn /\ screen # "game"
    BY <1>9 DEF AnswerRegister, RegisterInv, WaitedIsTarget, Waited
  <2> QED BY <1>0, <1>1, <2>1, <2>2, ListsReloaded
<1> QED BY <1>4, <1>5, <1>6, <1>7, <1>8, <1>9

LEMMA ListsStep ==
    ASSUME ListInv, DialogInv, RegisterInv, PhaseInv, [AccountNext]_accountVars
    PROVE  ListInv'
<1>1. CASE EnterAccount \/ \E phase \in {"login", "signup"} : setPhase(phase)
  BY <1>1, ListsLogin
<1>2. CASE handleLogout
  BY <1>2, ListsLogout
<1>3. CASE \/ TokenRefused \/ handleSelect \/ Add
           \/ DeleteCharacter \/ AskDelete \/ ConfirmDelete
           \/ \E s \in {"select"} \cup Admin : Go(s)
           \/ \E kind \in {"chara", "chip"} : setKind(kind)
  BY <1>3, ListsScreen
<1>4. CASE \/ loadGraphics \/ submitCharacter \/ UNCHANGED accountVars
           \/ \E on \in BOOLEAN : registering(on)
           \/ \E s \in Servers \cup {Nowhere} : TypeServer(s)
           \/ \E i \in 0..form.offers : setImageIndex(i)
  BY <1>4, ListsForm
<1>5. ASSUME NEW c \in calls,
             \/ Serve(c) \/ AnswerGet(c) \/ AnswerChange(c) \/ AnswerLogin(c) \/ AnswerLogout(c)
             \/ AnswerOpen(c) \/ AnswerGraphics(c) \/ AnswerRegister(c)
      PROVE  ListInv'
  BY <1>5, ListsServe, ListsGet, ListsAnswer
<1> QED BY <1>1, <1>2, <1>3, <1>4, <1>5 DEF AccountNext

(* A screen that waits for nothing has been given its list as the service   *)
(* has it: each change that was made from it was followed by a load, in     *)
(* whatever order calls were served and answered (CharacterSelect.tsx,      *)
(* Register.tsx, Admin).                                                    *)
THEOREM ListsAreLoaded == AccountSpec => []ListsSettle
<1>1. AccountInit => RegisterInv /\ PhaseInv /\ ListInv /\ DialogInv
  BY RegisterInit, ListInit DEF AccountInit, DialogInv
<1>2. RegisterInv /\ PhaseInv /\ ListInv /\ DialogInv /\ [AccountNext]_accountVars
        => (RegisterInv /\ PhaseInv /\ ListInv /\ DialogInv)'
  BY RegisterStep, PhaseStep, ListsStep, DialogStep
<1>3. ListInv => ListsSettle
  <2> SUFFICES ASSUME ListInv, On({"select"} \cup Admin), \A c \in calls : ~c.live,
                      ~page.disturbed
               PROVE  page.best = server.version[page.list]
    BY DEF ListsSettle
  <2>1. signedIn /\ screen # "game"
    BY DEF On, Admin
  <2>2. \A c \in calls : ~Brings(c)
    BY DEF Brings
  <2> QED BY <2>1, <2>2 DEF ListInv, LoadInv
<1> QED BY <1>1, <1>2, <1>3, PTL DEF AccountSpec
-----------------------------------------------------------------------------
(* The types.  A new call finds a number that no other has: the calls are  *)
(* finitely many, and there is one number more.                            *)
Answered(c) ==
    /\ c.op = "login" /\ c.state = "ok" => c.result \in 1..MaxTokens
    /\ c.op \in {"get", "graphics"} /\ c.state = "ok" => c.result \in Nat
    /\ c.op = "graphics" => c.to \in Servers
CallsTyped(cs) == IsFiniteSet(cs) /\ \A c \in cs : c \in Call /\ Answered(c)
ServerTyped ==
    server \in [version : [Lists -> Nat], good : SUBSET (1..MaxTokens), issued : 0..MaxTokens]
PageTyped == page \in Page
FormTyped == form \in Form
PlaceTyped == signedIn \in BOOLEAN /\ screen \in Screens /\ dialog \in Lists \cup {"none"}
AuthTyped == token \in 0..MaxTokens /\ stored \in 0..MaxTokens /\ isAdmin \in BOOLEAN
BoundsTyped == acts \in 0..MaxActs /\ faults \in 0..MaxFaults
AccountTyped ==
    PlaceTyped /\ PageTyped /\ FormTyped /\ AuthTyped /\ CallsTyped(calls) /\ ServerTyped
        /\ BoundsTyped

LEMMA NumberIsFree ==
    ASSUME NEW cs, IsFiniteSet(cs)
    PROVE  \E n \in 0..Cardinality(cs) : \A other \in cs : other.id # n
<1> DEFINE ns == 0..Cardinality(cs)
           owner == [n \in ns |-> CHOOSE other \in cs : other.id = n]
<1>1. Cardinality(cs) \in Nat
  BY FS_CardinalityType
<1>2. IsFiniteSet(ns) /\ Cardinality(ns) = Cardinality(cs) + 1
  BY <1>1, FS_Interval
<1> SUFFICES ASSUME \A n \in ns : \E other \in cs : other.id = n PROVE FALSE
  OBVIOUS
<1>3. \A n \in ns : owner[n] \in cs /\ owner[n].id = n
  OBVIOUS
<1>4. owner \in [ns -> cs]
  BY <1>3
<1>5. Cardinality(cs) < Cardinality(ns)
  BY <1>1, <1>2
<1> HIDE DEF ns, owner
<1>6. \E m, n \in ns : m # n /\ owner[m] = owner[n]
  BY <1>2, <1>4, <1>5, FS_PigeonHole
<1> QED BY <1>3, <1>6

LEMMA IssuedTyped ==
    ASSUME NEW cs, CallsTyped(cs), NEW c \in Call, Answered(c)
    PROVE  CallsTyped(Issued(cs, c))
<1> DEFINE n == CHOOSE n \in 0..Cardinality(cs) : \A other \in cs : other.id # n
           d == [c EXCEPT !.id = n]
<1>1. n \in 0..Cardinality(cs) /\ Cardinality(cs) \in Nat
  BY NumberIsFree, FS_CardinalityType DEF CallsTyped
<1>2. Issued(cs, c) = cs \cup {d}
  BY DEF Issued
<1> HIDE DEF n
<1>3. n \in Nat
  BY <1>1
<1>4. d \in Call
  BY <1>3 DEF Call
<1>5. d.op = c.op /\ d.state = c.state /\ d.result = c.result /\ d.to = c.to
  BY DEF Call
<1> HIDE DEF d
<1>6. Answered(d)
  BY <1>5 DEF Answered
<1>7. IsFiniteSet(cs \cup {d})
  BY FS_AddElement DEF CallsTyped
<1> QED BY <1>2, <1>4, <1>6, <1>7 DEF CallsTyped

LEMMA OrphanedTyped ==
    ASSUME NEW cs, CallsTyped(cs)
    PROVE  CallsTyped(Orphaned(cs))
<1> DEFINE kept == {d \in cs : d.op \notin {"get", "graphics"}}
           orphan == [d \in kept |-> [d EXCEPT !.live = FALSE]]
<1>1. IsFiniteSet(kept)
  BY FS_Subset DEF CallsTyped
<1>2. Orphaned(cs) = {orphan[d] : d \in kept}
  BY DEF Orphaned
<1>3. \A d \in kept : orphan[d] \in Call /\ Answered(orphan[d])
  <2> SUFFICES ASSUME NEW d \in kept PROVE orphan[d] \in Call /\ Answered(orphan[d])
    OBVIOUS
  <2>1. d \in Call /\ Answered(d)
    BY DEF CallsTyped
  <2>2. orphan[d] = [d EXCEPT !.live = FALSE]
    OBVIOUS
  <2> QED BY <2>1, <2>2 DEF Call, Answered
<1> HIDE DEF orphan
<1>4. orphan \in Surjection(kept, Orphaned(cs))
  <2>1. orphan \in [kept -> Orphaned(cs)]
    BY <1>2 DEF orphan
  <2> QED BY <1>2, <2>1 DEF Surjection
<1>5. IsFiniteSet(Orphaned(cs))
  BY <1>1, <1>4, FS_Surjection
<1> QED BY <1>2, <1>3, <1>5 DEF CallsTyped

LEMMA FewerTyped ==
    ASSUME NEW cs, CallsTyped(cs), NEW fewer, fewer \subseteq cs
    PROVE  CallsTyped(fewer)
  BY FS_Subset DEF CallsTyped

LEMMA BlankTyped ==
    /\ Blank \in Call
    /\ Blank.op = "get" /\ Blank.state = "sent"
    /\ \A c : c.state = "sent" /\ c.op # "graphics" => Answered(c)
  BY DEF Blank, Call, Answered, Lists, NoToken

LEMMA ListsOfScreens == \A s \in Screens : ListOf(s) \in Lists
  BY DEF ListOf, Screens, Admin, Lists

LEMMA InAdmin == \A s : \E b \in BOOLEAN : b = (s \in Admin)
<1> SUFFICES ASSUME NEW s PROVE \E b \in BOOLEAN : b = (s \in Admin)
  OBVIOUS
<1>1. CASE s \in Admin
  <2>1. TRUE = (s \in Admin)
    BY <1>1
  <2> QED BY <2>1
<1>2. CASE s \notin Admin
  <2>1. FALSE = (s \in Admin)
    BY <1>2
  <2> QED BY <2>1, Zenon
<1> QED BY <1>1, <1>2

LEMMA FreshTyped == \A s \in Screens : Fresh(s) \in Page
<1> SUFFICES ASSUME NEW s \in Screens PROVE Fresh(s) \in Page
  OBVIOUS
<1>1. PICK busy \in BOOLEAN : busy = (s \in Admin)
  BY InAdmin
<1>2. Fresh(s) = [phase |-> "login", list |-> ListOf(s), shown |-> -1, best |-> -1,
                  error |-> FALSE, formError |-> FALSE, busy |-> busy, asks |-> FALSE,
                  disturbed |-> FALSE]
  BY <1>1 DEF Fresh
<1> QED BY <1>2, ListsOfScreens DEF Page

LEMMA BlankFormTyped == BlankForm \in Form
  BY DEF BlankForm, Form

LEMMA ReloadTyped ==
    ASSUME NEW list \in Lists, NEW frees \in BOOLEAN, NEW tok \in Nat
    PROVE  LET c == reload(list, frees, tok) IN c \in Call /\ Answered(c)
<1> DEFINE c == reload(list, frees, tok)
<1>1. c \in Call
  BY BlankTyped DEF reload, Call
<1>2. c.state = "sent" /\ c.op = "get"
  BY BlankTyped DEF reload, Call
<1> QED BY <1>1, <1>2, BlankTyped

LEMMA MountTyped ==
    ASSUME NEW s \in Screens, NEW tok \in Nat, NEW cs, CallsTyped(cs), Mount(s, tok, cs)
    PROVE  screen' \in Screens /\ PageTyped' /\ FormTyped' /\ CallsTyped(calls)'
<1>1. PICK frees \in BOOLEAN : frees = (s \in Admin)
  BY InAdmin
<1>2. CallsTyped(Orphaned(cs))
  BY OrphanedTyped
<1>3. reload(ListOf(s), frees, tok) \in Call /\ Answered(reload(ListOf(s), frees, tok))
  BY ListsOfScreens, ReloadTyped
<1>4. CallsTyped(Issued(Orphaned(cs), reload(ListOf(s), frees, tok)))
  BY <1>2, <1>3, IssuedTyped
<1>5. calls' = (IF s = "game" THEN Orphaned(cs)
                ELSE Issued(Orphaned(cs), reload(ListOf(s), frees, tok)))
  BY <1>1 DEF Mount
<1>6. CallsTyped(calls')
  BY <1>2, <1>4, <1>5
<1> QED BY <1>6, FreshTyped, BlankFormTyped DEF Mount, PageTyped, FormTyped, CallsTyped

LEMMA MadeTyped ==
    ASSUME NEW c \in Call, c.state = "sent", c.op # "graphics", CallsTyped(calls),
           calls' = Issued(calls, c)
    PROVE  CallsTyped(calls)'
<1>1. CallsTyped(Issued(calls, c))
  BY BlankTyped, IssuedTyped
<1> QED BY <1>1 DEF CallsTyped

LEMMA InitTyped == AccountInit => AccountTyped
<1> SUFFICES ASSUME AccountInit PROVE AccountTyped
  OBVIOUS
<1>1. token \in 0..MaxTokens /\ stored \in 0..MaxTokens /\ isAdmin \in BOOLEAN
  <2>1. token \in 0..MaxTokens /\ stored \in 0..MaxTokens
    BY AccountAssumption DEF AccountInit, NoToken
  <2>2. isAdmin = FALSE \/ isAdmin = (token = 1)
    BY Zenon DEF AccountInit
  <2>3. CASE token = 1
    <3>1. TRUE = (token = 1)
      BY <2>3
    <3> QED BY <2>1, <2>2, <3>1
  <2>4. CASE token # 1
    <3>1. FALSE = (token = 1)
      BY <2>4
    <3>2. isAdmin = FALSE
      BY <2>2, <3>1, Zenon
    <3> QED BY <2>1, <3>2
  <2> QED BY <2>3, <2>4
<1>2. signedIn \in BOOLEAN /\ screen \in Screens /\ dialog \in Lists \cup {"none"}
  BY DEF AccountInit, Screens
<1>3. CallsTyped(calls)
  <2> DEFINE first == reload("characters", FALSE, 1)
  <2>1. first \in Call /\ Answered(first)
    BY ReloadTyped DEF Lists
  <2>2. calls \in {{}, {first}}
    BY DEF AccountInit
  <2> HIDE DEF first
  <2>3. IsFiniteSet({}) /\ IsFiniteSet({first})
    BY FS_EmptySet, FS_Singleton
  <2> QED BY <2>1, <2>2, <2>3 DEF CallsTyped
<1>4. ServerTyped
  <2>1. 1 \in 1..MaxTokens
    BY AccountAssumption
  <2>2. {1} \cap {token} \in SUBSET (1..MaxTokens)
    BY <2>1
  <2>3. [l \in Lists |-> 0] \in [Lists -> Nat]
    OBVIOUS
  <2> QED BY <1>1, <2>2, <2>3 DEF AccountInit, ServerTyped
<1>5. BoundsTyped
  BY AccountAssumption DEF AccountInit, BoundsTyped
<1>6. PageTyped /\ FormTyped
  BY FreshTyped, BlankFormTyped DEF AccountInit, PageTyped, FormTyped, Screens
<1> QED BY <1>1, <1>2, <1>3, <1>4, <1>5, <1>6 DEF AccountTyped, PlaceTyped, AuthTyped

LEMMA ActTyped ==
    ASSUME BoundsTyped, ServerTyped, Act
    PROVE  BoundsTyped' /\ ServerTyped'
  BY AccountAssumption DEF BoundsTyped, ServerTyped, Act

LEMMA EnterTyped == AccountTyped /\ EnterAccount => AccountTyped'
<1> SUFFICES ASSUME AccountTyped, EnterAccount PROVE AccountTyped'
  OBVIOUS
<1>0. BoundsTyped' /\ ServerTyped'
  BY ActTyped DEF AccountTyped, EnterAccount
<1>1. PageTyped'
  BY DEF EnterAccount, AccountTyped, PageTyped, Page
<1>2. CallsTyped(calls)'
  <2>1. CASE Start([Blank EXCEPT !.op = page.phase])
    <3> DEFINE c == [Blank EXCEPT !.op = page.phase]
    <3>1. c \in Call /\ c.state = "sent" /\ c.op # "graphics"
      BY BlankTyped DEF AccountTyped, PageTyped, Page, Call
    <3>2. calls' = Issued(calls, c)
      BY <2>1 DEF Start
    <3> HIDE DEF c
    <3> QED BY <3>1, <3>2, MadeTyped DEF AccountTyped
  <2>2. CASE UNCHANGED calls
    BY <2>2 DEF AccountTyped, CallsTyped
  <2> QED BY <2>1, <2>2 DEF EnterAccount
<1>3. UNCHANGED <<signedIn, screen, form, dialog, auth>>
  BY DEF EnterAccount, Start
<1> QED BY <1>0, <1>1, <1>2, <1>3
        DEF AccountTyped, PlaceTyped, FormTyped, AuthTyped, auth

LEMMA PhaseTyped ==
    ASSUME AccountTyped, NEW phase \in {"login", "signup"}, setPhase(phase)
    PROVE  AccountTyped'
<1>0. BoundsTyped' /\ ServerTyped'
  BY ActTyped DEF AccountTyped, setPhase
<1>1. PageTyped'
  BY DEF setPhase, AccountTyped, PageTyped, Page
<1>2. UNCHANGED <<signedIn, screen, form, dialog, auth, calls>>
  BY DEF setPhase
<1> QED BY <1>0, <1>1, <1>2
        DEF AccountTyped, PlaceTyped, FormTyped, AuthTyped, auth, CallsTyped

LEMMA LogoutTyped == AccountTyped /\ handleLogout => AccountTyped'
<1> SUFFICES ASSUME AccountTyped, handleLogout PROVE AccountTyped'
  OBVIOUS
<1> DEFINE bye == [Blank EXCEPT !.op = "logout", !.auth = token]
<1>0. BoundsTyped' /\ ServerTyped'
  BY ActTyped DEF AccountTyped, handleLogout
<1>1. AuthTyped' /\ dialog' = "none"
  <2>1. token' = 0 /\ stored' = 0 /\ isAdmin' = FALSE /\ dialog' = "none"
    BY DEF handleLogout, clearAuth, NoToken
  <2>2. 0 \in 0..MaxTokens
    BY AccountAssumption
  <2> QED BY <2>1, <2>2, Zenon DEF AuthTyped
<1>2. bye \in Call /\ bye.state = "sent" /\ bye.op # "graphics"
  <2>1. token \in Nat
    BY DEF AccountTyped, AuthTyped
  <2> QED BY <2>1, BlankTyped DEF Call
<1>3. CallsTyped(Issued(calls, bye)) /\ CallsTyped(Orphaned(calls))
  BY <1>2, BlankTyped, IssuedTyped, OrphanedTyped DEF AccountTyped
<1>4. \/ /\ signedIn' = FALSE /\ screen' = "select"
         /\ page' = Fresh("select") /\ UNCHANGED form
         /\ calls' = Orphaned(calls)
      \/ Mount("select", NoToken, Issued(calls, bye)) /\ UNCHANGED signedIn
      \/ /\ page' = [page EXCEPT !.busy = TRUE]
         /\ calls' = Issued(calls, bye) /\ UNCHANGED <<signedIn, screen, form>>
  BY DEF handleLogout
<1> HIDE DEF bye
<1>5. "select" \in Screens
  BY DEF Screens
<1>6. signedIn' \in BOOLEAN /\ screen' \in Screens /\ PageTyped' /\ FormTyped' /\ CallsTyped(calls)'
  <2>1. CASE /\ signedIn' = FALSE /\ screen' = "select"
             /\ page' = Fresh("select") /\ UNCHANGED form
             /\ calls' = Orphaned(calls)
    BY <1>3, <1>5, <2>1, FreshTyped DEF AccountTyped, PageTyped, FormTyped, CallsTyped
  <2>2. CASE Mount("select", NoToken, Issued(calls, bye)) /\ UNCHANGED signedIn
    BY <1>3, <1>5, <2>2, MountTyped DEF AccountTyped, PlaceTyped, NoToken
  <2>3. CASE /\ page' = [page EXCEPT !.busy = TRUE]
             /\ calls' = Issued(calls, bye) /\ UNCHANGED <<signedIn, screen, form>>
    BY <1>3, <2>3 DEF AccountTyped, PlaceTyped, PageTyped, Page, FormTyped, CallsTyped
  <2> QED BY <1>4, <2>1, <2>2, <2>3
<1> QED BY <1>0, <1>1, <1>6 DEF AccountTyped, PlaceTyped

LEMMA RefusedTyped == AccountTyped /\ TokenRefused => AccountTyped'
<1> SUFFICES ASSUME AccountTyped, TokenRefused PROVE AccountTyped'
  OBVIOUS
<1>1. AuthTyped'
  BY AccountAssumption DEF TokenRefused, clearAuth, AuthTyped, NoToken, AccountTyped
<1>2. BoundsTyped'
  BY AccountAssumption DEF TokenRefused, BoundsTyped, AccountTyped
<1>3. ServerTyped'
  BY DEF TokenRefused, ServerTyped, AccountTyped
<1>4. UNCHANGED <<signedIn, screen, page, form, dialog, calls>>
  BY DEF TokenRefused
<1> QED BY <1>1, <1>2, <1>3, <1>4 DEF AccountTyped, PlaceTyped, PageTyped, FormTyped, CallsTyped

(* A button of a screen that starts a call. *)
LEMMA StartTyped ==
    ASSUME AccountTyped, Act, PageTyped', NEW c \in Call, c.state = "sent", c.op # "graphics",
           Start(c)
    PROVE  AccountTyped'
<1>1. BoundsTyped' /\ ServerTyped'
  BY ActTyped DEF AccountTyped
<1>2. CallsTyped(calls)'
  BY MadeTyped DEF AccountTyped, Start
<1> QED BY <1>1, <1>2 DEF Start, AccountTyped, PlaceTyped, FormTyped, AuthTyped, auth

LEMMA ScreensTyped ==
    ASSUME AccountTyped,
           \/ handleSelect \/ Add \/ DeleteCharacter \/ AskDelete \/ ConfirmDelete
           \/ \E s \in {"select"} \cup Admin : Go(s)
           \/ \E kind \in {"chara", "chip"} : setKind(kind)
    PROVE  AccountTyped'
<1>0. /\ page \in Page /\ page.list \in Lists /\ stored \in Nat
      /\ Act => BoundsTyped' /\ ServerTyped'
  BY ActTyped DEF AccountTyped, PageTyped, Page, AuthTyped
<1>1. \A l \in Lists : /\ removal(l) \in Call /\ removal(l).state = "sent"
                        /\ removal(l).op = "remove"
  BY <1>0, BlankTyped DEF removal, Call
<1>2. CASE handleSelect
  <2>1. PageTyped'
    BY <1>0, <1>2 DEF handleSelect, PageTyped, Page
  <2> DEFINE c == [Blank EXCEPT !.op = "open"]
  <2>2. c \in Call /\ c.state = "sent" /\ c.op # "graphics"
    BY BlankTyped DEF Call
  <2>3. Act /\ Start(c)
    BY <1>2 DEF handleSelect
  <2> HIDE DEF c
  <2> QED BY <2>1, <2>2, <2>3, StartTyped
<1>3. CASE Add
  <2>1. PageTyped'
    BY <1>0, <1>3 DEF Add, PageTyped, Page
  <2> DEFINE c == [Blank EXCEPT !.op = "add", !.list = page.list, !.auth = stored]
  <2>2. c \in Call /\ c.state = "sent" /\ c.op # "graphics"
    BY <1>0, BlankTyped DEF Call
  <2>3. Act /\ (Start(c) \/ UNCHANGED <<signedIn, screen, form, dialog, auth, calls>>)
    BY <1>3 DEF Add
  <2> HIDE DEF c
  <2>4. CASE UNCHANGED <<signedIn, screen, form, dialog, auth, calls>>
    BY <1>0, <2>1, <2>3, <2>4 DEF AccountTyped, PlaceTyped, FormTyped, AuthTyped, auth, CallsTyped
  <2> QED BY <2>1, <2>2, <2>3, <2>4, StartTyped
<1>4. CASE DeleteCharacter
  <2>1. PageTyped'
    BY <1>0, <1>4 DEF DeleteCharacter, PageTyped, Page
  <2>2. Act /\ Start(removal("characters"))
    BY <1>4 DEF DeleteCharacter
  <2> QED BY <1>1, <2>1, <2>2, StartTyped DEF Lists
<1>5. CASE AskDelete
  <2>1. page' \in Page /\ dialog' \in Lists
    BY <1>0, <1>5 DEF AskDelete, PageTyped, Page
  <2>2. UNCHANGED <<signedIn, screen, form, auth, calls>> /\ Act
    BY <1>5 DEF AskDelete
  <2> QED BY <1>0, <2>1, <2>2 DEF AccountTyped, PlaceTyped, PageTyped, FormTyped, AuthTyped, auth,
                                  CallsTyped
<1>6. CASE ConfirmDelete
  <2>1. dialog \in Lists /\ dialog' = "none"
    BY <1>6 DEF ConfirmDelete, AccountTyped, PlaceTyped
  <2>2. PICK live \in BOOLEAN : live = page.asks
    BY <1>0 DEF PageTyped, Page
  <2> DEFINE c == [removal(dialog) EXCEPT !.live = live]
  <2>3. c \in Call /\ c.state = "sent" /\ c.op # "graphics"
    BY <1>1, <2>1 DEF Call
  <2>4. calls' = Issued(calls, c)
    BY <1>6, <2>2 DEF ConfirmDelete
  <2> HIDE DEF c
  <2>5. CallsTyped(calls)'
    BY <2>3, <2>4, MadeTyped DEF AccountTyped
  <2>6. PageTyped'
    BY <1>0, <1>6 DEF ConfirmDelete, PageTyped, Page
  <2>7. UNCHANGED <<signedIn, screen, form, auth>> /\ Act
    BY <1>6 DEF ConfirmDelete
  <2> QED BY <1>0, <2>1, <2>5, <2>6, <2>7 DEF AccountTyped, PlaceTyped, FormTyped, AuthTyped, auth
<1>7. ASSUME NEW s \in {"select"} \cup Admin, Go(s) PROVE AccountTyped'
  <2>1. s \in Screens
    BY DEF Screens
  <2>2. screen' \in Screens /\ PageTyped' /\ FormTyped' /\ CallsTyped(calls)'
    BY <1>0, <1>7, <2>1, MountTyped DEF Go, AccountTyped
  <2>3. UNCHANGED <<signedIn, dialog, auth>> /\ Act
    BY <1>7 DEF Go
  <2> QED BY <1>0, <2>2, <2>3 DEF AccountTyped, PlaceTyped, AuthTyped, auth
<1>8. ASSUME NEW kind \in {"chara", "chip"}, setKind(kind) PROVE AccountTyped'
  <2>1. PageTyped'
    BY <1>0, <1>8 DEF setKind, PageTyped, Page, Lists
  <2> DEFINE c == reload(kind, TRUE, stored)
  <2>2. c \in Call /\ c.state = "sent" /\ c.op # "graphics"
    BY <1>0, BlankTyped DEF reload, Call, Lists
  <2>3. Act /\ Start(c)
    BY <1>8 DEF setKind
  <2> HIDE DEF c
  <2> QED BY <2>1, <2>2, <2>3, StartTyped
<1> QED BY <1>2, <1>3, <1>4, <1>5, <1>6, <1>7, <1>8

LEMMA RegisterScreenTyped ==
    ASSUME AccountTyped,
           \/ loadGraphics \/ submitCharacter
           \/ \E on \in BOOLEAN : registering(on)
           \/ \E s \in Servers \cup {Nowhere} : TypeServer(s)
           \/ \E i \in 0..form.offers : setImageIndex(i)
    PROVE  AccountTyped'
<1>0. /\ form \in Form /\ stored \in Nat /\ screen \in Screens
      /\ Act => BoundsTyped' /\ ServerTyped'
  BY ActTyped DEF AccountTyped, FormTyped, AuthTyped, PlaceTyped
<1>1. CASE loadGraphics
  <2>1. form' = [form EXCEPT !.loading = TRUE, !.target = Nowhere, !.offers = 0]
        /\ form.typed \in Servers
    BY <1>0, <1>1 DEF loadGraphics, Form
  <2>2. FormTyped'
    BY <1>0, <2>1 DEF FormTyped, Form
  <2> DEFINE c == [Blank EXCEPT !.op = "graphics", !.auth = stored, !.to = form.typed]
  <2>3. c \in Call /\ c.state = "sent" /\ c.to \in Servers
    BY <1>0, <2>1, BlankTyped DEF Call
  <2>4. calls' = Issued(calls, c)
    BY <1>1 DEF loadGraphics
  <2> HIDE DEF c
  <2>5. Answered(c)
    BY <2>3 DEF Answered
  <2>6. CallsTyped(Issued(calls, c))
    BY <2>3, <2>5, IssuedTyped DEF AccountTyped
  <2>7. UNCHANGED <<signedIn, screen, page, dialog, auth>> /\ Act
    BY <1>1 DEF loadGraphics
  <2> QED BY <1>0, <2>2, <2>4, <2>6, <2>7
          DEF AccountTyped, PlaceTyped, PageTyped, AuthTyped, auth, CallsTyped
<1>2. CASE submitCharacter
  <2>1. FormTyped'
    BY <1>0, <1>2 DEF submitCharacter, FormTyped, Form
  <2> DEFINE c == [Blank EXCEPT !.op = "register", !.auth = stored, !.to = form.target,
                                !.index = form.index]
  <2>2. c \in Call /\ c.state = "sent" /\ c.op # "graphics"
    BY <1>0, BlankTyped DEF Call, Form
  <2>3. calls' = Issued(calls, c)
    BY <1>2 DEF submitCharacter
  <2> HIDE DEF c
  <2>4. CallsTyped(calls)'
    BY <2>2, <2>3, MadeTyped DEF AccountTyped
  <2>5. UNCHANGED <<signedIn, screen, page, dialog, auth>> /\ Act
    BY <1>2 DEF submitCharacter
  <2> QED BY <1>0, <2>1, <2>4, <2>5 DEF AccountTyped, PlaceTyped, PageTyped, AuthTyped, auth
<1>3. ASSUME NEW on \in BOOLEAN, registering(on) PROVE AccountTyped'
  <2>1. CallsTyped({c \in calls : c.op # "graphics"})
    BY FewerTyped DEF AccountTyped
  <2>2. screen' \in Screens
    BY <1>3 DEF registering, Screens
  <2>3. FormTyped'
    BY <1>3, BlankFormTyped DEF registering, FormTyped
  <2>4. /\ calls' = {c \in calls : c.op # "graphics"}
        /\ UNCHANGED <<signedIn, page, dialog, auth>> /\ Act
    BY <1>3 DEF registering
  <2> QED BY <1>0, <2>1, <2>2, <2>3, <2>4
          DEF AccountTyped, PlaceTyped, PageTyped, AuthTyped, auth, CallsTyped
<1>4. ASSUME NEW f \in Form, Fill(f) PROVE AccountTyped'
  BY <1>4 DEF Fill, AccountTyped, PlaceTyped, PageTyped, FormTyped, AuthTyped, auth, CallsTyped,
              ServerTyped, BoundsTyped, bounds
<1>5. ASSUME NEW s \in Servers \cup {Nowhere}, TypeServer(s) PROVE AccountTyped'
  <2>1. [form EXCEPT !.typed = s] \in Form
    BY <1>0 DEF Form
  <2> QED BY <1>4, <1>5, <2>1 DEF TypeServer
<1>6. ASSUME NEW i \in 0..form.offers, setImageIndex(i) PROVE AccountTyped'
  <2>1. [form EXCEPT !.index = i] \in Form
    BY <1>0 DEF Form
  <2> QED BY <1>4, <1>6, <2>1 DEF setImageIndex
<1> QED BY <1>1, <1>2, <1>3, <1>5, <1>6

LEMMA EffectTyped ==
    ASSUME ServerTyped, NEW c \in Call, c.op = "login" => server.issued < MaxTokens
    PROVE  /\ Effect(c) \in [version : [Lists -> Nat], good : SUBSET (1..MaxTokens),
                             issued : 0..MaxTokens]
           /\ c.op = "login" => server.issued + 1 \in 1..MaxTokens
<1>1. c.op = "login" => server.issued + 1 \in 1..MaxTokens
  BY AccountAssumption DEF ServerTyped
<1>2. CASE Changes(c)
  <2>1. Effect(c) = [server EXCEPT !.version[c.list] = @ + 1]
    BY <1>2 DEF Effect, Changes
  <2>2. c.list \in Lists /\ server.version \in [Lists -> Nat]
    BY DEF Call, ServerTyped
  <2>3. [server.version EXCEPT ![c.list] = @ + 1] \in [Lists -> Nat]
    BY <2>2
  <2> QED BY <1>1, <2>1, <2>3 DEF ServerTyped
<1>3. CASE c.op = "login"
  <2>1. Effect(c) = [server EXCEPT !.issued = @ + 1, !.good = @ \cup {server.issued + 1}]
    BY <1>3 DEF Effect, Changes
  <2>2. server.issued + 1 \in 0..MaxTokens /\ server.good \cup {server.issued + 1} \in SUBSET (1..MaxTokens)
    BY <1>1, <1>3, AccountAssumption DEF ServerTyped
  <2> QED BY <1>1, <2>1, <2>2 DEF ServerTyped
<1>4. CASE c.op = "logout"
  <2>1. Effect(c) = [server EXCEPT !.good = @ \ {c.auth}]
    BY <1>4 DEF Effect, Changes
  <2> QED BY <1>1, <2>1 DEF ServerTyped
<1>5. CASE c.op \in {"get", "signup", "open", "graphics"}
  <2>1. Effect(c) = server
    BY <1>5 DEF Effect, Changes
  <2> QED BY <1>1, <2>1 DEF ServerTyped
<1> QED BY <1>2, <1>3, <1>4, <1>5 DEF Call, Changes

LEMMA ServeTyped ==
    ASSUME AccountTyped, NEW c \in calls, Serve(c)
    PROVE  AccountTyped'
<1>0. /\ c \in Call /\ Answered(c) /\ ServerTyped /\ page \in Page /\ CallsTyped(calls)
      /\ c.op = "login" => server.issued < MaxTokens
  BY DEF AccountTyped, CallsTyped, PageTyped, Serve
<1>1. PICK ok \in {Allowed(c), FALSE} :
          /\ faults' = IF Allowed(c) /\ ~ok THEN faults + 1 ELSE faults
          /\ faults' <= MaxFaults
          /\ server' \in IF ok THEN {Effect(c)}
                         ELSE IF Allowed(c) THEN {server, Effect(c)} ELSE {server}
          /\ calls' = (calls \ {c})
                        \cup {[c EXCEPT !.state = IF ok THEN "ok" ELSE "failed",
                                        !.result = IF ok THEN Result(c) ELSE -1]}
          /\ page' = [page EXCEPT !.disturbed = @ \/ ~ok \/ (Changes(c) /\ ~c.live)]
  BY DEF Serve
<1>2. BoundsTyped'
  <2>1. acts' = acts /\ faults' \in {faults, faults + 1} /\ faults' <= MaxFaults
    BY <1>1 DEF Serve
  <2> QED BY <2>1, AccountAssumption DEF AccountTyped, BoundsTyped
<1>3. ServerTyped'
  <2>1. server' \in {server, Effect(c)}
    BY <1>1
  <2> QED BY <1>0, <2>1, EffectTyped DEF ServerTyped
<1>4. PageTyped'
  <2>1. page' = [page EXCEPT !.disturbed = page.disturbed \/ ~ok \/ (Changes(c) /\ ~c.live)]
    BY <1>1
  <2>2. (page.disturbed \/ ~ok \/ (Changes(c) /\ ~c.live)) \in BOOLEAN
    OBVIOUS
  <2> QED BY <1>0, <2>1, <2>2 DEF PageTyped, Page
<1>5. CallsTyped(calls)'
  <2> DEFINE d == [c EXCEPT !.state = IF ok THEN "ok" ELSE "failed",
                            !.result = IF ok THEN Result(c) ELSE -1]
  <2>1. /\ c.op \in {"get"} => Result(c) \in Nat
        /\ c.op = "login" => Result(c) \in 1..MaxTokens
        /\ c.op = "graphics" => Result(c) \in Nat
        /\ c.op \notin {"get", "login", "graphics"} => Result(c) = -1
    BY <1>0, EffectTyped, AccountAssumption DEF Result, Answered, ServerTyped, Call
  <2>2. Result(c) \in Int
    BY <2>1, AccountAssumption
  <2>3. d \in Call
    <3> DEFINE state == IF ok THEN "ok" ELSE "failed"
               result == IF ok THEN Result(c) ELSE -1
    <3>1. state \in {"ok", "failed"} /\ result \in Int
      BY <2>2
    <3>2. d = [c EXCEPT !.state = state, !.result = result]
      OBVIOUS
    <3> HIDE DEF d, state, result
    <3> QED BY <1>0, <3>1, <3>2 DEF Call
  <2>4. d.op = c.op /\ d.to = c.to /\ (d.state = "ok" => d.result = Result(c))
    BY <1>0 DEF Call
  <2> HIDE DEF d
  <2>5. Answered(d)
    BY <1>0, <2>1, <2>4 DEF Answered
  <2>6. CallsTyped(calls \ {c})
    BY <1>0, FewerTyped
  <2>7. CallsTyped((calls \ {c}) \cup {d})
    BY <2>3, <2>5, <2>6, FS_AddElement DEF CallsTyped
  <2>8. calls' = (calls \ {c}) \cup {d}
    BY <1>1 DEF d
  <2> QED BY <2>7, <2>8 DEF CallsTyped
<1>6. UNCHANGED <<signedIn, screen, form, dialog, auth>>
  BY DEF Serve
<1> QED BY <1>2, <1>3, <1>4, <1>5, <1>6 DEF AccountTyped, PlaceTyped, FormTyped, AuthTyped, auth

LEMMA AnswersKeep ==
    ASSUME AccountTyped, NEW c, Answers(c)
    PROVE  ServerTyped' /\ BoundsTyped'
  BY DEF Answers, AccountTyped, ServerTyped, BoundsTyped, bounds

LEMMA FailureIsBoolean == \A x : \E b \in BOOLEAN : b = (x = "failed")
<1> SUFFICES ASSUME NEW x PROVE \E b \in BOOLEAN : b = (x = "failed")
  OBVIOUS
<1>1. CASE x = "failed"
  <2>1. TRUE = (x = "failed")
    BY <1>1
  <2> QED BY <2>1
<1>2. CASE x # "failed"
  <2>1. FALSE = (x = "failed")
    BY <1>2
  <2> QED BY <2>1, Zenon
<1> QED BY <1>1, <1>2

(* The answers of the lists, and those after which a screen gives way.     *)
LEMMA ListAnswersTyped ==
    ASSUME AccountTyped, NEW c \in calls, AnswerGet(c) \/ AnswerChange(c)
    PROVE  AccountTyped'
<1>0. /\ c \in Call /\ Answered(c) /\ page \in Page /\ stored \in Nat
      /\ CallsTyped(calls) /\ CallsTyped(calls \ {c})
  BY FewerTyped DEF AccountTyped, CallsTyped, PageTyped, AuthTyped
<1>1. ServerTyped' /\ BoundsTyped'
  BY AnswersKeep DEF AnswerGet, AnswerChange
<1>2. UNCHANGED <<signedIn, screen, form, dialog, auth>>
  BY DEF AnswerGet, AnswerChange
<1>3. PageTyped' /\ CallsTyped(calls)'
  <2>1. CASE AnswerGet(c)
    <3>1. PICK failed \in BOOLEAN : failed = (c.state = "failed")
      BY FailureIsBoolean
    <3>2. page' = IF c.list # page.list \/ c.state = "failed"
                 THEN [page EXCEPT !.busy = @ /\ ~c.frees, !.error = failed]
                 ELSE [page EXCEPT !.busy = @ /\ ~c.frees, !.error = FALSE,
                                   !.shown = c.result, !.best = Max(@, c.result)]
      BY <2>1, <3>1 DEF AnswerGet
    <3>3. ASSUME c.state # "failed"
          PROVE  c.result \in Nat /\ Max(page.best, c.result) \in Nat \cup {-1}
      BY <1>0, <2>1, <3>3 DEF AnswerGet, Answers, Answered, Call, Max, Page
    <3>4. c.frees \in BOOLEAN /\ page.busy \in BOOLEAN
      BY <1>0 DEF Call, Page
    <3>5. page' \in Page
      <4>1. CASE c.list # page.list \/ c.state = "failed"
        BY <1>0, <3>2, <3>4, <4>1 DEF Page
      <4>2. CASE ~(c.list # page.list \/ c.state = "failed")
        BY <1>0, <3>2, <3>3, <3>4, <4>2 DEF Page
      <4> QED BY <4>1, <4>2
    <3>6. calls' = calls \ {c}
      BY <2>1 DEF AnswerGet
    <3> QED BY <1>0, <3>5, <3>6 DEF PageTyped, CallsTyped
  <2>2. CASE AnswerChange(c)
    <3>1. PageTyped'
      BY <1>0, <2>2 DEF AnswerChange, PageTyped, Page
    <3>2. CallsTyped(Reloaded(c))
      <4>1. LET r == reload(c.list, TRUE, stored) IN r \in Call /\ Answered(r)
        BY <1>0, ReloadTyped DEF Call
      <4> QED BY <1>0, <4>1, IssuedTyped DEF Reloaded
    <3>3. calls' \in {Reloaded(c), calls \ {c}}
      BY <2>2 DEF AnswerChange
    <3> QED BY <1>0, <3>1, <3>2, <3>3 DEF CallsTyped
  <2> QED BY <2>1, <2>2
<1> QED BY <1>1, <1>2, <1>3 DEF AccountTyped, PlaceTyped, FormTyped, AuthTyped, auth

LEMMA LoginAnswerTyped ==
    ASSUME AccountTyped, NEW c \in calls, AnswerLogin(c)
    PROVE  AccountTyped'
<1>0. /\ c \in Call /\ Answered(c) /\ page \in Page /\ screen \in Screens
      /\ CallsTyped(calls \ {c}) /\ dialog' = dialog
  BY FewerTyped DEF AccountTyped, CallsTyped, PageTyped, PlaceTyped, AnswerLogin
<1>1. ServerTyped' /\ BoundsTyped'
  BY AnswersKeep DEF AnswerLogin
<1>2. CASE c.state = "ok" /\ c.op = "login"
  <2>1. /\ token' = c.result /\ stored' = c.result /\ isAdmin' \in BOOLEAN
        /\ signedIn' = TRUE /\ Mount(screen, c.result, calls \ {c})
    BY <1>2 DEF AnswerLogin
  <2>2. c.result \in 0..MaxTokens /\ c.result \in Nat
    BY <1>0, <1>2, AccountAssumption DEF Answered
  <2>3. AuthTyped'
    BY <2>1, <2>2 DEF AuthTyped
  <2>4. screen' \in Screens /\ PageTyped' /\ FormTyped' /\ CallsTyped(calls)'
    BY <1>0, <2>1, <2>2, MountTyped
  <2> QED BY <1>0, <1>1, <2>1, <2>3, <2>4 DEF AccountTyped, PlaceTyped
<1>3. CASE ~(c.state = "ok" /\ c.op = "login")
  <2>1. PICK failed \in BOOLEAN : failed = (c.state = "failed")
    BY FailureIsBoolean
  <2>2. /\ page' = [page EXCEPT !.busy = FALSE, !.error = failed,
                                !.phase = IF c.state = "ok" THEN "login" ELSE @]
        /\ calls' = calls \ {c}
        /\ UNCHANGED <<signedIn, screen, form, auth>>
    BY <1>3, <2>1 DEF AnswerLogin
  <2>3. PageTyped'
    BY <1>0, <2>2 DEF PageTyped, Page
  <2> QED BY <1>0, <1>1, <2>2, <2>3
          DEF AccountTyped, PlaceTyped, FormTyped, AuthTyped, auth, CallsTyped
<1> QED BY <1>2, <1>3

LEMMA LeavingAnswersTyped ==
    ASSUME AccountTyped, NEW c \in calls, AnswerLogout(c) \/ AnswerOpen(c)
    PROVE  AccountTyped'
<1>0. /\ page \in Page /\ screen \in Screens /\ dialog' = dialog
      /\ CallsTyped(calls \ {c}) /\ CallsTyped(Orphaned(calls \ {c}))
  BY FewerTyped, OrphanedTyped
  DEF AccountTyped, PageTyped, PlaceTyped, AnswerLogout, AnswerOpen
<1>1. ServerTyped' /\ BoundsTyped'
  BY AnswersKeep DEF AnswerLogout, AnswerOpen
<1>2. AuthTyped'
  BY AccountAssumption DEF AnswerLogout, AnswerOpen, AccountTyped, AuthTyped, auth, NoToken
<1>3. calls' \in {calls \ {c}, Orphaned(calls \ {c})}
  BY DEF AnswerLogout, AnswerOpen
<1>4. CallsTyped(calls)'
  BY <1>0, <1>3 DEF CallsTyped
<1>5. PageTyped'
  <2>1. page' \in {page, Fresh("select"), Fresh("game"), [page EXCEPT !.busy = FALSE, !.error = TRUE]}
    BY DEF AnswerLogout, AnswerOpen
  <2>2. [page EXCEPT !.busy = FALSE, !.error = TRUE] \in Page
    BY <1>0 DEF Page
  <2>3. Fresh("select") \in Page /\ Fresh("game") \in Page
    BY FreshTyped DEF Screens
  <2> QED BY <1>0, <2>1, <2>2, <2>3 DEF PageTyped
<1>6. FormTyped'
  BY BlankFormTyped DEF AnswerLogout, AnswerOpen, AccountTyped, FormTyped
<1>7. signedIn' \in BOOLEAN /\ screen' \in Screens
  BY <1>0 DEF AnswerLogout, AnswerOpen, AccountTyped, PlaceTyped, Screens, Admin
<1> QED BY <1>0, <1>1, <1>2, <1>4, <1>5, <1>6, <1>7 DEF AccountTyped, PlaceTyped

LEMMA FormAnswersTyped ==
    ASSUME AccountTyped, NEW c \in calls, AnswerGraphics(c) \/ AnswerRegister(c)
    PROVE  AccountTyped'
<1>0. /\ c \in Call /\ Answered(c) /\ form \in Form /\ stored \in Nat
      /\ CallsTyped(calls \ {c}) /\ UNCHANGED <<signedIn, page, dialog, auth>>
  <2>1. c \in Call /\ Answered(c) /\ CallsTyped(calls \ {c})
    BY FewerTyped DEF AccountTyped, CallsTyped
  <2>2. form \in Form /\ stored \in Nat
    BY DEF AccountTyped, FormTyped, AuthTyped
  <2>3. UNCHANGED <<signedIn, page, dialog, auth>>
    BY DEF AnswerGraphics, AnswerRegister
  <2> QED BY <2>1, <2>2, <2>3
<1>1. ServerTyped' /\ BoundsTyped'
  BY AnswersKeep DEF AnswerGraphics, AnswerRegister
<1>2. CASE AnswerGraphics(c)
  <2>1. form' = IF c.state = "ok" THEN Offered(c) ELSE [form EXCEPT !.loading = FALSE]
    BY <1>2 DEF AnswerGraphics
  <2>2. c.state = "ok" => c.result \in Nat /\ c.to \in Servers
    BY <1>0, <1>2 DEF AnswerGraphics, Answered
  <2>3. FormTyped'
    BY <1>0, <2>1, <2>2 DEF Offered, FormTyped, Form
  <2>4. calls' = calls \ {c} /\ screen' = screen
    BY <1>2 DEF AnswerGraphics
  <2> QED BY <1>0, <1>1, <2>3, <2>4
          DEF AccountTyped, PlaceTyped, PageTyped, AuthTyped, auth, CallsTyped
<1>3. CASE AnswerRegister(c)
  <2> DEFINE r == reload("characters", FALSE, stored)
  <2>1. r \in Call /\ Answered(r)
    BY <1>0, ReloadTyped DEF Lists
  <2> HIDE DEF r
  <2>2. CallsTyped(Issued(calls \ {c}, r))
    BY <1>0, <2>1, IssuedTyped
  <2>3. calls' \in {calls \ {c}, Issued(calls \ {c}, r)}
    BY <1>3 DEF AnswerRegister, r
  <2>4. CallsTyped(calls)'
    BY <1>0, <2>2, <2>3 DEF CallsTyped
  <2>5. FormTyped'
    BY <1>0, <1>3, BlankFormTyped DEF AnswerRegister, FormTyped, Form
  <2>6. screen' \in Screens
    BY <1>3 DEF AnswerRegister, AccountTyped, PlaceTyped, Screens
  <2> QED BY <1>0, <1>1, <2>4, <2>5, <2>6 DEF AccountTyped, PlaceTyped, PageTyped, AuthTyped, auth
<1> QED BY <1>2, <1>3

LEMMA AccountTypedStep == AccountTyped /\ [AccountNext]_accountVars => AccountTyped'
<1> SUFFICES ASSUME AccountTyped, [AccountNext]_accountVars PROVE AccountTyped'
  OBVIOUS
<1>1. CASE EnterAccount \/ handleLogout \/ TokenRefused
  BY <1>1, EnterTyped, LogoutTyped, RefusedTyped
<1>2. ASSUME NEW phase \in {"login", "signup"}, setPhase(phase) PROVE AccountTyped'
  BY <1>2, PhaseTyped
<1>3. CASE \/ handleSelect \/ Add \/ DeleteCharacter \/ AskDelete \/ ConfirmDelete
           \/ \E s \in {"select"} \cup Admin : Go(s)
           \/ \E kind \in {"chara", "chip"} : setKind(kind)
  BY <1>3, ScreensTyped
<1>4. CASE \/ loadGraphics \/ submitCharacter
           \/ \E on \in BOOLEAN : registering(on)
           \/ \E s \in Servers \cup {Nowhere} : TypeServer(s)
           \/ \E i \in 0..form.offers : setImageIndex(i)
  BY <1>4, RegisterScreenTyped
<1>5. ASSUME NEW c \in calls,
             \/ Serve(c) \/ AnswerGet(c) \/ AnswerChange(c) \/ AnswerLogin(c) \/ AnswerLogout(c)
             \/ AnswerOpen(c) \/ AnswerGraphics(c) \/ AnswerRegister(c)
      PROVE  AccountTyped'
  BY <1>5, ServeTyped, ListAnswersTyped, LoginAnswerTyped, LeavingAnswersTyped, FormAnswersTyped
<1>6. CASE UNCHANGED accountVars
  BY <1>6 DEF accountVars, auth, bounds, AccountTyped, PlaceTyped, PageTyped, FormTyped, AuthTyped,
              CallsTyped, ServerTyped, BoundsTyped
<1> QED BY <1>1, <1>2, <1>3, <1>4, <1>5, <1>6 DEF AccountNext

LEMMA AccountTypedImplies == AccountTyped => AccountTypeOK
  BY DEF AccountTyped, AccountTypeOK, PlaceTyped, PageTyped, FormTyped, AuthTyped, CallsTyped,
         ServerTyped, BoundsTyped

(* The types of the account screens hold always: whatever answers come, in  *)
(* whatever order, nothing but a list's version, a token that was issued    *)
(* and graphics of a server are stored from them.                           *)
THEOREM AccountTypes == AccountSpec => []AccountTypeOK
<1>1. AccountInit => AccountTyped
  BY InitTyped
<1>2. AccountTyped /\ [AccountNext]_accountVars => AccountTyped'
  BY AccountTypedStep
<1>3. AccountTyped => AccountTypeOK
  BY AccountTypedImplies
<1> QED BY <1>1, <1>2, <1>3, PTL DEF AccountSpec
=============================================================================
