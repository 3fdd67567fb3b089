--------------------------- MODULE AccountScreens ---------------------------
(***************************************************************************)
(* The screens around the game and their REST calls: login and sign-up     *)
(* (components/Login.tsx), the characters (CharacterSelect.tsx), the       *)
(* creation of one (Register.tsx) and the administration (Admin/*.tsx).    *)
(*                                                                         *)
(* Calls run side by side: each is served at some moment and answered at a *)
(* later one, in any order.  What a list holds is abstracted to the number *)
(* of changes that made it.                                                *)
(***************************************************************************)
EXTENDS Integers, FiniteSets

CONSTANTS
    Servers,    \* game servers that can be typed
    Graphics,   \* how many initial graphics each offers
    Nowhere,    \* no server, or an address that is not one
    MaxTokens,  \* logins
    MaxActs,    \* things that the user does
    MaxFaults   \* calls that fail, tokens that are refused

ASSUME AccountAssumption ==
    /\ Graphics \in [Servers -> Nat] /\ Nowhere \notin Servers
    /\ MaxTokens \in Nat \ {0} /\ MaxActs \in Nat /\ MaxFaults \in Nat

VARIABLES
    signedIn,  \* App.loggedIn
    screen,    \* what App renders then
    page,      \* state of Login or of the component with the list
    form,      \* state of Register
    dialog,    \* uiStore.confirm: the list of its closure
    token,     \* WsController.token
    stored,    \* localStorage phi_token
    isAdmin,
    calls,     \* under way
    server,    \* version of each list and the tokens that are good
    acts, faults

auth == <<token, stored, isAdmin>>
bounds == <<acts, faults>>
accountVars == <<signedIn, screen, page, form, dialog, auth, calls, server, bounds>>

NoToken == 0
Lists == {"characters", "chara", "chip", "index", "accounts"}
Admin == {"assets", "index", "users"}
Screens == {"select", "register", "game"} \cup Admin
ListOf(s) == CASE s = "assets" -> "chara" [] s = "index" -> "index" [] s = "users" -> "accounts"
               [] s \notin Admin -> "characters"

Call == [op : {"get", "add", "remove", "login", "signup", "logout", "open", "graphics",
               "register"},
         list : Lists, auth : Nat, to : Servers \cup {Nowhere}, index : Nat,
         state : {"sent", "ok", "failed"}, result : Int,
         live : BOOLEAN,   \* the component that waits for it is there
         frees : BOOLEAN,  \* its end sets busy back
         id : Nat]

(* best and disturbed are history: the newest answer that the list was     *)
(* given, and whether a call failed, or one of an earlier visit was        *)
(* carried out, since the component mounted.                               *)
Page == [phase : {"login", "signup"}, list : Lists, shown : Nat \cup {-1},
         best : Nat \cup {-1}, error : BOOLEAN, formError : BOOLEAN, busy : BOOLEAN,
         asks : BOOLEAN,   \* uiStore.confirm is a closure of this component
         disturbed : BOOLEAN]
Fresh(s) == [phase |-> "login", list |-> ListOf(s), shown |-> -1, best |-> -1,
             error |-> FALSE, formError |-> FALSE, busy |-> s \in Admin, asks |-> FALSE,
             disturbed |-> FALSE]
Form == [typed : Servers \cup {Nowhere}, target : Servers \cup {Nowhere}, offers : Nat,
         index : Nat, loading : BOOLEAN, busy : BOOLEAN]
BlankForm == [typed |-> Nowhere, target |-> Nowhere, offers |-> 0, index |-> 0,
              loading |-> FALSE, busy |-> FALSE]

AccountTypeOK ==
    /\ signedIn \in BOOLEAN /\ screen \in Screens
    /\ page \in Page /\ form \in Form
    /\ dialog \in Lists \cup {"none"}
    /\ token \in 0..MaxTokens /\ stored \in 0..MaxTokens /\ isAdmin \in BOOLEAN
    /\ \A c \in calls : c \in Call
    /\ server.version \in [Lists -> Nat] /\ server.good \subseteq 1..MaxTokens
    /\ server.issued \in 0..MaxTokens
    /\ acts \in 0..MaxActs /\ faults \in 0..MaxFaults
-----------------------------------------------------------------------------
Blank == [op |-> "get", list |-> "characters", auth |-> NoToken, to |-> Nowhere, index |-> 0,
          state |-> "sent", result |-> -1, live |-> TRUE, frees |-> TRUE, id |-> 0]
Issued(cs, c) ==
    cs \cup {[c EXCEPT !.id = CHOOSE n \in 0..Cardinality(cs) : \A other \in cs : other.id # n]}
(* Nobody waits any more: what a load brings is ignored. *)
Orphaned(cs) == {[c EXCEPT !.live = FALSE] : c \in {d \in cs : d.op \notin {"get", "graphics"}}}

(* Every call carries the token that is stored when it is made.  The       *)
(* reload() of CharacterSelect sets busy back only after a change.         *)
reload(list, frees, tok) == [Blank EXCEPT !.list = list, !.frees = frees, !.auth = tok]

(* Another component mounts and loads its list; what the one before waits  *)
(* for is answered to nobody.                                              *)
Mount(s, tok, cs) ==
    /\ screen' = s
    /\ page' = Fresh(s) /\ form' = BlankForm
    /\ calls' = IF s = "game" THEN Orphaned(cs)
                ELSE Issued(Orphaned(cs), reload(ListOf(s), s \in Admin, tok))

AccountInit ==
    /\ token \in {NoToken, 1} /\ stored = token
    /\ isAdmin \in {FALSE, token = 1}
    /\ signedIn = (token = 1) /\ screen = "select"
    /\ page = Fresh("select") /\ form = BlankForm /\ dialog = "none"
    /\ calls = IF signedIn THEN {reload("characters", FALSE, 1)} ELSE {}
    /\ server = [version |-> [l \in Lists |-> 0], good |-> {1} \cap {token}, issued |-> token]
    /\ acts = 0 /\ faults = 0

Act == acts < MaxActs /\ acts' = acts + 1 /\ UNCHANGED <<server, faults>>
On(ss) == signedIn /\ screen \in ss
Idle(ss) == On(ss) /\ ~page.busy

(* A button of the component starts a call. *)
Start(c) ==
    /\ calls' = Issued(calls, c)
    /\ UNCHANGED <<signedIn, screen, form, dialog, auth>>
-----------------------------------------------------------------------------
(* handleLogin and handleRegister of Login.  Its links are not disabled.   *)
EnterAccount ==
    /\ ~signedIn /\ ~page.busy
    /\ Act
    /\ \/ /\ page' = [page EXCEPT !.busy = TRUE, !.error = FALSE]
          /\ Start([Blank EXCEPT !.op = page.phase])
       \/ /\ page' = [page EXCEPT !.error = TRUE]    \* a field is empty
          /\ UNCHANGED <<signedIn, screen, form, dialog, auth, calls>>
setPhase(phase) ==
    /\ ~signedIn /\ phase # page.phase
    /\ Act
    /\ page' = [page EXCEPT !.phase = phase, !.error = FALSE]
    /\ UNCHANGED <<signedIn, screen, form, dialog, auth, calls>>

(* logout(), from the menu of the game or from the characters: everything  *)
(* is cleared before the call, and the token once more after it.  The game *)
(* gives way to the characters.                                            *)
clearAuth == token' = NoToken /\ stored' = NoToken
handleLogout ==
    LET bye == [Blank EXCEPT !.op = "logout", !.auth = token] IN
    /\ On({"game"}) \/ Idle({"select"})
    /\ Act
    /\ clearAuth /\ isAdmin' = FALSE /\ dialog' = "none"
    /\ CASE token = NoToken -> /\ signedIn' = FALSE /\ screen' = "select"
                               /\ page' = Fresh("select") /\ UNCHANGED form
                               /\ calls' = Orphaned(calls)
         [] token # NoToken /\ screen = "game" ->
                 Mount("select", NoToken, Issued(calls, bye)) /\ UNCHANGED signedIn
         [] token # NoToken /\ screen # "game" ->
                 /\ page' = [page EXCEPT !.busy = TRUE]
                 /\ calls' = Issued(calls, bye) /\ UNCHANGED <<signedIn, screen, form>>

(* The gateway refuses the token on the WebSocket: App stays where it is.  *)
TokenRefused ==
    /\ faults < MaxFaults /\ faults' = faults + 1
    /\ token # NoToken /\ clearAuth
    /\ server' = [server EXCEPT !.good = @ \ {token}]
    /\ UNCHANGED <<signedIn, screen, page, form, dialog, isAdmin, calls, acts>>

(* handleSelect: session.open goes over the WebSocket. *)
handleSelect ==
    /\ Idle({"select"}) /\ page.shown > 0
    /\ Act
    /\ page' = [page EXCEPT !.busy = TRUE, !.error = FALSE]
    /\ Start([Blank EXCEPT !.op = "open"])

(* The last tab is closed, the administration is opened, closed, turned.   *)
Go(s) ==
    /\ CASE s = "select" -> On(Admin \cup {"game"})
         [] s = "assets" -> On({"index", "users"}) \/ (Idle({"select"}) /\ isAdmin)
         [] s \in {"index", "users"} -> On(Admin \ {s})
    /\ Act
    /\ Mount(s, stored, calls)
    /\ UNCHANGED <<signedIn, dialog, auth>>

(* AssetManager: the other kind is loaded at once. *)
setKind(kind) ==
    /\ On({"assets"}) /\ kind # page.list
    /\ Act
    /\ page' = [page EXCEPT !.list = kind, !.shown = -1, !.best = -1, !.busy = TRUE]
    /\ Start(reload(kind, TRUE, stored))
-----------------------------------------------------------------------------
(* An addition, an upload, an entry, a toggle or a password; a form that   *)
(* is not filled in is an error.                                           *)
Add ==
    /\ Idle({"select"} \cup Admin)
    /\ Act
    /\ \/ /\ page' = IF screen = "select" THEN [page EXCEPT !.busy = TRUE, !.formError = FALSE]
                                          ELSE [page EXCEPT !.busy = TRUE, !.error = FALSE]
          /\ Start([Blank EXCEPT !.op = "add", !.list = page.list, !.auth = stored])
       \/ /\ page' = IF screen = "select" THEN [page EXCEPT !.formError = TRUE]
                                          ELSE [page EXCEPT !.error = TRUE]
          /\ UNCHANGED <<signedIn, screen, form, dialog, auth, calls>>

(* A character is removed at once, the rest after a question, which keeps  *)
(* its list and outlives the component: what is confirmed then is waited   *)
(* for by one that is gone, though the same screen may be shown again.     *)
removal(list) == [Blank EXCEPT !.op = "remove", !.list = list, !.auth = stored]
DeleteCharacter ==
    /\ Idle({"select"}) /\ page.shown > 0
    /\ Act
    /\ page' = [page EXCEPT !.busy = TRUE, !.error = FALSE]
    /\ Start(removal("characters"))
AskDelete ==
    /\ Idle(Admin) /\ page.shown > 0
    /\ Act
    /\ dialog' = page.list
    /\ page' = [page EXCEPT !.asks = TRUE]
    /\ UNCHANGED <<signedIn, screen, form, auth, calls>>
ConfirmDelete ==
    /\ dialog # "none" /\ dialog' = "none"
    /\ Act
    /\ calls' = Issued(calls, [removal(dialog) EXCEPT !.live = page.asks])
    /\ page' = IF page.asks THEN [page EXCEPT !.asks = FALSE, !.busy = TRUE,
                                              !.error = @ /\ dialog # "accounts"]
                            ELSE page
    /\ UNCHANGED <<signedIn, screen, form, auth>>
-----------------------------------------------------------------------------
(* Register. *)
registering(on) ==
    /\ IF on THEN Idle({"select"}) ELSE On({"register"}) /\ ~form.busy
    /\ Act
    /\ screen' = (IF on THEN "register" ELSE "select") /\ form' = BlankForm
    /\ calls' = {c \in calls : c.op # "graphics"}
    /\ UNCHANGED <<signedIn, page, dialog, auth>>
Fill(f) ==
    /\ On({"register"})
    /\ form' = f
    /\ UNCHANGED <<signedIn, screen, page, dialog, auth, calls, server, bounds>>
TypeServer(s) == Fill([form EXCEPT !.typed = s])
setImageIndex(i) == i < form.offers /\ Fill([form EXCEPT !.index = i])

loadGraphics ==
    /\ On({"register"}) /\ ~form.busy /\ ~form.loading /\ form.typed # Nowhere
    /\ Act
    /\ form' = [form EXCEPT !.loading = TRUE, !.target = Nowhere, !.offers = 0]
    /\ calls' = Issued(calls, [Blank EXCEPT !.op = "graphics", !.auth = stored, !.to = form.typed])
    /\ UNCHANGED <<signedIn, screen, page, dialog, auth>>
submitCharacter ==
    /\ On({"register"}) /\ ~form.busy /\ form.target # Nowhere
    /\ Act
    /\ form' = [form EXCEPT !.busy = TRUE]
    /\ calls' = Issued(calls, [Blank EXCEPT !.op = "register", !.auth = stored,
                                            !.to = form.target, !.index = form.index])
    /\ UNCHANGED <<signedIn, screen, page, dialog, auth>>
-----------------------------------------------------------------------------
(* The service.  A call that fails may have been carried out. *)
Allowed(c) ==
    \/ c.op \in {"login", "signup", "logout", "open"}
    \/ c.op = "get" /\ c.list \in {"chara", "chip", "index"}
    \/ c.auth \in server.good
Changes(c) == c.op \in {"add", "remove", "register"}
Effect(c) ==
    CASE Changes(c) -> [server EXCEPT !.version[c.list] = @ + 1]
      [] c.op = "login" -> [server EXCEPT !.issued = @ + 1, !.good = @ \cup {server.issued + 1}]
      [] c.op = "logout" -> [server EXCEPT !.good = @ \ {c.auth}]
      [] c.op \in {"get", "signup", "open", "graphics"} -> server
Result(c) == CASE c.op = "get" -> server.version[c.list]
               [] c.op = "login" -> server.issued + 1
               [] c.op = "graphics" -> Graphics[c.to]
               [] c.op \notin {"get", "login", "graphics"} -> -1
Serve(c) ==
    /\ c.state = "sent"
    /\ c.op = "login" => server.issued < MaxTokens
    /\ \E ok \in {Allowed(c), FALSE} :
          /\ faults' = IF Allowed(c) /\ ~ok THEN faults + 1 ELSE faults
          /\ faults' <= MaxFaults
          /\ server' \in IF ok THEN {Effect(c)}
                         ELSE IF Allowed(c) THEN {server, Effect(c)} ELSE {server}
          /\ calls' = (calls \ {c})
                        \cup {[c EXCEPT !.state = IF ok THEN "ok" ELSE "failed",
                                        !.result = IF ok THEN Result(c) ELSE -1]}
          /\ page' = [page EXCEPT !.disturbed = @ \/ ~ok \/ (Changes(c) /\ ~c.live)]
    /\ UNCHANGED <<signedIn, screen, form, dialog, auth, acts>>
-----------------------------------------------------------------------------
(* The answers, where they arrive. *)
Answers(c) == c.state # "sent" /\ UNCHANGED <<server, bounds>>
Max(a, b) == IF a > b THEN a ELSE b

AnswerGet(c) ==
    /\ c.op = "get" /\ Answers(c)
    /\ calls' = calls \ {c}
    /\ page' = IF c.list # page.list \/ c.state = "failed"
                 THEN [page EXCEPT !.busy = @ /\ ~c.frees, !.error = c.state = "failed"]
                 ELSE [page EXCEPT !.busy = @ /\ ~c.frees, !.error = FALSE,
                                   !.shown = c.result, !.best = Max(@, c.result)]
    /\ UNCHANGED <<signedIn, screen, form, dialog, auth>>

(* The list is loaded again once the change has been answered. *)
Reloaded_Not(c) == calls \ {c}
Reloaded(c) ==
    IF c.live THEN Issued(calls \ {c}, reload(c.list, TRUE, stored)) ELSE calls \ {c}
AnswerChange(c) ==
    /\ c.op \in {"add", "remove"} /\ Answers(c)
    /\ calls' = IF c.state = "ok" THEN Reloaded(c) ELSE calls \ {c}
    /\ page' = IF ~c.live THEN page
               ELSE IF c.state = "ok" THEN [page EXCEPT !.busy = TRUE]
               ELSE IF screen = "select" /\ c.op = "add"
                 THEN [page EXCEPT !.busy = FALSE, !.formError = TRUE]
                 ELSE [page EXCEPT !.busy = FALSE, !.error = TRUE]
    /\ UNCHANGED <<signedIn, screen, form, dialog, auth>>

AnswerLogin(c) ==
    /\ c.op \in {"login", "signup"} /\ Answers(c)
    /\ IF c.state = "ok" /\ c.op = "login"
         THEN /\ token' = c.result /\ stored' = c.result /\ isAdmin' \in BOOLEAN
              /\ signedIn' = TRUE
              /\ Mount(screen, c.result, calls \ {c})
         ELSE /\ page' = [page EXCEPT !.busy = FALSE, !.error = c.state = "failed",
                                      !.phase = IF c.state = "ok" THEN "login" ELSE @]
              /\ calls' = calls \ {c}
              /\ UNCHANGED <<signedIn, screen, form, auth>>
    /\ UNCHANGED dialog

(* The token goes although a newer one may have been stored; a login       *)
(* screen that is shown already stays.                                     *)
AnswerLogout(c) ==
    /\ c.op = "logout" /\ Answers(c)
    /\ stored' = NoToken /\ UNCHANGED <<token, isAdmin>>
    /\ signedIn' = FALSE
    /\ screen' = CASE screen = "register" -> "select" [] screen \in Admin -> "assets"
                   [] screen \in {"select", "game"} -> screen
    /\ page' = (IF signedIn THEN Fresh("select") ELSE page) /\ form' = BlankForm
    /\ calls' = IF signedIn THEN Orphaned(calls \ {c}) ELSE calls \ {c}
    /\ UNCHANGED dialog

(* setActiveTab() works from a component that is gone, too. *)
AnswerOpen(c) ==
    /\ c.op = "open" /\ Answers(c)
    /\ IF c.state = "ok" /\ screen \in {"select", "register"}
         THEN /\ screen' = "game"
              /\ IF signedIn THEN page' = Fresh("game") /\ calls' = Orphaned(calls \ {c})
                             ELSE UNCHANGED page /\ calls' = calls \ {c}
         ELSE /\ page' = IF c.live THEN [page EXCEPT !.busy = FALSE, !.error = TRUE] ELSE page
              /\ calls' = calls \ {c} /\ UNCHANGED screen
    /\ UNCHANGED <<signedIn, form, dialog, auth>>

Offered_Typed(c) ==
    [form EXCEPT !.loading = FALSE, !.offers = c.result, !.target = form.typed, !.index = 0]
Offered(c) == [form EXCEPT !.loading = FALSE, !.offers = c.result, !.target = c.to, !.index = 0]
AnswerGraphics(c) ==
    /\ c.op = "graphics" /\ Answers(c)
    /\ calls' = calls \ {c}
    /\ form' = IF c.state = "ok" THEN Offered(c) ELSE [form EXCEPT !.loading = FALSE]
    /\ UNCHANGED <<signedIn, screen, page, dialog, auth>>

AnswerRegister(c) ==
    /\ c.op = "register" /\ Answers(c)
    /\ IF c.state = "ok" /\ c.live
         THEN /\ screen' = "select" /\ form' = BlankForm
              /\ calls' = Issued(calls \ {c}, reload("characters", FALSE, stored))
         ELSE /\ form' = IF c.live THEN [form EXCEPT !.busy = FALSE] ELSE form
              /\ calls' = calls \ {c} /\ UNCHANGED screen
    /\ UNCHANGED <<signedIn, page, dialog, auth>>

AccountNext ==
    \/ EnterAccount \/ handleLogout \/ TokenRefused \/ handleSelect
    \/ Add \/ DeleteCharacter \/ AskDelete \/ ConfirmDelete \/ loadGraphics \/ submitCharacter
    \/ \E phase \in {"login", "signup"} : setPhase(phase)
    \/ \E s \in {"select"} \cup Admin : Go(s)
    \/ \E kind \in {"chara", "chip"} : setKind(kind)
    \/ \E on \in BOOLEAN : registering(on)
    \/ \E s \in Servers \cup {Nowhere} : TypeServer(s)
    \/ \E i \in 0..form.offers : setImageIndex(i)
    \/ \E c \in calls :
          \/ Serve(c) \/ AnswerGet(c) \/ AnswerChange(c) \/ AnswerLogin(c) \/ AnswerLogout(c)
          \/ AnswerOpen(c) \/ AnswerGraphics(c) \/ AnswerRegister(c)

AccountSpec == AccountInit /\ [][AccountNext]_accountVars
-----------------------------------------------------------------------------
(* When a screen waits for nothing, it has been given its list as the      *)
(* service has it: every change made from it, a created character too, was *)
(* followed by a load, however loads and changes crossed, whatever kind of *)
(* asset was turned to meanwhile.  (Unless a call of this visit failed or  *)
(* a change of an earlier visit came late; and an older answer that comes  *)
(* last may stay on the screen.)                                           *)
ListsSettle ==
    /\ On({"select"} \cup Admin)
    /\ \A c \in calls : ~c.live
    /\ ~page.disturbed
    => page.best = server.version[page.list]

(* A character is created on the server whose graphics were loaded last,   *)
(* with one of those graphics, whatever is typed, picked, loaded again or  *)
(* cancelled in between.                                                   *)
RegistersWhereLoaded ==
    \A c \in calls :
        c.op = "register" =>
            /\ c.index < Graphics[c.to] \/ (Graphics[c.to] = 0 /\ c.index = 0)
            /\ c.live => c.to = form.target
=============================================================================
