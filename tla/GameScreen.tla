----------------------------- MODULE GameScreen -----------------------------
(***************************************************************************)
(* The game screen but for the chat (ChatBox): the keyboard (lib/          *)
(* useKeyHandler.ts), the buttons, the map's mouse, the list, the edit     *)
(* dialog, the prompt and the help, over the questions that the game asks  *)
(* in each tab.                                                            *)
(*                                                                         *)
(* A key event first meets the handler of the field that has the focus,    *)
(* then the listeners on document.                                         *)
(***************************************************************************)
EXTENDS Keys, FiniteSets

CONSTANTS
    Configs,        \* keybind and display settings
    Typing,         \* the texts that are typed in each field
    Digits,         \* those that are numbers, with their values
    Pressed,        \* key events that are tried
    MaxGameEvents

ASSUME GameAssumption ==
    /\ MaxGameEvents \in Nat
    /\ \A c \in Configs : /\ c.keybind.words \in [Slots -> Optional(Texts)]
                         /\ c.keybind.altG \in Optional(Texts)
    /\ Typing \in [{"spell", "edit", "prompt"} -> SUBSET Texts]
    /\ \A text \in DOMAIN Digits : Digits[text] \in Nat

VARIABLES
    tab,        \* the tab shown
    focus,      \* the field with the focus, or the page
    asks,       \* list, edit and mode stores, by session
    style,      \* mapStore: style of the map, if there is one
    closed,     \* sessions marked closed
    prompt,     \* uiStore.prompt: the session of its closure
    help,       \* uiStore.helpOpen
    typed,      \* what is in the fields that are not the chat
    checked,    \* ListView: checked items
    config,     \* the settings
    out,        \* the messages sent by the last step
    byKey,      \* the last step was a key
    gameEvents  \* for the bound

fields == <<typed, checked>>
dialogs == <<prompt, help>>
world == <<asks, style, closed>>
gameVars == <<tab, focus, asks, style, closed, prompt, help, typed, checked, config,
              out, byKey, gameEvents>>

NoList == [active |-> FALSE, lines |-> <<>>]
Question == [list : [active : BOOLEAN, lines : Seq(Optional(Nat))],
             edit : {"none", "single", "multi"}, magic : BOOLEAN]

(* stripLeadingNumber: an item goes by its own number, or by its place. *)
Item(lines, i) == IF lines[i] = Absent THEN i ELSE lines[i]
Items(s) == {Item(asks[s].list.lines, i) : i \in DOMAIN asks[s].list.lines}

Empty == ""
Fields == {"spell", "edit", "prompt"}

GameTypeOK ==
    /\ tab \in Sessions
    /\ focus \in Fields \cup {"page", "chat", "check"}
    /\ asks \in [Sessions -> Question]
    /\ style \in [Sessions -> Optional({"turn", "solid"})]
    /\ closed \in SUBSET Sessions
    /\ prompt \in Optional(Sessions) /\ help \in BOOLEAN
    /\ typed \in [Fields -> Texts]
    /\ checked \in SUBSET Nat
    /\ config \in Configs
    /\ out \subseteq GameRequest
    /\ byKey \in BOOLEAN
    /\ gameEvents \in 0..MaxGameEvents

GameInit ==
    /\ tab \in Sessions /\ focus = "page"
    /\ asks = [s \in Sessions |-> [list |-> NoList, edit |-> "none", magic |-> FALSE]]
    /\ style = [s \in Sessions |-> Absent]
    /\ closed = {}
    /\ prompt = Absent /\ help = FALSE
    /\ typed = [f \in Fields |-> Empty] /\ checked = {}
    /\ config \in Configs
    /\ out = {} /\ byKey = FALSE /\ gameEvents = 0
-----------------------------------------------------------------------------
(* The fields there are, and where the focus goes when they change: a new  *)
(* field takes it, and that of a field that goes is lost.                  *)
HasSpell(q) == q.list.active /\ q.magic
HasEdit(q) == q.edit = "multi"
There(q, p) ==
    {"page", "chat"} \cup (IF HasSpell(q) THEN {"spell"} ELSE {})
        \cup (IF q.list.active THEN {"check"} ELSE {})
        \cup (IF HasEdit(q) THEN {"edit"} ELSE {})
        \cup (IF p # Absent THEN {"prompt"} ELSE {})
Refocused(f, q, p) ==
    LET new == There(q, p) \ There(asks[tab], prompt) IN
    CASE "prompt" \in new -> "prompt"
      [] "prompt" \notin new /\ "edit" \in new -> "edit"
      [] {"prompt", "edit"} \cap new = {} /\ "spell" \in new -> "spell"
      [] Fields \cap new = {} -> IF f \in There(q, p) THEN f ELSE "page"

FocusOn(f) ==
    /\ f \in There(asks[tab], prompt) \ {focus}
    /\ focus' = f
    /\ out' = {} /\ byKey' = FALSE
    /\ UNCHANGED <<tab, world, dialogs, fields, config, gameEvents>>

(* A click on a button or on the map sends ms; the focus leaves the field. *)
Clicked(ms) ==
    /\ out' = ms /\ byKey' = FALSE
    /\ focus' = "page"
    /\ UNCHANGED <<tab, world, config, gameEvents>>

To(s, request) ==
    [f \in {"session"} \cup DOMAIN request |-> IF f = "session" THEN s ELSE request[f]]
-----------------------------------------------------------------------------
Context == KeyContext(config.keybind, config.displayStyle, style[tab])
OpenHelp == [type |-> "help"]

isInputFocused_Inputs(f) == f \in {"chat", "prompt"}
isInputFocused(f) == f # "page"

(* The listener of useKeyHandler: what it makes of a key.  The edit dialog *)
(* takes the keyboard, but not from a list.                                *)
Intent(ev, focused, q) ==
    IF HasEdit(q) /\ ~q.list.active THEN None
    ELSE IF ev.key = "?" /\ ~focused THEN OpenHelp
    ELSE resolveKey(ev, Context, q.list.active, focused)

dispatched(intent) ==
    IF intent.type \in {"move", "command", "list.select"} THEN {To(tab, intent)} ELSE {}

(* Any listener on document: the help closes with Escape in any field. *)
HelpAfter(ev, intent) == (help /\ ev.key # "Escape") \/ intent = OpenHelp

(* A key with no handler of a field.  The closure of pay keeps the session. *)
PressKey(ev) ==
    /\ focus \in {"edit", "prompt"} => ev.key # "Escape"
    /\ LET intent == Intent(ev, isInputFocused(focus), asks[tab]) IN
       /\ out' = dispatched(intent)
       /\ prompt' = IF intent = Pay THEN tab ELSE prompt
       /\ help' = HelpAfter(ev, intent)
       /\ typed' = IF intent = Pay THEN [typed EXCEPT !["prompt"] = Empty] ELSE typed
    /\ focus' = Refocused(focus, asks[tab], prompt')
    /\ byKey' = TRUE
    /\ UNCHANGED <<tab, world, checked, config, gameEvents>>

Type(f, text) ==
    /\ focus = f /\ f \in Fields
    /\ typed' = [typed EXCEPT ![f] = text]
    /\ out' = {} /\ byKey' = TRUE
    /\ UNCHANGED <<tab, focus, world, dialogs, checked, config, gameEvents>>

(* Escape in a dialog closes it.  React has taken the field away when the  *)
(* listener on document looks for the focus, or has not.                   *)
ClosedEdit(q) == [q EXCEPT !.edit = "none"]
EscapeKey == KeyEvent("Escape")
Escape ==
    /\ focus \in {"edit", "prompt"}
    /\ LET q == IF focus = "edit" THEN ClosedEdit(asks[tab]) ELSE asks[tab] IN
       /\ asks' = [asks EXCEPT ![tab] = q]
       /\ prompt' = IF focus = "prompt" THEN Absent ELSE prompt
       /\ typed' = IF focus = "edit" THEN [typed EXCEPT !["edit"] = Empty] ELSE typed
       /\ \E focused \in BOOLEAN :
             out' = dispatched(Intent(EscapeKey, focused, q)) \cup
                      (IF focus = "edit" THEN {To(tab, [type |-> "edit.cancel"])} ELSE {})
       /\ focus' = "page"
    /\ help' = FALSE
    /\ byKey' = TRUE
    /\ UNCHANGED <<tab, style, closed, checked, config, gameEvents>>
-----------------------------------------------------------------------------
(* PromptDialog: the amount, of digits only. *)
Asker_Shown == tab
Asker == prompt
SubmitAmount ==
    /\ focus \in {"prompt", "page"} /\ prompt # Absent
    /\ typed["prompt"] \in DOMAIN Digits
    /\ out' = {To(Asker, [type |-> "command", name |-> "pay",
                          amount |-> Digits[typed["prompt"]]])}
    /\ prompt' = Absent
    /\ focus' = "page" /\ byKey' = (focus = "prompt")
    /\ UNCHANGED <<tab, world, help, fields, config, gameEvents>>

CancelPrompt ==
    /\ prompt # Absent
    /\ prompt' = Absent
    /\ UNCHANGED <<help, fields>>
    /\ Clicked({})

(* EditDialog, closed at once whatever the gateway makes of it. *)
EditDialog(request) ==
    /\ HasEdit(asks[tab])
    /\ out' = {To(tab, request)}
    /\ asks' = [asks EXCEPT ![tab] = ClosedEdit(@)]
    /\ typed' = [typed EXCEPT !["edit"] = Empty]
    /\ focus' = "page" /\ byKey' = (focus = "edit")
    /\ UNCHANGED <<tab, style, closed, dialogs, checked, config, gameEvents>>
SubmitEdit ==
    EditDialog([type |-> "edit.submit", mode |-> "multi", lines |-> <<typed["edit"]>>])
CancelEdit == focus # "edit" /\ EditDialog([type |-> "edit.cancel"])

(* castSpell, by Enter or by its button. *)
CastSpell ==
    /\ focus \in {"spell", "page"} /\ HasSpell(asks[tab])
    /\ typed["spell"] # Empty
    /\ out' = {To(tab, Say(typed["spell"]))}
    /\ typed' = [typed EXCEPT !["spell"] = Empty]
    /\ byKey' = (focus = "spell")
    /\ UNCHANGED <<tab, focus, world, dialogs, checked, config, gameEvents>>

(* ListView: an item, all, none, a check box (an input, which keeps the    *)
(* focus), the checked ones in a row.                                      *)
PickItem ==
    /\ asks[tab].list.active
    /\ \E r \in {Pick(n) : n \in Items(tab)} \cup {PickAs("all"), PickAs("cancel")} :
          Clicked({To(tab, r)})
    /\ UNCHANGED <<dialogs, fields>>
CheckItem(n) ==
    /\ asks[tab].list.active /\ n \in Items(tab)
    /\ checked' = IF n \in checked THEN checked \ {n} ELSE checked \cup {n}
    /\ focus' = "check"
    /\ out' = {} /\ byKey' = FALSE
    /\ UNCHANGED <<tab, world, dialogs, typed, config, gameEvents>>
SendChecked ==
    /\ asks[tab].list.active /\ checked # {}
    /\ Clicked({To(tab, Say("numbers"))})
    /\ UNCHANGED <<dialogs, fields>>

(* GameCommands, TouchControls and the mouse on the map. *)
COMMANDS == {"cast", "spells", "wizeye", "wizlist", "check"}
ASSUME TextsAssumption ==
    /\ {Empty, "numbers"} \cup COMMANDS \subseteq Texts
    /\ \A layout \in Layouts : \A k \in DOMAIN Raw(layout) : Raw(layout)[k] \in Texts
GameCommand ==
    /\ tab \notin closed
    /\ \E word \in COMMANDS : Clicked({To(tab, Say(word))})
    /\ UNCHANGED <<dialogs, fields>>

Touch(action) ==
    /\ Clicked({To(tab, actionToIntent(action, style[tab] \in {"solid", Absent}))})
    /\ UNCHANGED <<dialogs, fields>>

(* clickToMove, in half cells from the middle of the map. *)
Size(n) == IF n < 0 THEN -n ELSE n
clickToMove(dx, dy) ==
    CASE Size(dx) < 1 /\ Size(dy) < 1 -> "none"
      [] Size(dy) >= Size(dx) /\ Size(dy) >= 1 -> IF dy < 0 THEN "forward" ELSE "back"
      [] Size(dy) < Size(dx) -> IF dx < 0 THEN "strafeL" ELSE "strafeR"
ClickMap(dx, dy) ==
    /\ style[tab] # Absent
    /\ LET action == clickToMove(dx, dy) IN
       Clicked(IF action = "none" THEN {}
               ELSE {To(tab, actionToIntent(action, style[tab] = "solid"))})
    /\ UNCHANGED <<dialogs, fields>>
Attack ==
    /\ Clicked({To(tab, Command("hit"))})
    /\ UNCHANGED <<dialogs, fields>>

(* The button of CommandBar, or the one of the help itself. *)
HelpButton ==
    /\ help' = ~help
    /\ Clicked({})
    /\ UNCHANGED <<prompt, fields>>

(* TabBar, with its bar or after reopenSession(). *)
ShowTab(s) ==
    /\ s # tab
    /\ tab' = s
    /\ checked' = {}
    /\ focus' = Refocused("page", asks[s], prompt)
    /\ out' = {} /\ byKey' = FALSE
    /\ UNCHANGED <<world, dialogs, typed, config, gameEvents>>
-----------------------------------------------------------------------------
(* Events of the game, for any tab. *)
Arrives ==
    /\ gameEvents < MaxGameEvents
    /\ gameEvents' = gameEvents + 1
    /\ out' = {} /\ byKey' = FALSE
    /\ UNCHANGED <<tab, dialogs, typed, config>>

Asked(s, q) ==
    /\ asks' = [asks EXCEPT ![s] = q]
    /\ focus' = IF s = tab THEN Refocused(focus, q, prompt) ELSE focus
    /\ UNCHANGED <<style, closed>>

GameList(s, on) ==
    /\ Arrives
    /\ Asked(s, [asks[s] EXCEPT !.list =
                   IF on THEN [active |-> TRUE, lines |-> <<Absent, 5>>] ELSE NoList])
    /\ checked' = IF s = tab THEN {} ELSE checked
GameEdit(s, mode) ==
    /\ Arrives
    /\ Asked(s, [asks[s] EXCEPT !.edit = IF mode = "end" THEN "none" ELSE mode])
    /\ UNCHANGED checked
GameMode(s) ==
    /\ Arrives
    /\ Asked(s, [asks[s] EXCEPT !.magic = ~@])
    /\ UNCHANGED checked
GameMap(s, v) ==
    /\ Arrives
    /\ style' = [style EXCEPT ![s] = v]
    /\ UNCHANGED <<focus, asks, closed, checked>>
GameCloses(s) ==
    /\ Arrives
    /\ closed' = closed \cup {s}
    /\ UNCHANGED <<focus, asks, style, checked>>

(* The socket takes the messages before the next event is handled. *)
Transmitted ==
    /\ out' = {} /\ byKey' = FALSE
    /\ UNCHANGED <<tab, focus, world, dialogs, fields, config, gameEvents>>

UserStep ==
    \/ \E ev \in Pressed : PressKey(ev)
    \/ \E f \in Fields : \E text \in Typing[f] : Type(f, text)
    \/ \E f \in Fields \cup {"page", "chat", "check"} : FocusOn(f)
    \/ Escape \/ SubmitAmount \/ CancelPrompt \/ SubmitEdit \/ CancelEdit
    \/ CastSpell \/ PickItem \/ SendChecked \/ GameCommand \/ Attack \/ HelpButton
    \/ \E n \in Items(tab) : CheckItem(n)
    \/ \E action \in {"forward", "strafeL", "turnR"} : Touch(action)
    \/ \E dx \in -1..1, dy \in -1..1 : ClickMap(dx, dy)
    \/ \E s \in Sessions : ShowTab(s)
GameStep ==
    \/ \E s \in Sessions : GameMode(s) \/ GameCloses(s)
    \/ \E s \in Sessions, on \in BOOLEAN : GameList(s, on)
    \/ \E s \in Sessions, m \in {"single", "multi", "end"} : GameEdit(s, m)
    \/ \E s \in Sessions, v \in {"turn", "solid"} : GameMap(s, v)

GameNext == IF out = {} THEN UserStep \/ GameStep ELSE Transmitted

GameSpec == GameInit /\ [][GameNext]_gameVars
-----------------------------------------------------------------------------
(* A key pressed in a text field never plays: no field moves the           *)
(* character, and what is sent is what the field was for, whichever field  *)
(* appeared under the fingers.  (Escape, which closes a dialog, may cancel *)
(* a list as well.)                                                        *)
TypingIsNotPlaying ==
    [][byKey' /\ focus # "page" => \A m \in out' :
        \/ focus = "spell" /\ m = To(tab, Say(typed["spell"]))
        \/ focus = "edit" /\ m.type \in {"edit.submit", "edit.cancel"}
        \/ focus = "prompt" /\ m.type = "command" /\ m.name = "pay"
        \/ focus \in {"edit", "prompt"} /\ m = To(tab, PickAs("cancel"))]_gameVars

(* An answer goes to the tab that asked, although tabs are switched under  *)
(* an open dialog: a selection to a tab with a list, an edited text to one *)
(* that edits, an amount to the one where P was pressed.                   *)
AnswersAreAsked ==
    [][\A m \in out' :
        /\ m.type = "list.select" => asks[m.session].list.active
        /\ m.type \in {"edit.submit", "edit.cancel"} => HasEdit(asks[m.session])
        /\ m.type = "command" /\ m.name = "pay" => prompt = m.session]_gameVars

(* While the help is open it is right about the map and the settings of    *)
(* that moment: each key does what its row says, and each key that does    *)
(* something has a row.                                                    *)
AllEvents ==
    {KeyEvent(k) : k \in {r.press.key : r \in describeKeys(Context)}}
        \cup {OnNumpad(ToString(n)) : n \in 0..9} \cup {OnNumpad(k) : k \in {"+", "-", "*", "/"}}
        \cup {WithShift("!", slot) : slot \in Slots} \cup {WithShift("g", Unassigned)}
HelpIsTrue ==
    help /\ out = {} =>
        LET rows == describeKeys(Context)
            told == {r.does : r \in rows}
            does(ev) == resolveKey(ev, Context, FALSE, FALSE)
        IN  /\ \A r \in rows : does(r.press) = r.does
            /\ \A ev \in AllEvents \cup Pressed : does(ev) \in told \cup {None}
=============================================================================
