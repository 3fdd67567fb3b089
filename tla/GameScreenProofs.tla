--------------------------- MODULE GameScreenProofs ---------------------------
(***************************************************************************)
(* What a key, a button or a dialog sends, for all sessions, settings,     *)
(* texts and keys, and any number of events of the game.                   *)
(*                                                                         *)
(* Two facts carry the proofs.  About the tables: no entry of either       *)
(* layout is a selection or an amount, so only a list answers a list and   *)
(* only the prompt pays (the first lemmas), and no two tables of a layout  *)
(* share a key, so that each row of the help is reached (KeysApart).       *)
(* About the screen: the edit dialog has the focus only while the tab      *)
(* shown edits, through every switch of tabs and every event of the game   *)
(* (FocusInv).                                                             *)
(*                                                                         *)
(* A section is about the chat on that screen: the game hears no shout     *)
(* that was not confirmed, over any capacity of the log and the history.   *)
(* The guards do not look at what the dialog holds, so the proof needs to  *)
(* know that only shouts get into it, and that the mode is one of the five *)
(* that the serializer tells apart (ComposeInv): no other mode puts the    *)
(* sign of a shout before a text, whatever the text begins with.           *)
(*                                                                         *)
(* The last section is about the settings: those of the browser converge   *)
(* to those of the gateway, for every choice of scopes and edits and any   *)
(* number of edits and losses.  The channel keeps the order.  So the       *)
(* newest good answer under way about a scope tells what the gateway has   *)
(* stored, and as long as something about a scope is under way nothing     *)
(* more needs to be known.                                                 *)
(***************************************************************************)
EXTENDS GameScreen, ChatBox, SettingsSync, TLAPS

ActionNames ==
    {"turnL", "turnR", "turnB", "absN", "absS", "absW", "absE",
     "forward", "back", "strafeL", "strafeR"}

(* An intent, or a request, that answers nothing. *)
Plain(intent) ==
    /\ "type" \in DOMAIN intent
    /\ \/ intent.type \in {"none", "move", "pay", "help"}
       \/ intent.type = "command" /\ "name" \in DOMAIN intent /\ intent.name # "pay"

LEMMA MovesAreMoves ==
    ASSUME NEW a \in ActionNames, NEW northFix \in BOOLEAN
    PROVE  /\ actionToIntent(a, northFix).type = "move"
           /\ "type" \in DOMAIN actionToIntent(a, northFix)
  BY DEF ActionNames, actionToIntent, Move

LEMMA TablesMove ==
    /\ \A k \in DOMAIN CURSOR_TURN, northFix \in BOOLEAN : Cursor(northFix)[k] \in ActionNames
    /\ \A k \in DOMAIN NUMPAD_KEY_MOVE : NUMPAD_KEY_MOVE[k] \in ActionNames
    /\ \A layout : \A k \in DOMAIN LetterMove(layout) : LetterMove(layout)[k] \in ActionNames
<1>1. \A k \in DOMAIN CURSOR_TURN : CURSOR_TURN[k] \in ActionNames /\ CURSOR_NF[k] \in ActionNames
  BY DEF CURSOR_TURN, CURSOR_NF, ActionNames
<1>2. \A k \in DOMAIN NUMPAD_KEY_MOVE : NUMPAD_KEY_MOVE[k] \in ActionNames
  BY DEF NUMPAD_KEY_MOVE, ActionNames
<1>3. \A k \in DOMAIN NUMPAD_LETTER_MOVE : NUMPAD_LETTER_MOVE[k] \in ActionNames
  BY DEF NUMPAD_LETTER_MOVE, ActionNames
<1>4. \A k \in DOMAIN WASD_MOVE : WASD_MOVE[k] \in ActionNames
  BY DEF WASD_MOVE, ActionNames
<1> QED BY <1>1, <1>2, <1>3, <1>4 DEF Cursor, LetterMove

LEMMA TablesCommand ==
    /\ \A k \in DOMAIN NUMPAD_OP_COMMAND : NUMPAD_OP_COMMAND[k] # "pay"
    /\ \A layout : \A k \in DOMAIN Known(layout) : Known(layout)[k] # "pay"
<1>1. \A k \in DOMAIN NUMPAD_OP_COMMAND : NUMPAD_OP_COMMAND[k] # "pay"
  BY DEF NUMPAD_OP_COMMAND
<1>2. \A k \in DOMAIN COMMAND_KNOWN_WASD : COMMAND_KNOWN_WASD[k] # "pay"
  BY DEF COMMAND_KNOWN_WASD
<1>3. \A k \in DOMAIN COMMAND_KNOWN_NUMPAD : COMMAND_KNOWN_NUMPAD[k] # "pay"
  BY DEF COMMAND_KNOWN_NUMPAD
<1> QED BY <1>1, <1>2, <1>3 DEF Known

LEMMA PlainOnes ==
    /\ Plain(None) /\ Plain(Pay) /\ Plain(OpenHelp)
    /\ \A text : Plain(Say(text)) /\ Plain(Cast(text))
    /\ \A name : name # "pay" => Plain(Command(name))
    /\ \A a \in ActionNames, northFix \in BOOLEAN : Plain(actionToIntent(a, northFix))
<1>1. Plain(None) /\ Plain(Pay) /\ Plain(OpenHelp)
  BY DEF Plain, None, Pay, OpenHelp
<1>2. \A text : Plain(Say(text)) /\ Plain(Cast(text))
  BY DEF Plain, Say, Cast
<1>3. \A name : name # "pay" => Plain(Command(name))
  BY DEF Plain, Command
<1>4. \A a \in ActionNames, northFix \in BOOLEAN : Plain(actionToIntent(a, northFix))
  BY MovesAreMoves DEF Plain
<1> QED BY <1>1, <1>2, <1>3, <1>4

(* Playing never selects and never pays, whatever the slots hold. *)
LEMMA PlayIsPlain ==
    ASSUME NEW ev, NEW ctx, ctx.northFix \in BOOLEAN
    PROVE  Plain(PlayIntent(ev, ctx))
<1> USE PlainOnes, TablesMove, TablesCommand
<1>1. CASE ev.key = " "
  <2>1. PlayIntent(ev, ctx) = Command("hit")
    BY <1>1 DEF PlayIntent, CURSOR_TURN
  <2> QED BY <2>1
<1>2. CASE ev.key # " " /\ ev.key \in DOMAIN CURSOR_TURN
  <2>1. PlayIntent(ev, ctx) = actionToIntent(Cursor(ctx.northFix)[ev.key], ctx.northFix)
    BY <1>2 DEF PlayIntent
  <2> QED BY <1>2, <2>1
<1>3. CASE ev.key # " " /\ ev.key \notin DOMAIN CURSOR_TURN
  <2> DEFINE k == ev.key
  <2>1. PlayIntent(ev, ctx) =
          IF ev.shift /\ k = "g" /\ ctx.altG # Unassigned THEN Say(ctx.altG)
          ELSE IF ev.numpad /\ k \in DOMAIN NUMPAD_KEY_MOVE
            THEN actionToIntent(NUMPAD_KEY_MOVE[k], ctx.northFix)
          ELSE IF ev.numpad /\ k \in DOMAIN NUMPAD_OP_COMMAND
            THEN Command(NUMPAD_OP_COMMAND[k])
          ELSE IF k \in DOMAIN LetterMove(ctx.layout)
            THEN actionToIntent(LetterMove(ctx.layout)[k], ctx.northFix)
          ELSE IF k \in DOMAIN Known(ctx.layout) THEN Command(Known(ctx.layout)[k])
          ELSE IF k \in DOMAIN Raw(ctx.layout) THEN Say(Raw(ctx.layout)[k])
          ELSE IF k = "p" /\ ~ev.ctrl THEN Pay ELSE None
    BY <1>3 DEF PlayIntent
  <2> HIDE DEF k
  <2> QED BY <2>1
<1> QED BY <1>1, <1>2, <1>3

(* Escape is no key of the game. *)
LEMMA EscapeDoesNotPlay ==
    ASSUME NEW ctx
    PROVE  PlayIntent(EscapeKey, ctx) = None
<1> DEFINE k == EscapeKey.key
<1>1. k = "Escape" /\ EscapeKey.shift = FALSE /\ EscapeKey.numpad = FALSE
  BY DEF EscapeKey, KeyEvent
<1>2. k \notin DOMAIN CURSOR_TURN /\ k # " "
  BY <1>1 DEF CURSOR_TURN
<1>3. k \notin DOMAIN LetterMove(ctx.layout)
  BY <1>1 DEF LetterMove, WASD_MOVE, NUMPAD_LETTER_MOVE
<1>4. k \notin DOMAIN Known(ctx.layout)
  BY <1>1 DEF Known, COMMAND_KNOWN_WASD, COMMAND_KNOWN_NUMPAD
<1>5. k \notin DOMAIN Raw(ctx.layout)
  BY <1>1 DEF Raw, COMMAND_RAW_WASD, COMMAND_RAW_NUMPAD
<1> QED BY <1>1, <1>2, <1>3, <1>4, <1>5 DEF PlayIntent

(* What a key makes, in any field: a selection only from a list that has   *)
(* the keyboard.                                                           *)
LEMMA IntentAnswers ==
    ASSUME NEW ev, NEW focused \in BOOLEAN, NEW q
    PROVE  LET intent == Intent(ev, focused, q) IN
           \/ Plain(intent)
           \/ /\ "type" \in DOMAIN intent /\ intent.type = "list.select"
              /\ q.list.active /\ ~focused
<1> DEFINE intent == Intent(ev, focused, q)
           keys == resolveKey(ev, Context, q.list.active, focused)
<1>1. intent \in {None, OpenHelp, keys}
  BY DEF Intent
<1>2. Context.northFix \in BOOLEAN
  BY DEF Context, KeyContext
<1>3. Plain(PlayIntent(ev, Context))
  BY <1>2, PlayIsPlain
<1>4. Plain(resolveShiftDigit(ev, Context))
  BY PlainOnes DEF resolveShiftDigit, SlotIntent
<1>5. \/ Plain(ListIntent(ev))
      \/ "type" \in DOMAIN ListIntent(ev) /\ ListIntent(ev).type = "list.select"
  BY PlainOnes DEF ListIntent, Pick, PickAs
<1>6. keys \in {None, resolveShiftDigit(ev, Context), ListIntent(ev), PlayIntent(ev, Context)}
      /\ (keys = ListIntent(ev) /\ ~Plain(keys) => q.list.active /\ ~focused)
  BY <1>3, <1>4, PlainOnes DEF resolveKey
<1> HIDE DEF intent, keys
<1>7. Plain(intent)
      \/ ("type" \in DOMAIN intent /\ intent.type = "list.select" /\ q.list.active /\ ~focused)
  BY <1>1, <1>3, <1>4, <1>5, <1>6, PlainOnes
<1> QED BY <1>7 DEF intent

LEMMA EscapeAnswers ==
    ASSUME NEW focused \in BOOLEAN, NEW q
    PROVE  \/ Intent(EscapeKey, focused, q) = None
           \/ Intent(EscapeKey, focused, q) = PickAs("cancel") /\ q.list.active
<1>1. EscapeKey.key = "Escape" /\ EscapeKey.shift = FALSE
  BY DEF EscapeKey, KeyEvent
<1>2. resolveShiftDigit(EscapeKey, Context) = None
  BY <1>1 DEF resolveShiftDigit
<1>3. ListIntent(EscapeKey) = PickAs("cancel")
  BY <1>1 DEF ListIntent, Digit
<1>4. resolveKey(EscapeKey, Context, q.list.active, focused)
        = IF focused THEN None ELSE IF q.list.active THEN PickAs("cancel") ELSE None
  BY <1>2, <1>3, EscapeDoesNotPlay DEF resolveKey
<1> QED BY <1>1, <1>4 DEF Intent

(* A request keeps its fields when it is addressed. *)
LEMMA Addressed ==
    ASSUME NEW s, NEW r
    PROVE  /\ To(s, r).session = s
           /\ "type" \in DOMAIN r => "type" \in DOMAIN To(s, r) /\ To(s, r).type = r.type
           /\ "name" \in DOMAIN r => "name" \in DOMAIN To(s, r) /\ To(s, r).name = r.name
  BY DEF To

LEMMA PlainAddressed ==
    ASSUME NEW s, NEW r, Plain(r)
    PROVE  Plain(To(s, r))
  BY Addressed DEF Plain

(* What a step sends is one of these. *)
Owed(m) ==
    \/ Plain(m)
    \/ m.type = "list.select" /\ asks[m.session].list.active
    \/ m.type \in {"edit.submit", "edit.cancel"} /\ HasEdit(asks[m.session])
    \/ m.type = "command" /\ m.name = "pay" /\ prompt = m.session
-----------------------------------------------------------------------------
FocusInv ==
    /\ tab \in Sessions
    /\ asks \in [Sessions -> Question]
    /\ focus = "edit" => HasEdit(asks[tab])

LEMMA FocusInit == GameInit => FocusInv
  BY DEF GameInit, FocusInv, NoList, Question

(* The focus goes to the edit dialog only where there is one. *)
LEMMA EditRefocused ==
    ASSUME NEW f, NEW q, NEW p, Refocused(f, q, p) = "edit"
    PROVE  HasEdit(q)
<1>1. "edit" \in There(q, p)
  BY DEF Refocused, Fields
<1> QED BY <1>1 DEF There

LEMMA Reasked ==
    ASSUME FocusInv, NEW s \in Sessions, NEW q \in Question, Asked(s, q), UNCHANGED <<tab, prompt>>
    PROVE  FocusInv'
<1>1. asks' \in [Sessions -> Question] /\ asks'[s] = q /\ \A u \in Sessions \ {s} : asks'[u] = asks[u]
  BY DEF Asked, FocusInv
<1>2. CASE s = tab
  BY <1>1, <1>2, EditRefocused DEF Asked, FocusInv
<1>3. CASE s # tab
  BY <1>1, <1>3 DEF Asked, FocusInv, HasEdit
<1> QED BY <1>2, <1>3

(* The dialog closes: what is not the edit goes on as it was. *)
LEMMA EditCloses ==
    ASSUME FocusInv
    PROVE  /\ ClosedEdit(asks[tab]) \in Question
           /\ ClosedEdit(asks[tab]).list = asks[tab].list
           /\ ~HasEdit(ClosedEdit(asks[tab]))
<1>1. asks[tab] \in Question
  BY DEF FocusInv
<1> QED BY <1>1 DEF ClosedEdit, Question, HasEdit

LEMMA UserKeepsFocus == ASSUME FocusInv, UserStep PROVE FocusInv'
<1> USE DEF FocusInv
<1>1. ASSUME NEW ev \in Pressed, PressKey(ev) PROVE FocusInv'
  BY <1>1, EditRefocused DEF PressKey, world
<1>2. ASSUME NEW f \in Fields, NEW text \in Typing[f], Type(f, text) PROVE FocusInv'
  BY <1>2 DEF Type, world
<1>3. ASSUME NEW f \in Fields \cup {"page", "chat", "check"}, FocusOn(f) PROVE FocusInv'
  BY <1>3 DEF FocusOn, There, world
<1>4. CASE Escape
  BY <1>4, EditCloses DEF Escape
<1>5. CASE SubmitAmount
  BY <1>5 DEF SubmitAmount, world
<1>6. CASE CancelPrompt \/ PickItem \/ SendChecked \/ GameCommand \/ Attack \/ HelpButton
  BY <1>6 DEF CancelPrompt, PickItem, SendChecked, GameCommand, Attack, HelpButton, Clicked, world
<1>7. CASE SubmitEdit \/ CancelEdit
  BY <1>7, EditCloses DEF SubmitEdit, CancelEdit, EditDialog
<1>8. CASE CastSpell
  BY <1>8 DEF CastSpell, world
<1>9. ASSUME NEW n \in Items(tab), CheckItem(n) PROVE FocusInv'
  BY <1>9 DEF CheckItem, world
<1>10. ASSUME NEW action \in {"forward", "strafeL", "turnR"}, Touch(action) PROVE FocusInv'
  BY <1>10 DEF Touch, Clicked, world
<1>11. ASSUME NEW dx \in -1..1, NEW dy \in -1..1, ClickMap(dx, dy) PROVE FocusInv'
  BY <1>11 DEF ClickMap, Clicked, world
<1>12. ASSUME NEW s \in Sessions, ShowTab(s) PROVE FocusInv'
  BY <1>12, EditRefocused DEF ShowTab, world
<1> QED BY <1>1, <1>2, <1>3, <1>4, <1>5, <1>6, <1>7, <1>8, <1>9, <1>10, <1>11, <1>12
        DEF UserStep

LEMMA GameKeepsFocus == ASSUME FocusInv, GameStep PROVE FocusInv'
<1>1. ASSUME NEW s \in Sessions, NEW on \in BOOLEAN, GameList(s, on) PROVE FocusInv'
  <2> DEFINE q == [asks[s] EXCEPT !.list =
                     IF on THEN [active |-> TRUE, lines |-> <<Absent, 5>>] ELSE NoList]
  <2>1. asks[s] \in Question
    BY DEF FocusInv
  <2>2. <<Absent, 5>> \in Seq(Optional(Nat)) /\ <<>> \in Seq(Optional(Nat))
    BY DEF Optional
  <2>3. q \in Question
    BY <2>1, <2>2 DEF Question, NoList
  <2> QED BY <1>1, <2>3, Reasked DEF GameList, Arrives, dialogs
<1>2. ASSUME NEW s \in Sessions, NEW mode \in {"single", "multi", "end"}, GameEdit(s, mode)
      PROVE  FocusInv'
  <2> DEFINE q == [asks[s] EXCEPT !.edit = IF mode = "end" THEN "none" ELSE mode]
  <2>1. asks[s] \in Question
    BY DEF FocusInv
  <2>2. q \in Question
    BY <2>1 DEF Question
  <2> QED BY <1>2, <2>2, Reasked DEF GameEdit, Arrives, dialogs
<1>3. ASSUME NEW s \in Sessions, GameMode(s) PROVE FocusInv'
  <2> DEFINE q == [asks[s] EXCEPT !.magic = ~@]
  <2>1. asks[s] \in Question
    BY DEF FocusInv
  <2>2. q \in Question
    BY <2>1 DEF Question
  <2> QED BY <1>3, <2>2, Reasked DEF GameMode, Arrives, dialogs
<1>4. ASSUME NEW s \in Sessions, NEW v \in {"turn", "solid"}, GameMap(s, v) PROVE FocusInv'
  BY <1>4 DEF GameMap, Arrives, FocusInv
<1>5. ASSUME NEW s \in Sessions, GameCloses(s) PROVE FocusInv'
  BY <1>5 DEF GameCloses, Arrives, FocusInv
<1> QED BY <1>1, <1>2, <1>3, <1>4, <1>5 DEF GameStep

LEMMA FocusStep == FocusInv /\ [GameNext]_gameVars => FocusInv'
<1> SUFFICES ASSUME FocusInv, [GameNext]_gameVars PROVE FocusInv'
  OBVIOUS
<1>1. CASE UserStep
  BY <1>1, UserKeepsFocus
<1>2. CASE GameStep
  BY <1>2, GameKeepsFocus
<1>3. CASE Transmitted
  BY <1>3 DEF Transmitted, FocusInv, world
<1>4. CASE UNCHANGED gameVars
  BY <1>4 DEF gameVars, FocusInv
<1> QED BY <1>1, <1>2, <1>3, <1>4 DEF GameNext
-----------------------------------------------------------------------------
LEMMA DispatchedOwed ==
    ASSUME NEW ev, NEW focused \in BOOLEAN,
           NEW m \in dispatched(Intent(ev, focused, asks[tab]))
    PROVE  Owed(m)
<1> DEFINE intent == Intent(ev, focused, asks[tab])
<1>1. m = To(tab, intent)
  BY DEF dispatched
<1>2. CASE Plain(intent)
  BY <1>1, <1>2, PlainAddressed DEF Owed
<1>3. CASE "type" \in DOMAIN intent /\ intent.type = "list.select" /\ asks[tab].list.active
  <2> HIDE DEF intent
  <2>1. m.type = "list.select" /\ m.session = tab
    BY <1>1, <1>3, Addressed
  <2> QED BY <1>3, <2>1 DEF Owed
<1> QED BY <1>2, <1>3, IntentAnswers

LEMMA EscapeOwed ==
    ASSUME FocusInv, Escape, NEW m \in out'
    PROVE  /\ Owed(m)
           /\ m.type = "edit.cancel" \/ m = To(tab, PickAs("cancel"))
<1>1. PICK focused \in BOOLEAN, q \in {asks[tab], ClosedEdit(asks[tab])} :
        m \in dispatched(Intent(EscapeKey, focused, q))
          \cup (IF focus = "edit" THEN {To(tab, [type |-> "edit.cancel"])} ELSE {})
  BY DEF Escape
<1>2. q.list.active <=> asks[tab].list.active
  BY <1>1, EditCloses
<1>3. CASE m \in dispatched(Intent(EscapeKey, focused, q))
  <2>1. dispatched(None) = {}
    BY DEF dispatched, None
  <2>2. Intent(EscapeKey, focused, q) = PickAs("cancel") /\ q.list.active
    BY <1>3, <2>1, EscapeAnswers
  <2>3. m = To(tab, PickAs("cancel"))
    BY <1>3, <2>2 DEF dispatched
  <2>4. "type" \in DOMAIN PickAs("cancel") /\ PickAs("cancel").type = "list.select"
    BY DEF PickAs
  <2>5. m.type = "list.select" /\ m.session = tab
    BY <2>3, <2>4, Addressed
  <2> QED BY <1>2, <2>2, <2>3, <2>5 DEF Owed
<1>4. CASE focus = "edit" /\ m = To(tab, [type |-> "edit.cancel"])
  <2>1. m.type = "edit.cancel" /\ m.session = tab
    BY <1>4, Addressed
  <2>2. HasEdit(asks[tab])
    BY <1>4 DEF FocusInv
  <2> QED BY <2>1, <2>2 DEF Owed
<1> QED BY <1>1, <1>3, <1>4

LEMMA EditOwed ==
    ASSUME SubmitEdit \/ CancelEdit, NEW m \in out'
    PROVE  /\ Owed(m)
           /\ m.type \in {"edit.submit", "edit.cancel"}
<1>1. PICK r : m = To(tab, r) /\ "type" \in DOMAIN r /\ r.type \in {"edit.submit", "edit.cancel"}
  BY DEF SubmitEdit, CancelEdit, EditDialog
<1>2. HasEdit(asks[tab])
  BY DEF SubmitEdit, CancelEdit, EditDialog
<1>3. m.type = r.type /\ m.session = tab
  BY <1>1, Addressed
<1> QED BY <1>1, <1>2, <1>3 DEF Owed

LEMMA AmountOwed ==
    ASSUME SubmitAmount, NEW m \in out'
    PROVE  /\ Owed(m)
           /\ m.type = "command" /\ m.name = "pay"
<1>1. PICK r : m = To(prompt, r) /\ {"type", "name"} \subseteq DOMAIN r
               /\ r.type = "command" /\ r.name = "pay"
  BY DEF SubmitAmount, Asker
<1>2. m.type = "command" /\ m.name = "pay" /\ m.session = prompt
  BY <1>1, Addressed
<1> QED BY <1>2 DEF Owed

LEMMA PickOwed ==
    ASSUME PickItem, NEW m \in out'
    PROVE  Owed(m)
<1>1. PICK r : m = To(tab, r) /\ "type" \in DOMAIN r /\ r.type = "list.select"
  BY DEF PickItem, Clicked, Pick, PickAs
<1>2. m.type = "list.select" /\ m.session = tab
  BY <1>1, Addressed
<1> QED BY <1>2 DEF PickItem, Owed

(* Whatever else is sent answers nothing. *)
LEMMA TouchOwed ==
    ASSUME NEW action \in {"forward", "strafeL", "turnR"}, Touch(action), NEW m \in out'
    PROVE  Owed(m)
<1> DEFINE solid == style[tab] \in {"solid", Absent}
<1>1. m = To(tab, actionToIntent(action, solid)) /\ solid \in BOOLEAN
  BY DEF Touch, Clicked
<1> HIDE DEF solid
<1>2. action \in ActionNames
  BY DEF ActionNames
<1> QED BY <1>1, <1>2, PlainOnes, PlainAddressed DEF Owed

LEMMA ClickOwed ==
    ASSUME NEW dx \in -1..1, NEW dy \in -1..1, ClickMap(dx, dy), NEW m \in out'
    PROVE  Owed(m)
<1> DEFINE action == clickToMove(dx, dy)
<1>1. Size(dx) \in Nat /\ Size(dy) \in Nat
  BY DEF Size
<1>2. action \in {"none", "forward", "back", "strafeL", "strafeR"}
  <2>1. \/ Size(dx) < 1 /\ Size(dy) < 1
        \/ Size(dy) >= Size(dx) /\ Size(dy) >= 1
        \/ Size(dy) < Size(dx)
    BY <1>1
  <2>2. CASE Size(dx) < 1 /\ Size(dy) < 1
    <3>1. ~(Size(dy) >= Size(dx) /\ Size(dy) >= 1) /\ ~(Size(dy) < Size(dx))
      BY <1>1, <2>2
    <3> QED BY <2>2, <3>1 DEF clickToMove
  <2>3. CASE Size(dy) >= Size(dx) /\ Size(dy) >= 1
    <3>1. ~(Size(dx) < 1 /\ Size(dy) < 1) /\ ~(Size(dy) < Size(dx))
      BY <1>1, <2>3
    <3> QED BY <2>3, <3>1 DEF clickToMove
  <2>4. CASE Size(dy) < Size(dx)
    <3>1. ~(Size(dx) < 1 /\ Size(dy) < 1) /\ ~(Size(dy) >= Size(dx) /\ Size(dy) >= 1)
      BY <1>1, <2>4
    <3> QED BY <2>4, <3>1 DEF clickToMove
  <2> QED BY <2>1, <2>2, <2>3, <2>4
<1> HIDE DEF action
<1>3. PICK b \in BOOLEAN : action # "none" /\ m = To(tab, actionToIntent(action, b))
  BY DEF ClickMap, Clicked, action
<1>4. action \in ActionNames
  BY <1>2, <1>3 DEF ActionNames
<1> QED BY <1>3, <1>4, PlainOnes, PlainAddressed DEF Owed

LEMMA OwedStep ==
    ASSUME FocusInv, GameNext, NEW m \in out'
    PROVE  Owed(m)
<1>1. ASSUME NEW ev \in Pressed, PressKey(ev) PROVE Owed(m)
  <2>1. m \in dispatched(Intent(ev, isInputFocused(focus), asks[tab]))
    BY <1>1 DEF PressKey
  <2>2. isInputFocused(focus) \in BOOLEAN
    BY DEF isInputFocused
  <2> QED BY <2>1, <2>2, DispatchedOwed
<1>2. CASE Escape
  BY <1>2, EscapeOwed
<1>3. CASE SubmitEdit \/ CancelEdit
  BY <1>3, EditOwed
<1>4. CASE SubmitAmount
  BY <1>4, AmountOwed
<1>5. CASE PickItem
  BY <1>5, PickOwed
<1>6. CASE CastSpell \/ SendChecked \/ GameCommand
  <2>1. PICK text : m = To(tab, Say(text))
    BY <1>6 DEF CastSpell, SendChecked, GameCommand, Clicked
  <2> QED BY <2>1, PlainOnes, PlainAddressed DEF Owed
<1>7. CASE Attack
  <2>1. m = To(tab, Command("hit"))
    BY <1>7 DEF Attack, Clicked
  <2> QED BY <2>1, PlainOnes, PlainAddressed DEF Owed
<1>8. ASSUME NEW action \in {"forward", "strafeL", "turnR"}, Touch(action) PROVE Owed(m)
  BY <1>8, TouchOwed
<1>9. ASSUME NEW dx \in -1..1, NEW dy \in -1..1, ClickMap(dx, dy) PROVE Owed(m)
  BY <1>9, ClickOwed
<1>10. out' # {} OBVIOUS
<1> QED BY <1>1, <1>2, <1>3, <1>4, <1>5, <1>6, <1>7, <1>8, <1>9, <1>10
        DEF GameNext, UserStep, GameStep, Transmitted, Type, FocusOn, CancelPrompt, CheckItem,
            HelpButton, ShowTab, Clicked, GameList, GameEdit, GameMode, GameMap, GameCloses, Arrives

(* A key in a field: only what the field is for. *)
LEMMA FieldStep ==
    ASSUME FocusInv, GameNext, byKey', focus # "page", NEW m \in out'
    PROVE  \/ focus = "spell" /\ m = To(tab, Say(typed["spell"]))
           \/ focus = "edit" /\ m.type \in {"edit.submit", "edit.cancel"}
           \/ focus = "prompt" /\ m.type = "command" /\ m.name = "pay"
           \/ focus \in {"edit", "prompt"} /\ m = To(tab, PickAs("cancel"))
<1>1. ASSUME NEW ev \in Pressed, PressKey(ev) PROVE FALSE
  <2>1. m \in dispatched(Intent(ev, TRUE, asks[tab]))
    BY <1>1 DEF PressKey, isInputFocused
  <2>2. Intent(ev, TRUE, asks[tab]) = None
    BY DEF Intent, resolveKey
  <2>3. dispatched(None) = {}
    BY DEF dispatched, None
  <2> QED BY <2>1, <2>2, <2>3
<1>2. CASE Escape
  <2>1. CASE focus = "edit"
    BY <1>2, <2>1, EscapeOwed
  <2>2. CASE focus = "prompt"
    <3>1. PICK focused \in BOOLEAN : m \in dispatched(Intent(EscapeKey, focused, asks[tab]))
      BY <1>2, <2>2 DEF Escape
    <3>2. Intent(EscapeKey, focused, asks[tab]) \in {None, PickAs("cancel")}
      BY <3>1, EscapeAnswers
    <3>3. dispatched(None) = {} /\ dispatched(PickAs("cancel")) \subseteq {To(tab, PickAs("cancel"))}
      BY DEF dispatched, None
    <3> QED BY <2>2, <3>1, <3>2, <3>3
  <2> QED BY <1>2, <2>1, <2>2 DEF Escape
<1>3. CASE SubmitEdit \/ CancelEdit
  <2>1. focus = "edit"
    BY <1>3 DEF SubmitEdit, CancelEdit, EditDialog
  <2> QED BY <1>3, <2>1, EditOwed
<1>4. CASE SubmitAmount
  <2>1. focus = "prompt"
    BY <1>4 DEF SubmitAmount
  <2> QED BY <1>4, <2>1, AmountOwed
<1>5. CASE CastSpell
  BY <1>5 DEF CastSpell
<1>6. out' # {} OBVIOUS
<1> QED BY <1>1, <1>2, <1>3, <1>4, <1>5, <1>6
        DEF GameNext, UserStep, GameStep, Transmitted, Type, FocusOn, CancelPrompt, CheckItem,
            PickItem, SendChecked, GameCommand, Attack, Touch, ClickMap,
            HelpButton, ShowTab, Clicked, GameList, GameEdit, GameMode, GameMap, GameCloses, Arrives
-----------------------------------------------------------------------------
(* The edit dialog has the focus only while the tab shown edits.           *)
THEOREM FocusSafe == GameSpec => []FocusInv
<1>1. GameInit => FocusInv BY FocusInit
<1>2. FocusInv /\ [GameNext]_gameVars => FocusInv' BY FocusStep
<1> QED BY <1>1, <1>2, PTL DEF GameSpec

(* A selection goes to a tab with a list, a text to a tab that edits, an   *)
(* amount to the tab where P was pressed.                                  *)
THEOREM AnswersGoHome == GameSpec => AnswersAreAsked
<1>1. ASSUME FocusInv, GameNext
      PROVE  \A m \in out' :
               /\ m.type = "list.select" => asks[m.session].list.active
               /\ m.type \in {"edit.submit", "edit.cancel"} => HasEdit(asks[m.session])
               /\ m.type = "command" /\ m.name = "pay" => prompt = m.session
  <2> SUFFICES ASSUME NEW m \in out'
               PROVE  /\ m.type = "list.select" => asks[m.session].list.active
                      /\ m.type \in {"edit.submit", "edit.cancel"} => HasEdit(asks[m.session])
                      /\ m.type = "command" /\ m.name = "pay" => prompt = m.session
    OBVIOUS
  <2>1. Owed(m)
    BY <1>1, OwedStep
  <2> QED BY <2>1 DEF Owed, Plain
<1>2. FocusInv /\ [GameNext]_gameVars =>
        [\A m \in out' :
           /\ m.type = "list.select" => asks[m.session].list.active
           /\ m.type \in {"edit.submit", "edit.cancel"} => HasEdit(asks[m.session])
           /\ m.type = "command" /\ m.name = "pay" => prompt = m.session]_gameVars
  BY <1>1
<1> QED BY <1>2, FocusSafe, PTL DEF GameSpec, AnswersAreAsked

(* A key pressed in a field does what the field is for and never plays.    *)
THEOREM FieldsDoNotPlay == GameSpec => TypingIsNotPlaying
<1>1. FocusInv /\ [GameNext]_gameVars =>
        [byKey' /\ focus # "page" => \A m \in out' :
           \/ focus = "spell" /\ m = To(tab, Say(typed["spell"]))
           \/ focus = "edit" /\ m.type \in {"edit.submit", "edit.cancel"}
           \/ focus = "prompt" /\ m.type = "command" /\ m.name = "pay"
           \/ focus \in {"edit", "prompt"} /\ m = To(tab, PickAs("cancel"))]_gameVars
  BY FieldStep
<1> QED BY <1>1, FocusSafe, PTL DEF GameSpec, TypingIsNotPlaying
-----------------------------------------------------------------------------
(* The help.  What its rows are. *)
LEMMA RowsOfHelp ==
    ASSUME NEW ctx
    PROVE  \A r : r \in describeKeys(ctx) <=>
             \/ \E k \in DOMAIN LetterMove(ctx.layout) :
                  r = Row(KeyEvent(k), actionToIntent(LetterMove(ctx.layout)[k], ctx.northFix))
             \/ \E k \in DOMAIN Cursor(ctx.northFix) :
                  r = Row(KeyEvent(k), actionToIntent(Cursor(ctx.northFix)[k], ctx.northFix))
             \/ \E k \in DOMAIN NUMPAD_KEY_MOVE :
                  r = Row(OnNumpad(k), actionToIntent(NUMPAD_KEY_MOVE[k], ctx.northFix))
             \/ r = Row(KeyEvent(" "), Command("hit")) \/ r = Row(KeyEvent("p"), Pay)
             \/ \E k \in DOMAIN Known(ctx.layout) : r = Row(KeyEvent(k), Command(Known(ctx.layout)[k]))
             \/ \E k \in DOMAIN Raw(ctx.layout) : r = Row(KeyEvent(k), Say(Raw(ctx.layout)[k]))
             \/ \E k \in DOMAIN NUMPAD_OP_COMMAND : r = Row(OnNumpad(k), Command(NUMPAD_OP_COMMAND[k]))
             \/ \E slot \in Slots : /\ ctx.words[slot] # Unassigned
                                    /\ r = Row(WithShift("!", slot), SlotIntent(slot, ctx))
             \/ ctx.altG # Unassigned /\ r = Row(WithShift("g", Unassigned), Say(ctx.altG))
  BY DEF describeKeys, moveRows

(* No two tables of a layout share a key, and none has the keys of the     *)
(* others' tests.                                                          *)
LEMMA KeysApart ==
    ASSUME NEW layout
    PROVE  /\ \A k \in DOMAIN LetterMove(layout) : k \notin DOMAIN CURSOR_TURN /\ k # " " /\ k # "p"
           /\ \A k \in DOMAIN Known(layout) :
                k \notin DOMAIN CURSOR_TURN /\ k # " " /\ k # "p" /\ k \notin DOMAIN LetterMove(layout)
           /\ \A k \in DOMAIN Raw(layout) :
                /\ k \notin DOMAIN CURSOR_TURN /\ k # " " /\ k # "p"
                /\ k \notin DOMAIN LetterMove(layout) /\ k \notin DOMAIN Known(layout)
           /\ "p" \notin DOMAIN CURSOR_TURN /\ " " \notin DOMAIN CURSOR_TURN
           /\ "g" \notin DOMAIN CURSOR_TURN
           /\ \A k \in DOMAIN NUMPAD_KEY_MOVE : k \notin DOMAIN CURSOR_TURN /\ k # " "
           /\ \A k \in DOMAIN NUMPAD_OP_COMMAND :
                k \notin DOMAIN CURSOR_TURN /\ k # " " /\ k \notin DOMAIN NUMPAD_KEY_MOVE
           /\ \A northFix : DOMAIN Cursor(northFix) = DOMAIN CURSOR_TURN
<1>1. DOMAIN WASD_MOVE = {"w", "s", "a", "d", "q", "e", "x"}
  BY DEF WASD_MOVE
<1>2. DOMAIN NUMPAD_LETTER_MOVE = {"7", "8", "9", "u", "i", "o", "k"}
  BY DEF NUMPAD_LETTER_MOVE
<1>3. DOMAIN NUMPAD_KEY_MOVE = {"2", "4", "5", "6", "7", "8", "9"}
  BY DEF NUMPAD_KEY_MOVE
<1>4. DOMAIN NUMPAD_OP_COMMAND = {"+", "-", "*", "/"}
  BY DEF NUMPAD_OP_COMMAND
<1>5. /\ DOMAIN CURSOR_TURN = {"ArrowUp", "ArrowDown", "ArrowLeft", "ArrowRight"}
      /\ DOMAIN CURSOR_NF = {"ArrowUp", "ArrowDown", "ArrowLeft", "ArrowRight"}
  BY DEF CURSOR_TURN, CURSOR_NF
<1>6. DOMAIN COMMAND_KNOWN_WASD = {"b", "g", "u", "v", "z", "o"}
  BY DEF COMMAND_KNOWN_WASD
<1>7. DOMAIN COMMAND_KNOWN_NUMPAD = {"b", "q", "w", "v", "z", "x"}
  BY DEF COMMAND_KNOWN_NUMPAD
<1>8. DOMAIN COMMAND_RAW_WASD = {"c", "f", "h", "j", "k", "m", "n", "r", "y"}
  BY DEF COMMAND_RAW_WASD
<1>9. DOMAIN COMMAND_RAW_NUMPAD = {"a", "c", "d", "f", "h", "m", "n", "r", "s", "y"}
  BY DEF COMMAND_RAW_NUMPAD
<1>10. \A k \in {"p", " ", "g"} \cup DOMAIN NUMPAD_KEY_MOVE : k \notin DOMAIN CURSOR_TURN
  BY <1>3, <1>5
<1>11. \A k \in DOMAIN NUMPAD_OP_COMMAND :
         k \notin DOMAIN CURSOR_TURN /\ k # " " /\ k \notin DOMAIN NUMPAD_KEY_MOVE
  BY <1>3, <1>4, <1>5
<1>12. /\ \A k \in DOMAIN NUMPAD_KEY_MOVE : k # " "
       /\ \A northFix : DOMAIN Cursor(northFix) = DOMAIN CURSOR_TURN
  BY <1>3, <1>5 DEF Cursor
<1>13. CASE layout = "wasd"
  <2>1. /\ LetterMove(layout) = WASD_MOVE /\ Known(layout) = COMMAND_KNOWN_WASD
        /\ Raw(layout) = COMMAND_RAW_WASD
    BY <1>13 DEF LetterMove, Known, Raw
  <2>2. \A k \in DOMAIN LetterMove(layout) : k \notin DOMAIN CURSOR_TURN /\ k # " " /\ k # "p"
    BY <1>1, <1>5, <2>1
  <2>3. \A k \in DOMAIN Known(layout) :
          k \notin DOMAIN CURSOR_TURN /\ k # " " /\ k # "p" /\ k \notin DOMAIN LetterMove(layout)
    BY <1>1, <1>5, <1>6, <2>1
  <2>4. \A k \in DOMAIN Raw(layout) :
          k \notin DOMAIN CURSOR_TURN /\ k # " " /\ k # "p" /\ k \notin DOMAIN LetterMove(layout)
    BY <1>1, <1>5, <1>8, <2>1
  <2>5. \A k \in DOMAIN Raw(layout) : k \notin DOMAIN Known(layout)
    BY <1>6, <1>8, <2>1
  <2> QED BY <1>10, <1>11, <1>12, <2>2, <2>3, <2>4, <2>5
<1>14. CASE layout # "wasd"
  <2>1. /\ LetterMove(layout) = NUMPAD_LETTER_MOVE /\ Known(layout) = COMMAND_KNOWN_NUMPAD
        /\ Raw(layout) = COMMAND_RAW_NUMPAD
    BY <1>14 DEF LetterMove, Known, Raw
  <2>2. \A k \in DOMAIN LetterMove(layout) : k \notin DOMAIN CURSOR_TURN /\ k # " " /\ k # "p"
    BY <1>2, <1>5, <2>1
  <2>3. \A k \in DOMAIN Known(layout) :
          k \notin DOMAIN CURSOR_TURN /\ k # " " /\ k # "p" /\ k \notin DOMAIN LetterMove(layout)
    BY <1>2, <1>5, <1>7, <2>1
  <2>4. \A k \in DOMAIN Raw(layout) :
          k \notin DOMAIN CURSOR_TURN /\ k # " " /\ k # "p" /\ k \notin DOMAIN LetterMove(layout)
    BY <1>2, <1>5, <1>9, <2>1
  <2>5. \A k \in DOMAIN Raw(layout) : k \notin DOMAIN Known(layout)
    BY <1>7, <1>9, <2>1
  <2> QED BY <1>10, <1>11, <1>12, <2>2, <2>3, <2>4, <2>5
<1> QED BY <1>13, <1>14

LEMMA SlotsIntend ==
    ASSUME NEW ctx, NEW slot, ctx.words[slot] # Unassigned
    PROVE  SlotIntent(slot, ctx) # None
<1>1. \A w : Cast(w).type = "command" /\ Say(w).type = "command" /\ None.type = "none"
  BY DEF Cast, Say, None
<1> QED BY <1>1 DEF SlotIntent

(* What plays, test by test. *)
LEMMA Plays ==
    ASSUME NEW ctx, NEW ev, NEW k, k = ev.key
    PROVE  /\ k = " " => PlayIntent(ev, ctx) = Command("hit")
           /\ k \in DOMAIN CURSOR_TURN =>
                PlayIntent(ev, ctx) = actionToIntent(Cursor(ctx.northFix)[k], ctx.northFix)
           /\ ev.shift /\ k = "g" /\ ctx.altG # Unassigned => PlayIntent(ev, ctx) = Say(ctx.altG)
           /\ ~ev.shift /\ ev.numpad /\ k \in DOMAIN NUMPAD_KEY_MOVE =>
                PlayIntent(ev, ctx) = actionToIntent(NUMPAD_KEY_MOVE[k], ctx.northFix)
           /\ ~ev.shift /\ ev.numpad /\ k \in DOMAIN NUMPAD_OP_COMMAND =>
                PlayIntent(ev, ctx) = Command(NUMPAD_OP_COMMAND[k])
           /\ ~ev.shift /\ ~ev.numpad /\ k \in DOMAIN LetterMove(ctx.layout) =>
                PlayIntent(ev, ctx) = actionToIntent(LetterMove(ctx.layout)[k], ctx.northFix)
           /\ ~ev.shift /\ ~ev.numpad /\ k \in DOMAIN Known(ctx.layout) =>
                PlayIntent(ev, ctx) = Command(Known(ctx.layout)[k])
           /\ ~ev.shift /\ ~ev.numpad /\ k \in DOMAIN Raw(ctx.layout) =>
                PlayIntent(ev, ctx) = Say(Raw(ctx.layout)[k])
           /\ ~ev.shift /\ ~ev.numpad /\ ~ev.ctrl /\ k = "p" => PlayIntent(ev, ctx) = Pay
<1>0. /\ k \in DOMAIN LetterMove(ctx.layout) => k \notin DOMAIN CURSOR_TURN /\ k # " "
      /\ k \in DOMAIN Known(ctx.layout) =>
           k \notin DOMAIN CURSOR_TURN /\ k # " " /\ k \notin DOMAIN LetterMove(ctx.layout)
      /\ k \in DOMAIN Raw(ctx.layout) =>
           /\ k \notin DOMAIN CURSOR_TURN /\ k # " "
           /\ k \notin DOMAIN LetterMove(ctx.layout) /\ k \notin DOMAIN Known(ctx.layout)
      /\ k \in DOMAIN CURSOR_TURN => k # " "
      /\ k \in DOMAIN NUMPAD_KEY_MOVE => k \notin DOMAIN CURSOR_TURN /\ k # " "
      /\ k \in DOMAIN NUMPAD_OP_COMMAND =>
           k \notin DOMAIN CURSOR_TURN /\ k # " " /\ k \notin DOMAIN NUMPAD_KEY_MOVE
  BY KeysApart
<1>1. k \in {"g", "p"} => k \notin DOMAIN CURSOR_TURN /\ k # " "
  BY KeysApart
<1>2. k = "p" => /\ k \notin DOMAIN LetterMove(ctx.layout)
                 /\ k \notin DOMAIN Known(ctx.layout) /\ k \notin DOMAIN Raw(ctx.layout)
  BY KeysApart
<1>3. k = " " => PlayIntent(ev, ctx) = Command("hit")
  BY <1>0 DEF PlayIntent
<1>4. k \in DOMAIN CURSOR_TURN =>
        PlayIntent(ev, ctx) = actionToIntent(Cursor(ctx.northFix)[k], ctx.northFix)
  BY <1>0 DEF PlayIntent
<1>5. k # " " /\ k \notin DOMAIN CURSOR_TURN =>
        PlayIntent(ev, ctx) =
          IF ev.shift /\ k = "g" /\ ctx.altG # Unassigned THEN Say(ctx.altG)
          ELSE IF ev.numpad /\ k \in DOMAIN NUMPAD_KEY_MOVE
            THEN actionToIntent(NUMPAD_KEY_MOVE[k], ctx.northFix)
          ELSE IF ev.numpad /\ k \in DOMAIN NUMPAD_OP_COMMAND
            THEN Command(NUMPAD_OP_COMMAND[k])
          ELSE IF k \in DOMAIN LetterMove(ctx.layout)
            THEN actionToIntent(LetterMove(ctx.layout)[k], ctx.northFix)
          ELSE IF k \in DOMAIN Known(ctx.layout) THEN Command(Known(ctx.layout)[k])
          ELSE IF k \in DOMAIN Raw(ctx.layout) THEN Say(Raw(ctx.layout)[k])
          ELSE IF k = "p" /\ ~ev.ctrl THEN Pay ELSE None
  BY DEF PlayIntent
<1> QED BY <1>0, <1>1, <1>2, <1>3, <1>4, <1>5

LEMMA EventsOfHelp ==
    /\ \A k : /\ KeyEvent(k).key = k /\ KeyEvent(k).shift = FALSE
              /\ KeyEvent(k).numpad = FALSE /\ KeyEvent(k).ctrl = FALSE
    /\ \A k : OnNumpad(k).key = k /\ OnNumpad(k).shift = FALSE /\ OnNumpad(k).numpad = TRUE
    /\ \A k, slot : /\ WithShift(k, slot).key = k /\ WithShift(k, slot).shift = TRUE
                    /\ WithShift(k, slot).ctrl = FALSE /\ WithShift(k, slot).slot = slot
  BY DEF KeyEvent, OnNumpad, WithShift

(* Without Shift a key does what it plays. *)
LEMMA Unshifted ==
    ASSUME NEW ctx, NEW ev, ~ev.shift \/ ev.slot \notin Slots
    PROVE  resolveKey(ev, ctx, FALSE, FALSE) = PlayIntent(ev, ctx)
  BY DEF resolveKey, resolveShiftDigit

(* Whatever the layout, the words and the map: a key does what its row     *)
(* says.                                                                   *)
LEMMA RowsAreTrue ==
    ASSUME NEW ctx, NEW r \in describeKeys(ctx)
    PROVE  resolveKey(r.press, ctx, FALSE, FALSE) = r.does
<1> DEFINE does(ev) == resolveKey(ev, ctx, FALSE, FALSE)
<1>0. \A e, intent : Row(e, intent).press = e /\ Row(e, intent).does = intent
  BY DEF Row
<1>1. ASSUME NEW k, NEW e, e = KeyEvent(k)
      PROVE  /\ e.key = k /\ ~e.shift /\ ~e.numpad /\ ~e.ctrl
             /\ does(e) = PlayIntent(e, ctx)
  BY <1>1, EventsOfHelp, Unshifted
<1>2. ASSUME NEW k, NEW e, e = OnNumpad(k)
      PROVE  e.key = k /\ ~e.shift /\ e.numpad /\ does(e) = PlayIntent(e, ctx)
  BY <1>2, EventsOfHelp, Unshifted
<1>3. ASSUME NEW slot \in Slots, ctx.words[slot] # Unassigned, NEW e, e = WithShift("!", slot)
      PROVE  does(e) = SlotIntent(slot, ctx)
  <2>1. e.shift /\ ~e.ctrl /\ e.slot = slot
    BY <1>3, EventsOfHelp
  <2> QED BY <1>3, <2>1, SlotsIntend DEF resolveKey, resolveShiftDigit
<1>4. ASSUME ctx.altG # Unassigned, NEW e, e = WithShift("g", Unassigned)
      PROVE  does(e) = Say(ctx.altG)
  <2>1. e.key = "g" /\ e.shift /\ e.slot \notin Slots
    BY <1>4, EventsOfHelp, KeysAssumption
  <2>2. does(e) = PlayIntent(e, ctx)
    BY <2>1, Unshifted
  <2> QED BY <1>4, <2>1, <2>2, Plays
<1> HIDE DEF does
<1>5. PICK e : e = r.press
  OBVIOUS
<1>6. ASSUME NEW k \in DOMAIN LetterMove(ctx.layout), r = Row(KeyEvent(k), actionToIntent(LetterMove(ctx.layout)[k], ctx.northFix))
      PROVE  does(e) = r.does
  <2>1. e = KeyEvent(k) /\ r.does = actionToIntent(LetterMove(ctx.layout)[k], ctx.northFix)
    BY <1>0, <1>5, <1>6
  <2>2. k = e.key /\ ~e.shift /\ ~e.numpad /\ ~e.ctrl /\ does(e) = PlayIntent(e, ctx)
    BY <1>1, <2>1
  <2>3. PlayIntent(e, ctx) = actionToIntent(LetterMove(ctx.layout)[k], ctx.northFix)
    BY <1>6, <2>2, Plays
  <2> QED BY <2>1, <2>2, <2>3
<1>7. ASSUME NEW k \in DOMAIN CURSOR_TURN, r = Row(KeyEvent(k), actionToIntent(Cursor(ctx.northFix)[k], ctx.northFix))
      PROVE  does(e) = r.does
  <2>1. e = KeyEvent(k) /\ r.does = actionToIntent(Cursor(ctx.northFix)[k], ctx.northFix)
    BY <1>0, <1>5, <1>7
  <2>2. k = e.key /\ ~e.shift /\ ~e.numpad /\ ~e.ctrl /\ does(e) = PlayIntent(e, ctx)
    BY <1>1, <2>1
  <2>3. PlayIntent(e, ctx) = actionToIntent(Cursor(ctx.northFix)[k], ctx.northFix)
    BY <1>7, <2>2, Plays
  <2> QED BY <2>1, <2>2, <2>3
<1>8. ASSUME NEW k \in DOMAIN NUMPAD_KEY_MOVE, r = Row(OnNumpad(k), actionToIntent(NUMPAD_KEY_MOVE[k], ctx.northFix))
      PROVE  does(e) = r.does
  <2>1. e = OnNumpad(k) /\ r.does = actionToIntent(NUMPAD_KEY_MOVE[k], ctx.northFix)
    BY <1>0, <1>5, <1>8
  <2>2. k = e.key /\ ~e.shift /\ e.numpad /\ does(e) = PlayIntent(e, ctx)
    BY <1>2, <2>1
  <2>3. PlayIntent(e, ctx) = actionToIntent(NUMPAD_KEY_MOVE[k], ctx.northFix)
    BY <1>8, <2>2, Plays
  <2> QED BY <2>1, <2>2, <2>3
<1>9. ASSUME NEW k \in DOMAIN Known(ctx.layout), r = Row(KeyEvent(k), Command(Known(ctx.layout)[k]))
      PROVE  does(e) = r.does
  <2>1. e = KeyEvent(k) /\ r.does = Command(Known(ctx.layout)[k])
    BY <1>0, <1>5, <1>9
  <2>2. k = e.key /\ ~e.shift /\ ~e.numpad /\ ~e.ctrl /\ does(e) = PlayIntent(e, ctx)
    BY <1>1, <2>1
  <2>3. PlayIntent(e, ctx) = Command(Known(ctx.layout)[k])
    BY <1>9, <2>2, Plays
  <2> QED BY <2>1, <2>2, <2>3
<1>10. ASSUME NEW k \in DOMAIN Raw(ctx.layout), r = Row(KeyEvent(k), Say(Raw(ctx.layout)[k]))
      PROVE  does(e) = r.does
  <2>1. e = KeyEvent(k) /\ r.does = Say(Raw(ctx.layout)[k])
    BY <1>0, <1>5, <1>10
  <2>2. k = e.key /\ ~e.shift /\ ~e.numpad /\ ~e.ctrl /\ does(e) = PlayIntent(e, ctx)
    BY <1>1, <2>1
  <2>3. PlayIntent(e, ctx) = Say(Raw(ctx.layout)[k])
    BY <1>10, <2>2, Plays
  <2> QED BY <2>1, <2>2, <2>3
<1>11. ASSUME NEW k \in DOMAIN NUMPAD_OP_COMMAND, r = Row(OnNumpad(k), Command(NUMPAD_OP_COMMAND[k]))
      PROVE  does(e) = r.does
  <2>1. e = OnNumpad(k) /\ r.does = Command(NUMPAD_OP_COMMAND[k])
    BY <1>0, <1>5, <1>11
  <2>2. k = e.key /\ ~e.shift /\ e.numpad /\ does(e) = PlayIntent(e, ctx)
    BY <1>2, <2>1
  <2>3. PlayIntent(e, ctx) = Command(NUMPAD_OP_COMMAND[k])
    BY <1>11, <2>2, Plays
  <2> QED BY <2>1, <2>2, <2>3
<1>12. ASSUME NEW k \in {" "}, r = Row(KeyEvent(k), Command("hit"))
      PROVE  does(e) = r.does
  <2>1. e = KeyEvent(k) /\ r.does = Command("hit")
    BY <1>0, <1>5, <1>12
  <2>2. k = e.key /\ ~e.shift /\ ~e.numpad /\ ~e.ctrl /\ does(e) = PlayIntent(e, ctx)
    BY <1>1, <2>1
  <2>3. PlayIntent(e, ctx) = Command("hit")
    BY <1>12, <2>2, Plays
  <2> QED BY <2>1, <2>2, <2>3
<1>13. ASSUME NEW k \in {"p"}, r = Row(KeyEvent(k), Pay)
      PROVE  does(e) = r.does
  <2>1. e = KeyEvent(k) /\ r.does = Pay
    BY <1>0, <1>5, <1>13
  <2>2. k = e.key /\ ~e.shift /\ ~e.numpad /\ ~e.ctrl /\ does(e) = PlayIntent(e, ctx)
    BY <1>1, <2>1
  <2>3. PlayIntent(e, ctx) = Pay
    BY <1>13, <2>2, Plays
  <2> QED BY <2>1, <2>2, <2>3
<1>14. ASSUME NEW slot \in Slots, ctx.words[slot] # Unassigned,
             r = Row(WithShift("!", slot), SlotIntent(slot, ctx))
      PROVE  does(e) = r.does
  BY <1>0, <1>3, <1>5, <1>14
<1>15. ASSUME ctx.altG # Unassigned, r = Row(WithShift("g", Unassigned), Say(ctx.altG))
      PROVE  does(e) = r.does
  BY <1>0, <1>4, <1>5, <1>15
<1>16. DOMAIN Cursor(ctx.northFix) = DOMAIN CURSOR_TURN
  BY KeysApart
<1>17. does(e) = r.does
  BY <1>6, <1>7, <1>8, <1>9, <1>10, <1>11, <1>12, <1>13, <1>14, <1>15, <1>16, RowsOfHelp
<1> QED BY <1>5, <1>17 DEF does

(* Any key that does something has a row. *)
LEMMA KeysAreTold ==
    ASSUME NEW ctx, NEW ev, resolveKey(ev, ctx, FALSE, FALSE) # None
    PROVE  \E r \in describeKeys(ctx) : r.does = resolveKey(ev, ctx, FALSE, FALSE)
<1>0. \A e, intent : Row(e, intent).does = intent
  BY DEF Row
<1>1. CASE resolveShiftDigit(ev, ctx) # None
  <2>1. /\ resolveKey(ev, ctx, FALSE, FALSE) = SlotIntent(ev.slot, ctx)
        /\ ev.slot \in Slots /\ ctx.words[ev.slot] # Unassigned
    BY <1>1 DEF resolveKey, resolveShiftDigit, SlotIntent
  <2>2. Row(WithShift("!", ev.slot), SlotIntent(ev.slot, ctx)) \in describeKeys(ctx)
    BY <2>1, RowsOfHelp
  <2> QED BY <1>0, <2>1, <2>2
<1>2. CASE resolveShiftDigit(ev, ctx) = None
  <2>1. PICK i : i = resolveKey(ev, ctx, FALSE, FALSE) /\ i = PlayIntent(ev, ctx) /\ i # None
    BY <1>2 DEF resolveKey
  <2>2. PICK k : k = ev.key
    OBVIOUS
  <2>3. \/ i = Command("hit")
        \/ k \in DOMAIN CURSOR_TURN /\ i = actionToIntent(Cursor(ctx.northFix)[k], ctx.northFix)
        \/ ctx.altG # Unassigned /\ i = Say(ctx.altG)
        \/ k \in DOMAIN NUMPAD_KEY_MOVE /\ i = actionToIntent(NUMPAD_KEY_MOVE[k], ctx.northFix)
        \/ k \in DOMAIN NUMPAD_OP_COMMAND /\ i = Command(NUMPAD_OP_COMMAND[k])
        \/ /\ k \in DOMAIN LetterMove(ctx.layout)
           /\ i = actionToIntent(LetterMove(ctx.layout)[k], ctx.northFix)
        \/ k \in DOMAIN Known(ctx.layout) /\ i = Command(Known(ctx.layout)[k])
        \/ k \in DOMAIN Raw(ctx.layout) /\ i = Say(Raw(ctx.layout)[k])
        \/ i = Pay
    BY <2>1, <2>2, KeysApart DEF PlayIntent
  <2>4. \E e : Row(e, i) \in describeKeys(ctx)
    BY <2>3, RowsOfHelp, KeysApart
  <2> QED BY <1>0, <2>1, <2>4
<1> QED BY <1>1, <1>2

(* The help tells, of all keys and in any settings, what they do.          *)
(* (lib/keyHandler.ts: resolveKey and describeKeys read the same tables.)  *)
THEOREM HelpTellsTheKeys == GameSpec => []HelpIsTrue
<1>1. HelpIsTrue
  <2> DEFINE does(ev) == resolveKey(ev, Context, FALSE, FALSE)
  <2>1. \A r \in describeKeys(Context) : does(r.press) = r.does
    BY RowsAreTrue
  <2>2. \A ev : does(ev) \in {r.does : r \in describeKeys(Context)} \cup {None}
    BY KeysAreTold
  <2> HIDE DEF does
  <2>3. \A ev \in AllEvents \cup Pressed : does(ev) \in {r.does : r \in describeKeys(Context)} \cup {None}
    BY <2>2
  <2> QED BY <2>1, <2>3 DEF HelpIsTrue, does
<1> QED BY <1>1, PTL
-----------------------------------------------------------------------------
ComposeInv ==
    /\ chatMode \in ChatMode
    /\ confirm # Absent => confirm.mode = "loud"

(* Only a loud text reaches the game as a shout: as itself, for its tab.   *)
LEMMA ShoutsAreLoud ==
    ASSUME NEW s, NEW mode \in ChatMode, NEW text, NEW to,
           NEW line \in sendChat(s, mode, text, to), line.lead = "*"
    PROVE  mode = "loud" /\ line.session = s /\ line.word = text.word
<1>1. normal_chat(text) # "*"
  BY DEF normal_chat
<1>2. \A each, l : l \in Serialized(each, "normal", text, to) => l.lead # "*"
  BY <1>1 DEF Serialized
<1>3. CASE mode = "all"
  BY <1>2, <1>3 DEF sendChat
<1>4. CASE mode # "all"
  <2>1. line \in Serialized(s, mode, text, to)
    BY <1>4 DEF sendChat
  <2>2. mode \in {"normal", "loud", "party", "priv"}
    BY <1>4 DEF ChatMode
  <2>3. CASE mode = "normal"
    BY <1>2, <2>1, <2>3
  <2>4. CASE mode = "loud"
    BY <2>1, <2>4 DEF Serialized
  <2>5. CASE mode = "party"
    BY <2>1, <2>5 DEF Serialized
  <2>6. CASE mode = "priv"
    BY <2>1, <2>6 DEF Serialized
  <2> QED BY <2>2, <2>3, <2>4, <2>5, <2>6
<1> QED BY <1>3, <1>4

LEMMA ComposeInit == ChatInit => ComposeInv
  BY DEF ChatInit, ComposeInv, ChatMode

LEMMA ComposeStep == ComposeInv /\ [ChatNext]_chatVars => ComposeInv'
<1> SUFFICES ASSUME ComposeInv, [ChatNext]_chatVars PROVE ComposeInv'
  OBVIOUS
<1> USE DEF ComposeInv
<1>1. CASE handleSubmit
  BY <1>1 DEF handleSubmit, Now, choice
<1>2. CASE CtrlEnter
  BY <1>2 DEF CtrlEnter, choice
<1>3. CASE ConfirmOk
  BY <1>3 DEF ConfirmOk, choice
<1>4. CASE ConfirmCancel
  BY <1>4 DEF ConfirmCancel, choice
<1>5. CASE LeaveGame
  BY <1>5 DEF LeaveGame, choice
<1>6. ASSUME NEW up \in BOOLEAN, Recall(up) PROVE ComposeInv'
  BY <1>6 DEF Recall, choice
<1>7. ASSUME NEW text \in Optional(Said), Write(text) PROVE ComposeInv'
  BY <1>7 DEF Write, choice
<1>8. ASSUME NEW mode \in ChatMode, Choose(mode) PROVE ComposeInv'
  BY <1>8 DEF Choose
<1>9. ASSUME NEW name \in Optional(Users[chatTab]), ChooseTo(name) PROVE ComposeInv'
  BY <1>9 DEF ChooseTo
<1>10. ASSUME NEW s \in Sessions, SelectTab(s) PROVE ComposeInv'
  BY <1>10 DEF SelectTab, choice
<1>11. CASE LogNext
  BY <1>11 DEF LogNext, WindowFocus, MessageArrives, choice
<1>12. CASE UNCHANGED chatVars
  BY <1>12 DEF chatVars, choice
<1> QED BY <1>1, <1>2, <1>3, <1>4, <1>5, <1>6, <1>7, <1>8, <1>9, <1>10, <1>11, <1>12
        DEF ChatNext, ComposeNext

(* A step of which the game hears a shout is the OK of its dialog.         *)
LEMMA ShoutStep ==
    ASSUME ComposeInv, [ChatNext]_chatVars
    PROVE  (\A line \in Shouts :
              /\ confirm # Absent /\ confirm' = Absent
              /\ line.session = confirm.session
              /\ line.word = confirm.text.word) \/ UNCHANGED chatVars
<1> SUFFICES ASSUME ChatNext, NEW line \in heard', line.lead = "*"
             PROVE  /\ confirm # Absent /\ confirm' = Absent
                    /\ line.session = confirm.session
                    /\ line.word = confirm.text.word
  BY DEF Shouts
<1>1. CASE handleSubmit
  <2>1. PICK c : c = Now(chatMode) OBVIOUS
  <2>2. chatMode # "loud" /\ heard' = sendChat(c.session, c.mode, c.text, c.to)
    BY <1>1, <2>1 DEF handleSubmit, doSend
  <2>3. c.mode = chatMode /\ c.mode \in ChatMode
    BY <2>1 DEF Now, ComposeInv
  <2> QED BY <2>2, <2>3, ShoutsAreLoud
<1>2. CASE CtrlEnter
  <2>1. PICK c : c = Now("party") OBVIOUS
  <2>2. heard' = sendChat(c.session, c.mode, c.text, c.to) /\ c.mode = "party"
    BY <1>2, <2>1 DEF CtrlEnter, doSend, Now
  <2>3. c.mode \in ChatMode
    BY <2>2 DEF ChatMode
  <2> QED BY <2>2, <2>3, ShoutsAreLoud
<1>3. CASE ConfirmOk
  <2>1. confirm # Absent /\ confirm' = Absent
        /\ heard' = sendChat(confirm.session, confirm.mode, confirm.text, confirm.to)
    BY <1>3 DEF ConfirmOk, doSend
  <2>2. confirm.mode \in ChatMode
    BY <2>1 DEF ComposeInv, ChatMode
  <2> QED BY <2>1, <2>2, ShoutsAreLoud
<1>4. CASE heard' = {}
  BY <1>4
<1> QED BY <1>1, <1>2, <1>3, <1>4
        DEF ChatNext, ComposeNext, LogNext, ConfirmCancel, LeaveGame, Recall, Write, Choose,
            ChooseTo, SelectTab, WindowFocus, MessageArrives

(* The dialog only ever holds a shout.                                     *)
THEOREM ComposeSafe == ChatSpec => []ComposeInv
<1>1. ChatInit => ComposeInv BY ComposeInit
<1>2. ComposeInv /\ [ChatNext]_chatVars => ComposeInv' BY ComposeStep
<1> QED BY <1>1, <1>2, PTL DEF ChatSpec

(* No shout without the OK of the dialog that showed that very text for    *)
(* that very tab.                                                          *)
THEOREM EveryShoutIsConfirmed == ChatSpec => LoudConfirmed
<1>1. ComposeInv /\ [ChatNext]_chatVars =>
        [\A line \in Shouts :
            /\ confirm # Absent /\ confirm' = Absent
            /\ line.session = confirm.session
            /\ line.word = confirm.text.word]_chatVars
  BY ShoutStep
<1> QED BY <1>1, ComposeSafe, PTL DEF ChatSpec, LoudConfirmed
(* The types of the chat: what is typed, remembered and heard, and the two *)
(* bounds, of the history and of the log.                                  *)
ChatTyped ==
    /\ chatTab \in Sessions
    /\ chatMode \in ChatMode /\ privTo \in Optional(Names)
    /\ draft \in Optional(Said)
    /\ history \in Seq(Said) /\ Len(history) <= HistoryMax
    /\ cursor \in 0..Len(history)
    /\ confirm \in Optional(Closure)
    /\ heard \subseteq Line
    /\ log \in [Sessions -> Seq(Entry)] /\ \A s \in Sessions : Len(log[s]) <= Capacity
    /\ unread \in [Sessions -> Nat] /\ numbered \in [Sessions -> Nat]
    /\ alert \subseteq {"popup", "title", "sound"} /\ flashing \in BOOLEAN
    /\ notifyScope \in NotifySettings

LEMMA ChatBounds == HistoryMax \in Nat \ {0} /\ Capacity \in Nat \ {0} /\ MaxMessages \in Nat
  BY ChatAssumption

LEMMA ChatTypedInit == ChatInit => ChatTyped
<1> SUFFICES ASSUME ChatInit PROVE ChatTyped
  OBVIOUS
<1>1. <<>> \in Seq(Said) /\ <<>> \in Seq(Entry) /\ Len(<<>>) = 0
  OBVIOUS
<1>2. history \in Seq(Said) /\ Len(history) <= HistoryMax /\ cursor \in 0..Len(history)
  BY <1>1, ChatBounds DEF ChatInit
<1>3. log \in [Sessions -> Seq(Entry)] /\ \A s \in Sessions : Len(log[s]) <= Capacity
  BY <1>1, ChatBounds DEF ChatInit
<1> QED BY <1>2, <1>3 DEF ChatInit, ChatTyped, ChatMode, Optional

(* Appended, and the first one dropped when there are too many.            *)
LEMMA Trimmed ==
    ASSUME NEW S, NEW q \in Seq(S), NEW n \in Nat \ {0}, Len(q) <= n, NEW x \in S
    PROVE  LET longer == Append(q, x)
               kept == IF Len(longer) > n THEN Tail(longer) ELSE longer
           IN  kept \in Seq(S) /\ Len(kept) <= n
<1> DEFINE longer == Append(q, x)
<1>1. longer \in Seq(S) /\ Len(longer) = Len(q) + 1 /\ Len(q) \in Nat
  OBVIOUS
<1> HIDE DEF longer
<1>2. longer # <<>>
  <2>1. Len(<<>>) = 0
    OBVIOUS
  <2> QED BY <1>1, <2>1
<1>3. Tail(longer) \in Seq(S) /\ Len(Tail(longer)) = Len(longer) - 1
  BY <1>1, <1>2
<1>4. CASE Len(longer) > n
  BY <1>1, <1>3, <1>4 DEF longer
<1>5. CASE ~(Len(longer) > n)
  BY <1>1, <1>5 DEF longer
<1> QED BY <1>4, <1>5

LEMMA SerializedLines ==
    ASSUME NEW s \in Sessions, NEW mode \in ChatMode, NEW text \in Said, NEW to
    PROVE  Serialized(s, mode, text, to) \subseteq Line
<1>1. text.word \in Texts /\ text.lead \in {"", "*", "+"}
  BY ChatAssumption
<1>2. normal_chat(text) \in {"", "/**/"}
  BY DEF normal_chat
<1>3. CASE mode \in {"normal", "all"}
  <2>1. [session |-> s, lead |-> normal_chat(text), word |-> text.word] \in Line
    BY <1>1, <1>2 DEF Line
  <2> QED BY <1>3, <2>1 DEF Serialized
<1>4. CASE mode = "loud"
  <2>1. [session |-> s, lead |-> "*", word |-> text.word] \in Line
    BY <1>1 DEF Line
  <2> QED BY <1>4, <2>1 DEF Serialized
<1>5. CASE mode = "party"
  <2>1. [session |-> s, lead |-> "+", word |-> text.word] \in Line
    BY <1>1 DEF Line
  <2> QED BY <1>5, <2>1 DEF Serialized
<1>6. CASE mode = "priv"
  <2>1. [session |-> s, lead |-> "priv", word |-> text.word] \in Line
    BY <1>1 DEF Line
  <2> QED BY <1>6, <2>1 DEF Serialized
<1> QED BY <1>3, <1>4, <1>5, <1>6 DEF ChatMode

LEMMA SentLines ==
    ASSUME NEW s \in Sessions, NEW mode \in ChatMode, NEW text \in Said, NEW to
    PROVE  sendChat(s, mode, text, to) \subseteq Line
<1>1. \A each \in Sessions : Serialized(each, "normal", text, to) \subseteq Line
  BY SerializedLines DEF ChatMode
<1> QED BY <1>1, SerializedLines DEF sendChat

LEMMA DoSendTyped ==
    ASSUME ChatTyped, NEW c \in Closure, doSend(c)
    PROVE  /\ heard' \subseteq Line
           /\ history' \in Seq(Said) /\ Len(history') <= HistoryMax
           /\ cursor' \in 0..Len(history')
           /\ draft' \in Optional(Said)
<1>1. c.session \in Sessions /\ c.mode \in ChatMode /\ c.text \in Said /\ c.live \in BOOLEAN
  BY DEF Closure
<1>2. heard' \subseteq Line
  BY <1>1, SentLines DEF doSend
<1>3. Remembered(c.text) \in Seq(Said) /\ Len(Remembered(c.text)) <= HistoryMax
  <2>1. history \in Seq(Said) /\ Len(history) <= HistoryMax /\ Len(history) \in Nat
    BY DEF ChatTyped
  <2>2. CASE history # <<>> /\ history[Len(history)] = c.text
    BY <2>1, <2>2, ChatBounds DEF Remembered
  <2>3. CASE ~(history # <<>> /\ history[Len(history)] = c.text)
    BY <1>1, <2>1, <2>3, Trimmed, ChatBounds DEF Remembered
  <2> QED BY <2>2, <2>3
<1>4. history' \in Seq(Said) /\ Len(history') <= HistoryMax
  BY <1>3 DEF doSend, ChatTyped
<1>5. cursor' \in 0..Len(history')
  <2>1. Len(history') \in Nat
    BY <1>4
  <2> QED BY <2>1 DEF doSend, ChatTyped
<1> QED BY <1>2, <1>4, <1>5 DEF doSend, ChatTyped, Optional

LEMMA AddTyped ==
    ASSUME ChatTyped, NEW s \in Sessions, NEW e \in Entry, addMessage(s, e)
    PROVE  /\ log' \in [Sessions -> Seq(Entry)] /\ \A t \in Sessions : Len(log'[t]) <= Capacity
           /\ unread' \in [Sessions -> Nat]
<1>1. log[s] \in Seq(Entry) /\ Len(log[s]) <= Capacity
  BY DEF ChatTyped
<1> DEFINE longer == Append(log[s], e)
           kept == IF Len(longer) > Capacity THEN Tail(longer) ELSE longer
<1>2. kept \in Seq(Entry) /\ Len(kept) <= Capacity
  BY <1>1, Trimmed, ChatBounds
<1>3. CASE isDuplicate(log[s], e)
  BY <1>3 DEF addMessage, ChatTyped
<1>4. CASE ~isDuplicate(log[s], e)
  <2>1. log' = [log EXCEPT ![s] = kept]
        /\ unread' = IF isChatChannel(e.channel) THEN [unread EXCEPT ![s] = @ + 1] ELSE unread
    BY <1>4 DEF addMessage
  <2> HIDE DEF kept
  <2>2. log' \in [Sessions -> Seq(Entry)] /\ \A t \in Sessions : Len(log'[t]) <= Capacity
    BY <1>2, <2>1 DEF ChatTyped
  <2>3. unread' \in [Sessions -> Nat]
    BY <2>1 DEF ChatTyped
  <2> QED BY <2>2, <2>3
<1> QED BY <1>3, <1>4

LEMMA MessageTyped ==
    ASSUME ChatTyped, NEW s \in Sessions, NEW ch \in MessageChannel, NEW mine \in BOOLEAN,
           NEW matches \in BOOLEAN, MessageArrives(s, ch, mine, matches)
    PROVE  ChatTyped'
<1> DEFINE e == [seq |-> numbered[s] + 1, channel |-> ch, mine |-> mine]
<1>1. e \in Entry
  BY DEF Entry, ChatTyped
<1>2. /\ addMessage(s, e) /\ numbered' = [numbered EXCEPT ![s] = numbered[s] + 1]
      /\ alert' \in {notify(notifyScope), {}}
      /\ flashing' = (flashing \/ "title" \in alert')
      /\ heard' = {}
      /\ UNCHANGED <<chatTab, choice, composer, confirm, notifyScope>>
  BY DEF MessageArrives
<1> HIDE DEF e
<1>3. /\ log' \in [Sessions -> Seq(Entry)] /\ \A t \in Sessions : Len(log'[t]) <= Capacity
      /\ unread' \in [Sessions -> Nat]
  BY <1>1, <1>2, AddTyped
<1>4. alert' \subseteq {"popup", "title", "sound"} /\ flashing' \in BOOLEAN
  BY <1>2 DEF notify, ChatTyped
<1>5. numbered' \in [Sessions -> Nat]
  BY <1>2 DEF ChatTyped
<1> QED BY <1>2, <1>3, <1>4, <1>5 DEF ChatTyped, choice, composer

LEMMA ChatTypedStep == ChatTyped /\ [ChatNext]_chatVars => ChatTyped'
<1> SUFFICES ASSUME ChatTyped, [ChatNext]_chatVars PROVE ChatTyped'
  OBVIOUS
<1>1. CASE handleSubmit
  <2>1. draft # Absent /\ UNCHANGED <<chatTab, choice, received>>
    BY <1>1 DEF handleSubmit
  <2>2. Now(chatMode) \in Closure /\ Now("loud") \in Closure
    BY <2>1 DEF Now, Closure, ChatTyped, Optional, ChatMode
  <2>3. CASE chatMode = "loud"
    BY <1>1, <2>1, <2>2, <2>3 DEF handleSubmit, ChatTyped, choice, composer, received, Optional
  <2>4. CASE chatMode # "loud"
    <3>1. doSend(Now(chatMode)) /\ UNCHANGED confirm
      BY <1>1, <2>4 DEF handleSubmit
    <3>2. /\ heard' \subseteq Line
          /\ history' \in Seq(Said) /\ Len(history') <= HistoryMax
          /\ cursor' \in 0..Len(history')
          /\ draft' \in Optional(Said)
      BY <2>2, <3>1, DoSendTyped
    <3> QED BY <2>1, <3>1, <3>2 DEF ChatTyped, choice, received
  <2> QED BY <2>3, <2>4
<1>2. CASE CtrlEnter
  <2>1. draft # Absent /\ doSend(Now("party")) /\ UNCHANGED <<chatTab, choice, confirm, received>>
    BY <1>2 DEF CtrlEnter
  <2>2. Now("party") \in Closure
    BY <2>1 DEF Now, Closure, ChatTyped, Optional, ChatMode
  <2>3. /\ heard' \subseteq Line
        /\ history' \in Seq(Said) /\ Len(history') <= HistoryMax
        /\ cursor' \in 0..Len(history')
        /\ draft' \in Optional(Said)
    BY <2>1, <2>2, DoSendTyped
  <2> QED BY <2>1, <2>3 DEF ChatTyped, choice, received
<1>3. CASE ConfirmOk
  <2>1. confirm # Absent /\ doSend(confirm) /\ confirm' = Absent /\ UNCHANGED <<chatTab, choice, received>>
    BY <1>3 DEF ConfirmOk
  <2>2. confirm \in Closure
    BY <2>1 DEF ChatTyped, Optional
  <2>3. /\ heard' \subseteq Line
        /\ history' \in Seq(Said) /\ Len(history') <= HistoryMax
        /\ cursor' \in 0..Len(history')
        /\ draft' \in Optional(Said)
    BY <2>1, <2>2, DoSendTyped
  <2> QED BY <2>1, <2>3 DEF ChatTyped, choice, received, Optional
<1>4. CASE ConfirmCancel
  BY <1>4 DEF ConfirmCancel, ChatTyped, choice, composer, received, Optional
<1>5. CASE LeaveGame
  <2>1. confirm' \in Optional(Closure)
    BY <1>5 DEF LeaveGame, ChatTyped, Optional, Closure
  <2>2. <<>> \in Seq(Said) /\ Len(<<>>) = 0
    OBVIOUS
  <2>3. history' \in Seq(Said) /\ Len(history') <= HistoryMax /\ cursor' \in 0..Len(history')
    BY <1>5, <2>2, ChatBounds DEF LeaveGame
  <2> QED BY <1>5, <2>1, <2>3 DEF LeaveGame, ChatTyped, choice, received, Optional
<1>6. ASSUME NEW up \in BOOLEAN, Recall(up) PROVE ChatTyped'
  <2>1. draft' \in Optional(Said)
    BY <1>6 DEF Recall, ChatTyped, Optional
  <2> QED BY <1>6, <2>1 DEF Recall, ChatTyped, choice, received
<1>7. ASSUME NEW text \in Optional(Said), Write(text) PROVE ChatTyped'
  BY <1>7 DEF Write, ChatTyped, choice, received
<1>8. ASSUME NEW mode \in ChatMode, Choose(mode) PROVE ChatTyped'
  BY <1>8 DEF Choose, ChatTyped, composer, received
<1>9. ASSUME NEW name \in Optional(Users[chatTab]), ChooseTo(name) PROVE ChatTyped'
  <2>1. name \in Optional(Names)
    BY <1>9, ChatAssumption DEF ChatTyped, Optional
  <2> QED BY <1>9, <2>1 DEF ChooseTo, ChatTyped, composer, received
<1>10. ASSUME NEW s \in Sessions, SelectTab(s) PROVE ChatTyped'
  BY <1>10 DEF SelectTab, ChatTyped, choice, composer
<1>11. CASE WindowFocus
  BY <1>11 DEF WindowFocus, ChatTyped, choice, composer
<1>12. CASE UNCHANGED chatVars
  BY <1>12 DEF chatVars, ChatTyped, choice, composer, received
<1> QED BY <1>1, <1>2, <1>3, <1>4, <1>5, <1>6, <1>7, <1>8, <1>9, <1>10, <1>11, <1>12, MessageTyped
        DEF ChatNext, ComposeNext, LogNext

LEMMA ChatTypedImplies == ChatTyped => ChatTypeOK
  BY DEF ChatTyped, ChatTypeOK

(* What the game hears is a line for a session, with a text that was       *)
(* typed, and neither the history nor a log outgrows its bound.            *)
THEOREM ChatTypes == ChatSpec => []ChatTypeOK
<1>1. ChatInit => ChatTyped BY ChatTypedInit
<1>2. ChatTyped /\ [ChatNext]_chatVars => ChatTyped' BY ChatTypedStep
<1> QED BY <1>1, <1>2, ChatTypedImplies, PTL DEF ChatSpec
-----------------------------------------------------------------------------
(* The types of the game screen.  Whatever a key, a button or a dialog     *)
(* sends is a message of the protocol: an intent that is to be sent, with  *)
(* the session it is addressed to, is one of its records.                  *)
Sendable(intent) ==
    intent.type \in {"move", "command", "list.select"} =>
        \A s \in Sessions : To(s, intent) \in GameRequest

LEMMA MovesAreSendable ==
    ASSUME NEW s \in Sessions, NEW mode, NEW dir,
           \/ mode \in {"step", "strafe"} /\ dir \in Dir
           \/ mode = "turn" /\ dir \in TurnDir
    PROVE  To(s, Move(mode, dir)) \in GameRequest
<1>1. To(s, Move(mode, dir)) = [type |-> "move", session |-> s, mode |-> mode, dir |-> dir]
  BY DEF To, Move
<1>2. [type |-> "move", session |-> s, mode |-> mode, dir |-> dir] \in MoveRequest
  BY DEF MoveRequest
<1> QED BY <1>1, <1>2 DEF GameRequest

LEMMA CommandsAreSendable ==
    ASSUME NEW s \in Sessions
    PROVE  /\ \A name \in SimpleCommand : To(s, Command(name)) \in GameRequest
           /\ \A text \in Texts : /\ To(s, Say(text)) \in GameRequest
                                  /\ To(s, Cast(text)) \in GameRequest
           /\ \A n \in Nat : To(s, [type |-> "command", name |-> "pay", amount |-> n]) \in GameRequest
<1>1. ASSUME NEW name \in SimpleCommand PROVE To(s, Command(name)) \in GameRequest
  <2>1. To(s, Command(name)) = [type |-> "command", session |-> s, name |-> name]
    BY DEF To, Command
  <2> QED BY <2>1 DEF GameRequest, CommandRequest
<1>2. ASSUME NEW text \in Texts PROVE To(s, Say(text)) \in GameRequest
  <2>1. To(s, Say(text)) = [type |-> "command", session |-> s, name |-> "raw", text |-> text]
    BY DEF To, Say
  <2> QED BY <2>1 DEF GameRequest, CommandRequest
<1>3. ASSUME NEW text \in Texts PROVE To(s, Cast(text)) \in GameRequest
  <2>1. To(s, Cast(text)) = [type |-> "command", session |-> s, name |-> "castMagic", spell |-> text]
    BY DEF To, Cast
  <2> QED BY <2>1 DEF GameRequest, CommandRequest
<1>4. ASSUME NEW n \in Nat
      PROVE  To(s, [type |-> "command", name |-> "pay", amount |-> n]) \in GameRequest
  <2>1. To(s, [type |-> "command", name |-> "pay", amount |-> n])
          = [type |-> "command", session |-> s, name |-> "pay", amount |-> n]
    BY DEF To
  <2> QED BY <2>1 DEF GameRequest, CommandRequest
<1> QED BY <1>1, <1>2, <1>3, <1>4

LEMMA AnswersAreSendable ==
    ASSUME NEW s \in Sessions
    PROVE  /\ \A n \in Nat : To(s, Pick(n)) \in GameRequest
           /\ \A what \in {"all", "cancel"} : To(s, PickAs(what)) \in GameRequest
           /\ \A text \in Texts :
                To(s, [type |-> "edit.submit", mode |-> "multi", lines |-> <<text>>]) \in GameRequest
           /\ To(s, [type |-> "edit.cancel"]) \in GameRequest
<1>1. ASSUME NEW n \in Nat PROVE To(s, Pick(n)) \in GameRequest
  <2>1. To(s, Pick(n)) = [type |-> "list.select", session |-> s, pick |-> "item", value |-> n]
    BY DEF To, Pick
  <2> QED BY <2>1 DEF GameRequest, ListSelectRequest
<1>2. ASSUME NEW what \in {"all", "cancel"} PROVE To(s, PickAs(what)) \in GameRequest
  <2>1. To(s, PickAs(what)) = [type |-> "list.select", session |-> s, pick |-> what]
    BY DEF To, PickAs
  <2> QED BY <2>1 DEF GameRequest, ListSelectRequest
<1>3. ASSUME NEW text \in Texts
      PROVE  To(s, [type |-> "edit.submit", mode |-> "multi", lines |-> <<text>>]) \in GameRequest
  <2>1. To(s, [type |-> "edit.submit", mode |-> "multi", lines |-> <<text>>])
          = [type |-> "edit.submit", session |-> s, mode |-> "multi", lines |-> <<text>>]
    BY DEF To
  <2>2. <<text>> \in Seq(Texts)
    OBVIOUS
  <2>3. [type |-> "edit.submit", session |-> s, mode |-> "multi", lines |-> <<text>>] \in EditRequest
    BY <2>2 DEF EditRequest
  <2> QED BY <2>1, <2>3 DEF GameRequest
<1>4. To(s, [type |-> "edit.cancel"]) \in GameRequest
  <2>1. To(s, [type |-> "edit.cancel"]) = [type |-> "edit.cancel", session |-> s]
    BY DEF To
  <2> QED BY <2>1 DEF GameRequest, EditRequest
<1> QED BY <1>1, <1>2, <1>3, <1>4

LEMMA ActionsAreSendable ==
    ASSUME NEW s \in Sessions, NEW a \in ActionNames, NEW northFix \in BOOLEAN
    PROVE  To(s, actionToIntent(a, northFix)) \in GameRequest
<1>1. ASSUME NEW mode \in {"step", "strafe"}, NEW dir \in {"N", "S", "W", "E", "F", "B", "L", "R"}
      PROVE  To(s, Move(mode, dir)) \in GameRequest
  BY MovesAreSendable DEF Dir, CompassDir, RelativeDir
<1>2. ASSUME NEW dir \in {"l", "r", "b"} PROVE To(s, Move("turn", dir)) \in GameRequest
  BY MovesAreSendable DEF TurnDir
<1>3. actionToIntent(a, northFix) \in
        {Move("turn", "l"), Move("turn", "r"), Move("turn", "b"), Move("step", "N"),
         Move("step", "S"), Move("step", "W"), Move("step", "E"), Move("step", "F"),
         Move("step", "B"), Move("strafe", "L"), Move("strafe", "R")}
  BY DEF actionToIntent, ActionNames
<1> QED BY <1>1, <1>2, <1>3

LEMMA TablesAreCommands ==
    /\ \A k \in DOMAIN NUMPAD_OP_COMMAND : NUMPAD_OP_COMMAND[k] \in SimpleCommand
    /\ \A layout : \A k \in DOMAIN Known(layout) : Known(layout)[k] \in SimpleCommand
    /\ \A layout : \A k \in DOMAIN Raw(layout) : Raw(layout)[k] \in Texts
    /\ \A k \in DOMAIN Digit : Digit[k] \in Nat
<1>1. \A k \in DOMAIN NUMPAD_OP_COMMAND : NUMPAD_OP_COMMAND[k] \in SimpleCommand
  BY DEF NUMPAD_OP_COMMAND, SimpleCommand
<1>2. \A k \in DOMAIN COMMAND_KNOWN_WASD : COMMAND_KNOWN_WASD[k] \in SimpleCommand
  BY DEF COMMAND_KNOWN_WASD, SimpleCommand
<1>3. \A k \in DOMAIN COMMAND_KNOWN_NUMPAD : COMMAND_KNOWN_NUMPAD[k] \in SimpleCommand
  BY DEF COMMAND_KNOWN_NUMPAD, SimpleCommand
<1>4. \A layout : \E known \in Layouts : Raw(layout) = Raw(known)
  BY DEF Raw, Layouts
<1>5. \A layout : \A k \in DOMAIN Raw(layout) : Raw(layout)[k] \in Texts
  BY <1>4, TextsAssumption
<1>6. \A k \in DOMAIN Digit : Digit[k] \in Nat
  BY DEF Digit
<1> QED BY <1>1, <1>2, <1>3, <1>5, <1>6 DEF Known

(* A key makes only what can be sent, in any field, over any list.         *)
LEMMA PlayIsSendable ==
    ASSUME NEW ev, NEW ctx, ctx.northFix \in BOOLEAN, ctx.altG \in Optional(Texts)
    PROVE  Sendable(PlayIntent(ev, ctx))
<1> DEFINE k == ev.key
<1>1. ASSUME NEW a \in ActionNames PROVE Sendable(actionToIntent(a, ctx.northFix))
  BY <1>1, ActionsAreSendable DEF Sendable
<1>2. ASSUME NEW name \in SimpleCommand PROVE Sendable(Command(name))
  BY <1>2, CommandsAreSendable DEF Sendable
<1>3. ASSUME NEW text \in Texts PROVE Sendable(Say(text))
  BY <1>3, CommandsAreSendable DEF Sendable
<1>4. Sendable(Pay) /\ Sendable(None)
  BY DEF Sendable, Pay, None
<1>5. CASE k = " "
  <2>1. PlayIntent(ev, ctx) = Command("hit")
    BY <1>5 DEF PlayIntent, CURSOR_TURN
  <2> QED BY <1>2, <2>1 DEF SimpleCommand
<1>6. CASE k # " " /\ k \in DOMAIN CURSOR_TURN
  <2>1. PlayIntent(ev, ctx) = actionToIntent(Cursor(ctx.northFix)[k], ctx.northFix)
    BY <1>6 DEF PlayIntent
  <2> QED BY <1>1, <1>6, <2>1, TablesMove
<1>7. CASE k # " " /\ k \notin DOMAIN CURSOR_TURN
  <2>1. PlayIntent(ev, ctx) =
          IF ev.shift /\ k = "g" /\ ctx.altG # Unassigned THEN Say(ctx.altG)
          ELSE IF ev.numpad /\ k \in DOMAIN NUMPAD_KEY_MOVE
            THEN actionToIntent(NUMPAD_KEY_MOVE[k], ctx.northFix)
          ELSE IF ev.numpad /\ k \in DOMAIN NUMPAD_OP_COMMAND
            THEN Command(NUMPAD_OP_COMMAND[k])
          ELSE IF k \in DOMAIN LetterMove(ctx.layout)
            THEN actionToIntent(LetterMove(ctx.layout)[k], ctx.northFix)
          ELSE IF k \in DOMAIN Known(ctx.layout) THEN Command(Known(ctx.layout)[k])
          ELSE IF k \in DOMAIN Raw(ctx.layout) THEN Say(Raw(ctx.layout)[k])
          ELSE IF k = "p" /\ ~ev.ctrl THEN Pay ELSE None
    BY <1>7 DEF PlayIntent
  <2>2. ctx.altG # Unassigned => ctx.altG \in Texts
    BY DEF Optional, Unassigned
  <2> HIDE DEF k
  <2> QED BY <1>1, <1>2, <1>3, <1>4, <2>1, <2>2, TablesMove, TablesAreCommands
<1> QED BY <1>5, <1>6, <1>7

LEMMA KeysAreSendable ==
    ASSUME GameTypeOK, NEW ev, NEW focused \in BOOLEAN, NEW q
    PROVE  Sendable(Intent(ev, focused, q))
<1> DEFINE ctx == Context
<1>1. /\ ctx.northFix \in BOOLEAN /\ ctx.altG \in Optional(Texts)
      /\ ctx.words \in [Slots -> Optional(Texts)]
  BY GameAssumption DEF GameTypeOK, Context, KeyContext
<1>2. Sendable(None) /\ Sendable(OpenHelp)
  BY DEF Sendable, None, OpenHelp
<1>3. Sendable(PlayIntent(ev, ctx))
  BY <1>1, PlayIsSendable
<1>4. Sendable(ListIntent(ev))
  <2>1. ListIntent(ev) \in {Pick(Digit[ev.key]), PickAs("cancel"), PickAs("all"), None}
        /\ (ListIntent(ev) = Pick(Digit[ev.key]) => Sendable(ListIntent(ev)))
    <3>1. ASSUME ev.key \in DOMAIN Digit PROVE ListIntent(ev) = Pick(Digit[ev.key]) /\ Digit[ev.key] \in Nat
      <4>1. DOMAIN Digit = {"1", "2", "3", "4", "5", "6", "7", "8", "9"}
        BY DEF Digit
      <4> QED BY <3>1, <4>1, TablesAreCommands DEF ListIntent
    <3>2. ASSUME ev.key \notin DOMAIN Digit
          PROVE  ListIntent(ev) \in {PickAs("cancel"), PickAs("all"), None}
      BY <3>2 DEF ListIntent
    <3>3. \A n \in Nat : Sendable(Pick(n))
      BY AnswersAreSendable DEF Sendable
    <3>4. Sendable(PickAs("cancel")) /\ Sendable(PickAs("all"))
      BY AnswersAreSendable DEF Sendable
    <3> QED BY <1>2, <3>1, <3>2, <3>3, <3>4
  <2>2. Sendable(PickAs("cancel")) /\ Sendable(PickAs("all"))
    BY AnswersAreSendable DEF Sendable
  <2> QED BY <1>2, <2>1, <2>2
<1>5. Sendable(resolveShiftDigit(ev, ctx))
  <2>1. \A text \in Texts : Sendable(Say(text)) /\ Sendable(Cast(text))
    BY CommandsAreSendable DEF Sendable
  <2>2. ASSUME NEW slot \in Slots PROVE Sendable(SlotIntent(slot, ctx))
    <3>1. ctx.words[slot] # Unassigned => ctx.words[slot] \in Texts
      BY <1>1 DEF Optional, Unassigned
    <3> HIDE DEF ctx
    <3> QED BY <1>2, <2>1, <3>1 DEF SlotIntent
  <2> HIDE DEF ctx
  <2> QED BY <1>2, <2>2 DEF resolveShiftDigit
<1>6. Intent(ev, focused, q) \in
        {None, OpenHelp, resolveShiftDigit(ev, ctx), ListIntent(ev), PlayIntent(ev, ctx)}
  BY DEF Intent, resolveKey
<1> QED BY <1>2, <1>3, <1>4, <1>5, <1>6

LEMMA DispatchedIsSendable ==
    ASSUME GameTypeOK, NEW intent, Sendable(intent)
    PROVE  dispatched(intent) \subseteq GameRequest
  BY DEF GameTypeOK, dispatched, Sendable

LEMMA FocusTyped ==
    ASSUME NEW f, NEW q, NEW p
    PROVE  /\ There(q, p) \subseteq Fields \cup {"page", "chat", "check"}
           /\ Refocused(f, q, p) \in Fields \cup {"page", "chat", "check"}
<1>1. There(q, p) \subseteq Fields \cup {"page", "chat", "check"}
  BY DEF There, Fields
<1> QED BY <1>1 DEF Refocused, Fields

LEMMA GameTypedInit == GameInit => GameTypeOK
<1> SUFFICES ASSUME GameInit PROVE GameTypeOK
  OBVIOUS
<1>1. NoList \in [active : BOOLEAN, lines : Seq(Optional(Nat))]
  BY DEF NoList
<1>2. asks \in [Sessions -> Question]
  BY <1>1 DEF GameInit, Question
<1>3. typed \in [Fields -> Texts]
  BY TextsAssumption DEF GameInit
<1>4. gameEvents \in 0..MaxGameEvents
  BY GameAssumption DEF GameInit
<1> QED BY <1>2, <1>3, <1>4 DEF GameInit, GameTypeOK, Optional

LEMMA ItemsAreNumbers == ASSUME GameTypeOK, NEW s \in Sessions PROVE Items(s) \subseteq Nat
<1>1. asks[s].list.lines \in Seq(Optional(Nat))
  BY DEF GameTypeOK, Question
<1>2. \A i \in DOMAIN asks[s].list.lines : i \in Nat /\ asks[s].list.lines[i] \in Optional(Nat)
  BY <1>1
<1> QED BY <1>2 DEF Items, Item, Optional

LEMMA PressTyped == ASSUME GameTypeOK, NEW ev \in Pressed, PressKey(ev) PROVE GameTypeOK'
<1> DEFINE intent == Intent(ev, isInputFocused(focus), asks[tab])
<1>1. /\ out' = dispatched(intent)
      /\ prompt' = (IF intent = Pay THEN tab ELSE prompt)
      /\ help' = HelpAfter(ev, intent)
      /\ typed' = (IF intent = Pay THEN [typed EXCEPT !["prompt"] = Empty] ELSE typed)
      /\ focus' = Refocused(focus, asks[tab], prompt')
      /\ byKey' = TRUE
      /\ UNCHANGED <<tab, world, checked, config, gameEvents>>
  BY DEF PressKey
<1>2. isInputFocused(focus) \in BOOLEAN
  BY DEF isInputFocused
<1>3. out' \subseteq GameRequest
  BY <1>1, <1>2, KeysAreSendable, DispatchedIsSendable
<1> HIDE DEF intent
<1>4. help' \in BOOLEAN /\ prompt' \in Optional(Sessions)
  BY <1>1 DEF HelpAfter, GameTypeOK, Optional
<1>5. typed' \in [Fields -> Texts]
  BY <1>1, TextsAssumption DEF GameTypeOK
<1>6. focus' \in Fields \cup {"page", "chat", "check"}
  BY <1>1, FocusTyped
<1> QED BY <1>1, <1>3, <1>4, <1>5, <1>6 DEF GameTypeOK, world

LEMMA EscapeTyped == ASSUME GameTypeOK, Escape PROVE GameTypeOK'
<1> DEFINE q == IF focus = "edit" THEN ClosedEdit(asks[tab]) ELSE asks[tab]
<1>1. /\ asks' = [asks EXCEPT ![tab] = q]
      /\ prompt' = (IF focus = "prompt" THEN Absent ELSE prompt)
      /\ typed' = (IF focus = "edit" THEN [typed EXCEPT !["edit"] = Empty] ELSE typed)
      /\ focus' = "page" /\ help' = FALSE /\ byKey' = TRUE
      /\ UNCHANGED <<tab, style, closed, checked, config, gameEvents>>
  BY DEF Escape
<1>2. PICK focused \in BOOLEAN :
         out' = dispatched(Intent(EscapeKey, focused, q)) \cup
                  (IF focus = "edit" THEN {To(tab, [type |-> "edit.cancel"])} ELSE {})
  BY DEF Escape
<1>3. q \in Question
  BY DEF GameTypeOK, Question, ClosedEdit
<1>4. dispatched(Intent(EscapeKey, focused, q)) \subseteq GameRequest
  BY KeysAreSendable, DispatchedIsSendable
<1>5. To(tab, [type |-> "edit.cancel"]) \in GameRequest
  BY AnswersAreSendable DEF GameTypeOK
<1> HIDE DEF q
<1>6. out' \subseteq GameRequest
  BY <1>2, <1>4, <1>5
<1>7. asks' \in [Sessions -> Question] /\ prompt' \in Optional(Sessions)
  BY <1>1, <1>3 DEF GameTypeOK, Optional
<1>8. typed' \in [Fields -> Texts]
  BY <1>1, TextsAssumption DEF GameTypeOK
<1> QED BY <1>1, <1>6, <1>7, <1>8 DEF GameTypeOK

LEMMA ClickTyped ==
    ASSUME GameTypeOK, NEW ms, ms \subseteq GameRequest, Clicked(ms), UNCHANGED fields,
           prompt' \in Optional(Sessions), help' \in BOOLEAN
    PROVE  GameTypeOK'
  BY DEF Clicked, GameTypeOK, world, fields

LEMMA ButtonsTyped ==
    ASSUME GameTypeOK,
           \/ CancelPrompt \/ PickItem \/ SendChecked \/ GameCommand \/ Attack \/ HelpButton
           \/ \E action \in {"forward", "strafeL", "turnR"} : Touch(action)
           \/ \E dx \in -1..1, dy \in -1..1 : ClickMap(dx, dy)
    PROVE  GameTypeOK'
<1>0. tab \in Sessions /\ prompt \in Optional(Sessions) /\ help \in BOOLEAN
  BY DEF GameTypeOK
<1>1. CASE CancelPrompt
  BY <1>0, <1>1, ClickTyped DEF CancelPrompt, Optional
<1>2. CASE PickItem
  <2>1. PICK r \in {Pick(n) : n \in Items(tab)} \cup {PickAs("all"), PickAs("cancel")} :
           Clicked({To(tab, r)})
    BY <1>2 DEF PickItem
  <2>2. \A n \in Items(tab) : To(tab, Pick(n)) \in GameRequest
    BY <1>0, ItemsAreNumbers, AnswersAreSendable
  <2>3. To(tab, r) \in GameRequest
    BY <1>0, <2>2, AnswersAreSendable
  <2> QED BY <1>0, <1>2, <2>1, <2>3, ClickTyped DEF PickItem, dialogs
<1>3. CASE SendChecked
  <2>1. To(tab, Say("numbers")) \in GameRequest
    BY <1>0, CommandsAreSendable, TextsAssumption
  <2> QED BY <1>0, <1>3, <2>1, ClickTyped DEF SendChecked, dialogs
<1>4. CASE GameCommand
  <2>1. \A word \in COMMANDS : To(tab, Say(word)) \in GameRequest
    BY <1>0, CommandsAreSendable, TextsAssumption
  <2> QED BY <1>0, <1>4, <2>1, ClickTyped DEF GameCommand, dialogs
<1>5. CASE Attack
  <2>1. To(tab, Command("hit")) \in GameRequest
    BY <1>0, CommandsAreSendable DEF SimpleCommand
  <2> QED BY <1>0, <1>5, <2>1, ClickTyped DEF Attack, dialogs
<1>6. CASE HelpButton
  BY <1>0, <1>6, ClickTyped DEF HelpButton
<1>7. ASSUME NEW action \in {"forward", "strafeL", "turnR"}, Touch(action) PROVE GameTypeOK'
  <2>1. PICK northFix \in BOOLEAN : northFix = (style[tab] \in {"solid", Absent})
    <3>1. CASE style[tab] \in {"solid", Absent}
      <4>1. TRUE = (style[tab] \in {"solid", Absent})
        BY <3>1
      <4> QED BY <4>1
    <3>2. CASE ~(style[tab] \in {"solid", Absent})
      <4>1. FALSE = (style[tab] \in {"solid", Absent})
        BY <3>2
      <4> QED BY <4>1, Zenon
    <3> QED BY <3>1, <3>2
  <2>2. Clicked({To(tab, actionToIntent(action, northFix))}) /\ UNCHANGED <<dialogs, fields>>
    BY <1>7, <2>1 DEF Touch
  <2>3. To(tab, actionToIntent(action, northFix)) \in GameRequest
    BY <1>0, ActionsAreSendable DEF ActionNames
  <2> QED BY <1>0, <2>2, <2>3, ClickTyped DEF dialogs
<1>8. ASSUME NEW dx \in -1..1, NEW dy \in -1..1, ClickMap(dx, dy) PROVE GameTypeOK'
  <2> DEFINE action == clickToMove(dx, dy)
             ms == IF action = "none" THEN {}
                   ELSE {To(tab, actionToIntent(action, style[tab] = "solid"))}
  <2>1. action \in {"none", "forward", "back", "strafeL", "strafeR"}
    <3>1. Size(dx) \in Int /\ Size(dy) \in Int
      BY DEF Size
    <3> QED BY <3>1 DEF clickToMove
  <2>2. Clicked(ms) /\ UNCHANGED <<dialogs, fields>>
    BY <1>8 DEF ClickMap
  <2> HIDE DEF action
  <2>3. action # "none" => To(tab, actionToIntent(action, style[tab] = "solid")) \in GameRequest
    BY <1>0, <2>1, ActionsAreSendable DEF ActionNames
  <2>4. ms \subseteq GameRequest
    BY <2>3
  <2> QED BY <1>0, <2>2, <2>4, ClickTyped DEF dialogs
<1> QED BY <1>1, <1>2, <1>3, <1>4, <1>5, <1>6, <1>7, <1>8

LEMMA FieldsTyped ==
    ASSUME GameTypeOK,
           \/ SubmitAmount \/ SubmitEdit \/ CancelEdit \/ CastSpell
           \/ \E f \in Fields : \E text \in Typing[f] : Type(f, text)
           \/ \E f \in Fields \cup {"page", "chat", "check"} : FocusOn(f)
           \/ \E n \in Items(tab) : CheckItem(n)
           \/ \E s \in Sessions : ShowTab(s)
    PROVE  GameTypeOK'
<1>0. tab \in Sessions /\ typed \in [Fields -> Texts]
  BY DEF GameTypeOK
<1>1. CASE SubmitAmount
  <2>1. prompt \in Sessions
    BY <1>1 DEF SubmitAmount, GameTypeOK, Optional
  <2>2. Digits[typed["prompt"]] \in Nat
    BY <1>1, GameAssumption DEF SubmitAmount
  <2>3. To(prompt, [type |-> "command", name |-> "pay", amount |-> Digits[typed["prompt"]]]) \in GameRequest
    BY <2>1, <2>2, CommandsAreSendable
  <2>4. out' \subseteq GameRequest
    BY <1>1, <2>3 DEF SubmitAmount, Asker
  <2> QED BY <1>1, <2>4 DEF SubmitAmount, GameTypeOK, world, fields, Optional
<1>2. CASE SubmitEdit \/ CancelEdit
  <2>1. PICK request \in {[type |-> "edit.submit", mode |-> "multi", lines |-> <<typed["edit"]>>],
                          [type |-> "edit.cancel"]} : EditDialog(request)
    BY <1>2 DEF SubmitEdit, CancelEdit
  <2>2. typed["edit"] \in Texts
    BY <1>0 DEF Fields
  <2>3. To(tab, request) \in GameRequest
    BY <1>0, <2>2, AnswersAreSendable
  <2>4. ClosedEdit(asks[tab]) \in Question
    BY DEF GameTypeOK, Question, ClosedEdit
  <2>5. asks' \in [Sessions -> Question] /\ out' \subseteq GameRequest
    BY <2>1, <2>3, <2>4 DEF EditDialog, GameTypeOK
  <2>6. typed' \in [Fields -> Texts]
    BY <2>1, TextsAssumption DEF EditDialog, GameTypeOK
  <2> QED BY <2>1, <2>5, <2>6 DEF EditDialog, GameTypeOK, dialogs
<1>3. CASE CastSpell
  <2>1. typed["spell"] \in Texts
    BY <1>0 DEF Fields
  <2>2. out' \subseteq GameRequest
    BY <1>0, <1>3, <2>1, CommandsAreSendable DEF CastSpell
  <2>3. typed' \in [Fields -> Texts]
    BY <1>0, <1>3, TextsAssumption DEF CastSpell
  <2> QED BY <1>3, <2>2, <2>3 DEF CastSpell, GameTypeOK, world, dialogs
<1>4. ASSUME NEW f \in Fields, NEW text \in Typing[f], Type(f, text) PROVE GameTypeOK'
  <2>1. text \in Texts
    BY <1>4, GameAssumption DEF Fields
  <2>2. typed' \in [Fields -> Texts]
    BY <1>0, <1>4, <2>1 DEF Type
  <2> QED BY <1>4, <2>2 DEF Type, GameTypeOK, world, dialogs
<1>5. ASSUME NEW f \in Fields \cup {"page", "chat", "check"}, FocusOn(f) PROVE GameTypeOK'
  BY <1>5 DEF FocusOn, GameTypeOK, world, dialogs, fields
<1>6. ASSUME NEW n \in Items(tab), CheckItem(n) PROVE GameTypeOK'
  <2>1. n \in Nat
    BY <1>0, <1>6, ItemsAreNumbers
  <2>2. checked' \subseteq Nat
    BY <1>6, <2>1 DEF CheckItem, GameTypeOK
  <2> QED BY <1>6, <2>2 DEF CheckItem, GameTypeOK, world, dialogs
<1>7. ASSUME NEW s \in Sessions, ShowTab(s) PROVE GameTypeOK'
  <2>1. focus' \in Fields \cup {"page", "chat", "check"}
    BY <1>7, FocusTyped DEF ShowTab
  <2> QED BY <1>7, <2>1 DEF ShowTab, GameTypeOK, world, dialogs
<1> QED BY <1>1, <1>2, <1>3, <1>4, <1>5, <1>6, <1>7

LEMMA AskedTyped ==
    ASSUME GameTypeOK, NEW s \in Sessions, NEW q \in Question, Arrives, Asked(s, q),
           gameEvents' \in 0..MaxGameEvents, checked' \subseteq Nat
    PROVE  GameTypeOK'
<1>1. focus' \in Fields \cup {"page", "chat", "check"}
  BY FocusTyped DEF Asked, GameTypeOK
<1>2. asks' \in [Sessions -> Question]
  BY DEF Asked, GameTypeOK
<1> QED BY <1>1, <1>2 DEF Arrives, Asked, GameTypeOK, dialogs

LEMMA GameStepTyped == ASSUME GameTypeOK, GameStep PROVE GameTypeOK'
<1>0. asks \in [Sessions -> Question] /\ checked \subseteq Nat
  BY DEF GameTypeOK
<1>1. ASSUME Arrives PROVE gameEvents' \in 0..MaxGameEvents
  BY <1>1, GameAssumption DEF Arrives, GameTypeOK
<1>2. ASSUME NEW s \in Sessions, GameMode(s) PROVE GameTypeOK'
  <2>1. [asks[s] EXCEPT !.magic = ~@] \in Question
    BY <1>0 DEF Question
  <2> QED BY <1>0, <1>1, <1>2, <2>1, AskedTyped DEF GameMode
<1>3. ASSUME NEW s \in Sessions, GameCloses(s) PROVE GameTypeOK'
  BY <1>1, <1>3 DEF GameCloses, Arrives, GameTypeOK, dialogs
<1>4. ASSUME NEW s \in Sessions, NEW on \in BOOLEAN, GameList(s, on) PROVE GameTypeOK'
  <2> DEFINE list == IF on THEN [active |-> TRUE, lines |-> <<Absent, 5>>] ELSE NoList
  <2>1. <<Absent, 5>> \in Seq(Optional(Nat))
    BY DEF Optional
  <2>2. list \in [active : BOOLEAN, lines : Seq(Optional(Nat))]
    BY <2>1 DEF NoList
  <2> HIDE DEF list
  <2>3. [asks[s] EXCEPT !.list = list] \in Question
    BY <1>0, <2>2 DEF Question
  <2>4. /\ Arrives /\ Asked(s, [asks[s] EXCEPT !.list = list])
        /\ checked' = (IF s = tab THEN {} ELSE checked)
    BY <1>4 DEF GameList, list
  <2> QED BY <1>0, <1>1, <2>3, <2>4, AskedTyped
<1>5. ASSUME NEW s \in Sessions, NEW m \in {"single", "multi", "end"}, GameEdit(s, m)
      PROVE  GameTypeOK'
  <2>1. [asks[s] EXCEPT !.edit = IF m = "end" THEN "none" ELSE m] \in Question
    BY <1>0 DEF Question
  <2> QED BY <1>0, <1>1, <1>5, <2>1, AskedTyped DEF GameEdit
<1>6. ASSUME NEW s \in Sessions, NEW v \in {"turn", "solid"}, GameMap(s, v) PROVE GameTypeOK'
  <2>1. style' \in [Sessions -> Optional({"turn", "solid"})]
    BY <1>6 DEF GameMap, GameTypeOK, Optional
  <2> QED BY <1>1, <1>6, <2>1 DEF GameMap, Arrives, GameTypeOK, dialogs
<1> QED BY <1>2, <1>3, <1>4, <1>5, <1>6 DEF GameStep

LEMMA GameTypedStep == GameTypeOK /\ [GameNext]_gameVars => GameTypeOK'
<1> SUFFICES ASSUME GameTypeOK, [GameNext]_gameVars PROVE GameTypeOK'
  OBVIOUS
<1>1. CASE UserStep
  BY <1>1, PressTyped, EscapeTyped, ButtonsTyped, FieldsTyped DEF UserStep
<1>2. CASE GameStep
  BY <1>2, GameStepTyped
<1>3. CASE Transmitted
  BY <1>3 DEF Transmitted, GameTypeOK, world, dialogs, fields
<1>4. CASE UNCHANGED gameVars
  BY <1>4 DEF gameVars, GameTypeOK
<1> QED BY <1>1, <1>2, <1>3, <1>4 DEF GameNext

(* The types of the game screen hold always; above all, whatever it sends  *)
(* is one of the protocol's requests, to one of the sessions.              *)
THEOREM GameTypes == GameSpec => []GameTypeOK
<1>1. GameInit => GameTypeOK
  BY GameTypedInit
<1>2. GameTypeOK /\ [GameNext]_gameVars => GameTypeOK'
  BY GameTypedStep
<1> QED BY <1>1, <1>2, PTL DEF GameSpec
-----------------------------------------------------------------------------
(* The settings. *)
IsSeq(q) == \E S : q \in Seq(S)

LEMMA TailOfSeq ==
    ASSUME NEW q, IsSeq(q), q # <<>>
    PROVE  /\ IsSeq(Tail(q))
           /\ 1 \in DOMAIN q /\ Head(q) = q[1]
           /\ \A i \in DOMAIN Tail(q) : i + 1 \in DOMAIN q /\ Tail(q)[i] = q[i + 1]
           /\ \A i \in DOMAIN q : i # 1 => i - 1 \in DOMAIN Tail(q) /\ Tail(q)[i - 1] = q[i]
           /\ DOMAIN q \subseteq Nat /\ DOMAIN Tail(q) \subseteq Nat
<1>1. PICK S : q \in Seq(S)
  BY DEF IsSeq
<1>2. Tail(q) \in Seq(S) /\ Len(q) \in Nat \ {0} /\ Len(Tail(q)) = Len(q) - 1
  BY <1>1
<1>3. DOMAIN q = 1..Len(q) /\ DOMAIN Tail(q) = 1..Len(Tail(q))
  BY <1>1, <1>2
<1>4. Head(q) = q[1] /\ \A i \in 1..Len(Tail(q)) : Tail(q)[i] = q[i + 1]
  BY <1>1, <1>2
<1> QED BY <1>2, <1>3, <1>4 DEF IsSeq

LEMMA AppendToSeq ==
    ASSUME NEW q, IsSeq(q), NEW m
    PROVE  /\ IsSeq(Append(q, m))
           /\ Len(q) + 1 \in DOMAIN Append(q, m) /\ Append(q, m)[Len(q) + 1] = m
           /\ \A i \in DOMAIN q : i \in DOMAIN Append(q, m) /\ Append(q, m)[i] = q[i]
                                    /\ i < Len(q) + 1
           /\ \A i \in DOMAIN Append(q, m) : i = Len(q) + 1 \/ i \in DOMAIN q
<1>1. PICK S : q \in Seq(S)
  BY DEF IsSeq
<1>2. q \in Seq(S \cup {m})
  BY <1>1
<1>3. Append(q, m) \in Seq(S \cup {m}) /\ Len(Append(q, m)) = Len(q) + 1 /\ Len(q) \in Nat
  BY <1>2
<1>4. DOMAIN q = 1..Len(q) /\ DOMAIN Append(q, m) = 1..Len(q) + 1
  BY <1>2, <1>3
<1>5. /\ Append(q, m)[Len(q) + 1] = m
      /\ \A i \in 1..Len(q) : Append(q, m)[i] = q[i]
  BY <1>2, <1>3
<1> QED BY <1>3, <1>4, <1>5 DEF IsSeq

Joined(r, p, q) ==
    /\ IsSeq(r)
    /\ \A i \in DOMAIN p : i \in DOMAIN r /\ r[i] = p[i]
    /\ \A i \in DOMAIN q : \E j \in DOMAIN r : r[j] = q[i]
    /\ \A j \in DOMAIN r : \/ j \in DOMAIN p /\ r[j] = p[j]
                         \/ \E i \in DOMAIN q : r[j] = q[i]
LEMMA ConcatOfSeqs ==
    ASSUME NEW p, NEW q, IsSeq(p), IsSeq(q)
    PROVE  Joined(p \o q, p, q)
<1> DEFINE r == p \o q
<1>1. PICK S, T : p \in Seq(S) /\ q \in Seq(T)
  BY DEF IsSeq
<1>2. p \in Seq(S \cup T) /\ q \in Seq(S \cup T)
  BY <1>1
<1>3. r \in Seq(S \cup T) /\ Len(r) = Len(p) + Len(q) /\ Len(p) \in Nat /\ Len(q) \in Nat
  BY <1>2
<1>4. DOMAIN p = 1..Len(p) /\ DOMAIN q = 1..Len(q) /\ DOMAIN r = 1..Len(p) + Len(q)
  BY <1>2, <1>3
<1>5. \A i \in 1..Len(p) : r[i] = p[i]
  BY <1>2
<1>6. \A i \in 1..Len(q) : r[Len(p) + i] = q[i]
  BY <1>2
<1>7. \A i \in DOMAIN q : Len(p) + i \in DOMAIN r /\ r[Len(p) + i] = q[i]
  BY <1>3, <1>4, <1>6
<1>8. \A j \in DOMAIN r :
        j \in DOMAIN p \/ (j - Len(p) \in DOMAIN q /\ j = Len(p) + (j - Len(p)))
  BY <1>3, <1>4
<1>9. \A i \in DOMAIN q : \E j \in DOMAIN r : r[j] = q[i]
  BY <1>7
<1>10. ASSUME NEW j \in DOMAIN r
       PROVE  \/ j \in DOMAIN p /\ r[j] = p[j]
              \/ \E i \in DOMAIN q : r[j] = q[i]
  <2>1. CASE j \in DOMAIN p
    BY <1>4, <1>5, <2>1
  <2>2. CASE j - Len(p) \in DOMAIN q /\ j = Len(p) + (j - Len(p))
    BY <1>7, <2>2
  <2> QED BY <1>8, <2>1, <2>2
<1>11. IsSeq(r) /\ \A i \in DOMAIN p : i \in DOMAIN r /\ r[i] = p[i]
  BY <1>3, <1>4, <1>5 DEF IsSeq
<1> HIDE DEF r
<1>12. Joined(r, p, q)
  BY <1>9, <1>10, <1>11 DEF Joined
<1> QED BY <1>12 DEF r
-----------------------------------------------------------------------------
(* What queues are about. *)
LEMMA AboutConcat ==
    ASSUME NEW p, NEW q, IsSeq(p), IsSeq(q)
    PROVE  About(p \o q) = About(p) \cup About(q)
<1> DEFINE r == p \o q
<1>0. Joined(r, p, q) BY ConcatOfSeqs
<1> HIDE DEF r
<1>1. /\ \A i \in DOMAIN p : i \in DOMAIN r /\ r[i] = p[i]
      /\ \A i \in DOMAIN q : \E j \in DOMAIN r : r[j] = q[i]
      /\ \A j \in DOMAIN r : \/ j \in DOMAIN p /\ r[j] = p[j]
                            \/ \E i \in DOMAIN q : r[j] = q[i]
  BY <1>0 DEF Joined
<1>2. ASSUME NEW s \in About(r) PROVE s \in About(p) \cup About(q)
  <2>1. PICK j \in DOMAIN r : "scope" \in DOMAIN r[j] /\ s = r[j].scope
    BY <1>2 DEF About
  <2>2. CASE r[j] = p[j] /\ j \in DOMAIN p
    BY <2>1, <2>2 DEF About
  <2>3. ASSUME NEW i \in DOMAIN q, r[j] = q[i] PROVE s \in About(q)
    BY <2>1, <2>3 DEF About
  <2> QED BY <1>1, <2>2, <2>3
<1>3. ASSUME NEW s \in About(p) PROVE s \in About(r)
  BY <1>1, <1>3 DEF About
<1>4. ASSUME NEW s \in About(q) PROVE s \in About(r)
  <2>1. PICK i \in DOMAIN q : "scope" \in DOMAIN q[i] /\ s = q[i].scope
    BY <1>4 DEF About
  <2>2. PICK j \in DOMAIN r : r[j] = q[i]
    BY <1>1, <2>1
  <2> QED BY <2>1, <2>2 DEF About
<1> QED BY <1>2, <1>3, <1>4 DEF r

LEMMA AboutAppend ==
    ASSUME NEW q, IsSeq(q), NEW m, "scope" \in DOMAIN m
    PROVE  About(Append(q, m)) = About(q) \cup {m.scope}
<1>1. ASSUME NEW s \in About(Append(q, m)) PROVE s \in About(q) \cup {m.scope}
  <2>1. PICK j \in DOMAIN Append(q, m) :
          "scope" \in DOMAIN Append(q, m)[j] /\ s = Append(q, m)[j].scope
    BY <1>1 DEF About
  <2> QED BY <2>1, AppendToSeq DEF About
<1>2. ASSUME NEW s \in About(q) PROVE s \in About(Append(q, m))
  <2>1. PICK j \in DOMAIN q : "scope" \in DOMAIN q[j] /\ s = q[j].scope
    BY <1>2 DEF About
  <2> QED BY <2>1, AppendToSeq DEF About
<1>3. m.scope \in About(Append(q, m))
  BY AppendToSeq DEF About
<1> QED BY <1>1, <1>2, <1>3

LEMMA AboutTail ==
    ASSUME NEW q, IsSeq(q), q # <<>>, NEW s \in About(q)
    PROVE  \/ s \in About(Tail(q))
           \/ "scope" \in DOMAIN Head(q) /\ s = Head(q).scope
<1>1. PICK i \in DOMAIN q : "scope" \in DOMAIN q[i] /\ s = q[i].scope
  BY DEF About
<1>2. CASE i = 1
  BY <1>1, <1>2, TailOfSeq
<1>3. CASE i # 1
  <2>1. i - 1 \in DOMAIN Tail(q) /\ Tail(q)[i - 1] = q[i]
    BY <1>1, <1>3, TailOfSeq
  <2> QED BY <1>1, <2>1 DEF About
<1> QED BY <1>2, <1>3
-----------------------------------------------------------------------------
IsRequest(m) ==
    \/ m.type = "view.set" /\ "scope" \notin DOMAIN m
    \/ m.type \in {"settings.get", "settings.set"} /\ "scope" \in DOMAIN m /\ m.scope \in Scopes
IsAnswer(m) ==
    "scope" \in DOMAIN m /\ m.scope \in Scopes /\ m.ok \in BOOLEAN

ChannelInv ==
    /\ byScope = [scope \in Scopes |-> byScope[scope]]
    /\ saved = [scope \in Scopes |-> saved[scope]]
    /\ IsSeq(toGateway) /\ IsSeq(waiting) /\ IsSeq(fromGateway)
    /\ \A i \in DOMAIN toGateway : IsRequest(toGateway[i])
    /\ \A i \in DOMAIN waiting : IsRequest(waiting[i])
    /\ \A i \in DOMAIN fromGateway : IsAnswer(fromGateway[i])
    /\ ~online => toGateway = <<>>
    /\ online => waiting = <<>>

(* The newest good answer about a scope tells what is stored.              *)
Tells(q, i, s) == i \in DOMAIN q /\ q[i].scope = s /\ q[i].ok
Newest(q, i, s) == Tells(q, i, s) /\ \A j \in DOMAIN q : i < j => ~Tells(q, j, s)
AnswersAreNews ==
    \A s \in Scopes : \A i \in DOMAIN fromGateway :
        Newest(fromGateway, i, s) => fromGateway[i].value = saved[s]

(* Without anything under way about it a scope is the same on both sides.  *)
UnderWay(s) == s \in About(toGateway) \cup About(waiting) \cup About(fromGateway)
ScopesSettle ==
    \A s \in Scopes \ (lost \cup refused) :
        UnderWay(s) \/ Shown(s, byScope[s]) = Shown(s, saved[s])

SyncInv == ChannelInv /\ AnswersAreNews /\ ScopesSettle

LEMMA EmptyIsSeq == IsSeq(<<>>) /\ About(<<>>) = {}
<1>1. <<>> \in Seq({}) /\ DOMAIN <<>> = {}
  OBVIOUS
<1> QED BY <1>1 DEF IsSeq, About

LEMMA OneIsSeq == \A m : IsSeq(<<m>>) /\ DOMAIN <<m>> = {1} /\ <<m>>[1] = m
<1>1. ASSUME NEW m PROVE IsSeq(<<m>>) /\ DOMAIN <<m>> = {1} /\ <<m>>[1] = m
  <2>1. <<m>> \in Seq({m}) /\ DOMAIN <<m>> = {1} /\ <<m>>[1] = m
    OBVIOUS
  <2>2. IsSeq(<<m>>)
    BY <2>1, Zenon DEF IsSeq
  <2> QED BY <2>1, <2>2
<1> QED BY <1>1

(* A queue of requests. *)
Requests(q) == IsSeq(q) /\ \A i \in DOMAIN q : IsRequest(q[i])

LEMMA RequestsConcat ==
    ASSUME NEW p, NEW q, Requests(p), Requests(q)
    PROVE  Requests(p \o q)
<1> DEFINE r == p \o q
<1>0. Joined(r, p, q) BY ConcatOfSeqs DEF Requests
<1> HIDE DEF r
<1>1. /\ IsSeq(r)
      /\ \A j \in DOMAIN r : \/ j \in DOMAIN p /\ r[j] = p[j]
                            \/ \E i \in DOMAIN q : r[j] = q[i]
  BY <1>0 DEF Joined
<1>2. Requests(r)
  BY <1>1 DEF Requests
<1> QED BY <1>2 DEF r

LEMMA GetsAsked ==
    Requests(Gets) /\ About(Gets) = Scopes
<1>1. ASSUME NEW s \in SettingsScope
      PROVE  Requests(GetIfKept(s)) /\ About(GetIfKept(s)) = Scopes \cap {s}
  <2>1. CASE s \in Scopes
    <3>1. IsRequest(Get(s)) /\ Get(s).scope = s /\ "scope" \in DOMAIN Get(s)
      BY <2>1 DEF IsRequest, Get
    <3>2. Requests(<<Get(s)>>) /\ About(<<Get(s)>>) = {s}
      BY <3>1, OneIsSeq DEF Requests, About
    <3> QED BY <2>1, <3>2 DEF GetIfKept
  <2>2. CASE s \notin Scopes
    BY <2>2, EmptyIsSeq DEF GetIfKept, Requests
  <2> QED BY <2>1, <2>2
<1> DEFINE a == GetIfKept("display")
           b == GetIfKept("keybind")
           c == GetIfKept("notify")
           d == GetIfKept("intervals")
<1>2. /\ Requests(a) /\ About(a) = Scopes \cap {"display"}
      /\ Requests(b) /\ About(b) = Scopes \cap {"keybind"}
      /\ Requests(c) /\ About(c) = Scopes \cap {"notify"}
      /\ Requests(d) /\ About(d) = Scopes \cap {"intervals"}
  BY <1>1 DEF SettingsScope
<1>3. Gets = a \o b \o c \o d
  BY DEF Gets
<1> HIDE DEF a, b, c, d
<1>4. Requests(a \o b) /\ About(a \o b) = About(a) \cup About(b)
  BY <1>2, RequestsConcat, AboutConcat DEF Requests
<1>5. Requests(a \o b \o c) /\ About(a \o b \o c) = About(a \o b) \cup About(c)
  BY <1>2, <1>4, RequestsConcat, AboutConcat DEF Requests
<1>6. Requests(a \o b \o c \o d) /\ About(a \o b \o c \o d) = About(a \o b \o c) \cup About(d)
  BY <1>2, <1>5, RequestsConcat, AboutConcat DEF Requests
<1> QED BY <1>2, <1>3, <1>4, <1>5, <1>6, SettingsAssumption DEF SettingsScope
-----------------------------------------------------------------------------
LEMMA SyncInit == SettingsInit => SyncInv
<1> SUFFICES ASSUME SettingsInit PROVE SyncInv
  OBVIOUS
<1> USE DEF SettingsInit
<1>1. fromGateway = <<>> /\ DOMAIN fromGateway = {}
  OBVIOUS
<1>2. Requests(<<>>) /\ About(<<>>) = {}
  BY EmptyIsSeq DEF Requests
<1>3. Requests(toGateway) /\ Requests(waiting) /\ About(toGateway) \cup About(waiting) = Scopes
  BY <1>2, GetsAsked
<1>4. /\ byScope = [scope \in Scopes |-> byScope[scope]]
      /\ saved = [scope \in Scopes |-> saved[scope]]
  OBVIOUS
<1>5. ChannelInv
  BY <1>1, <1>2, <1>3, <1>4 DEF ChannelInv, Requests
<1>6. AnswersAreNews
  BY <1>1 DEF AnswersAreNews
<1>7. ScopesSettle
  BY <1>3 DEF ScopesSettle, UnderWay
<1> QED BY <1>5, <1>6, <1>7 DEF SyncInv

(* What the dialog sends comes behind what waits. *)
LEMMA PostKeeps ==
    ASSUME ChannelInv, NEW ms, Requests(ms), Post(ms), UNCHANGED online
    PROVE  /\ Requests(toGateway') /\ Requests(waiting')
           /\ (~online => toGateway' = <<>>) /\ (online => waiting' = <<>>)
           /\ About(toGateway') \cup About(waiting')
                = About(toGateway) \cup About(waiting) \cup About(ms)
<1>1. Requests(toGateway) /\ Requests(waiting)
  BY DEF ChannelInv, Requests
<1>2. CASE online
  <2>1. toGateway' = toGateway \o ms /\ waiting' = waiting
    BY <1>2 DEF Post
  <2>2. Requests(toGateway \o ms) /\ About(toGateway \o ms) = About(toGateway) \cup About(ms)
    BY <1>1, RequestsConcat, AboutConcat DEF Requests
  <2> QED BY <1>1, <1>2, <2>1, <2>2 DEF ChannelInv
<1>3. CASE ~online
  <2>1. waiting' = waiting \o ms /\ toGateway' = toGateway
    BY <1>3 DEF Post
  <2>2. Requests(waiting \o ms) /\ About(waiting \o ms) = About(waiting) \cup About(ms)
    BY <1>1, RequestsConcat, AboutConcat DEF Requests
  <2> QED BY <1>1, <1>3, <2>1, <2>2 DEF ChannelInv
<1> QED BY <1>2, <1>3

(* A step that only adds to the requests keeps what has been settled.      *)
LEMMA OpenStep ==
    ASSUME SyncInv, OpenSettings
    PROVE  SyncInv'
<1>1. Post(Gets) /\ UNCHANGED <<online, byScope, saved, fromGateway, lost, refused>>
  BY DEF OpenSettings
<1>2. /\ Requests(toGateway') /\ Requests(waiting')
      /\ (~online => toGateway' = <<>>) /\ (online => waiting' = <<>>)
      /\ About(toGateway') \cup About(waiting') = About(toGateway) \cup About(waiting) \cup About(Gets)
  BY <1>1, GetsAsked, PostKeeps DEF SyncInv
<1>3. ChannelInv'
  BY <1>1, <1>2 DEF SyncInv, ChannelInv, Requests
<1>4. AnswersAreNews'
  BY <1>1 DEF SyncInv, AnswersAreNews, Newest, Tells
<1>5. \A s : UnderWay(s) => UnderWay(s)'
  BY <1>1, <1>2 DEF UnderWay
<1>6. ScopesSettle'
  BY <1>1, <1>5 DEF SyncInv, ScopesSettle
<1> QED BY <1>3, <1>4, <1>6 DEF SyncInv

LEMMA EditStep ==
    ASSUME SyncInv, NEW scope \in Scopes, NEW f, NEW v, Edit(scope, f, v)
    PROVE  SyncInv'
<1> DEFINE value == [Shown(scope, byScope[scope]) EXCEPT ![f] = v]
           also == IF f = "mapStyle" THEN <<ViewSet(v)>> ELSE <<>>
           ms == <<Set(scope, value)>> \o also
<1>1. /\ byScope' = [byScope EXCEPT ![scope] = value]
      /\ Post(ms)
      /\ UNCHANGED <<saved, fromGateway, online, lost, refused>>
  BY DEF Edit
<1> HIDE DEF value
<1>2. IsRequest(Set(scope, value)) /\ Set(scope, value).scope = scope /\ "scope" \in DOMAIN Set(scope, value)
  BY DEF IsRequest, Set
<1>3. Requests(<<Set(scope, value)>>) /\ scope \in About(<<Set(scope, value)>>)
  BY <1>2, OneIsSeq DEF Requests, About
<1>4. IsRequest(ViewSet(v))
  BY DEF IsRequest, ViewSet
<1>5. Requests(also)
  BY <1>4, OneIsSeq, EmptyIsSeq DEF Requests
<1> HIDE DEF also
<1>6. Requests(ms) /\ scope \in About(ms)
  BY <1>3, <1>5, RequestsConcat, AboutConcat DEF Requests
<1> HIDE DEF ms
<1>7. /\ Requests(toGateway') /\ Requests(waiting')
      /\ (~online => toGateway' = <<>>) /\ (online => waiting' = <<>>)
      /\ About(toGateway') \cup About(waiting') = About(toGateway) \cup About(waiting) \cup About(ms)
  BY <1>1, <1>6, PostKeeps DEF SyncInv
<1>8. ChannelInv'
  BY <1>1, <1>7 DEF SyncInv, ChannelInv, Requests
<1>9. AnswersAreNews'
  BY <1>1 DEF SyncInv, AnswersAreNews, Newest, Tells
<1>10. UnderWay(scope)' /\ \A s : UnderWay(s) => UnderWay(s)'
  BY <1>1, <1>6, <1>7 DEF UnderWay
<1>11. \A s \in Scopes : s # scope => byScope'[s] = byScope[s]
  BY <1>1 DEF SyncInv, ChannelInv
<1>12. ScopesSettle'
  BY <1>1, <1>10, <1>11 DEF SyncInv, ScopesSettle
<1> QED BY <1>8, <1>9, <1>12 DEF SyncInv

LEMMA ReceiveStep ==
    ASSUME SyncInv, ReceiveSettings
    PROVE  SyncInv'
<1> DEFINE q == fromGateway
           t == Tail(fromGateway)
           m == Head(fromGateway)
<1>1. /\ q # <<>> /\ fromGateway' = t
      /\ byScope' = (IF m.ok THEN [byScope EXCEPT ![m.scope] = m.value] ELSE byScope)
      /\ lost' = (IF m.ok THEN lost \ {m.scope} ELSE lost)
      /\ refused' = (IF m.ok THEN refused \ {m.scope} ELSE refused \cup {m.scope})
      /\ UNCHANGED <<saved, toGateway, waiting, online>>
  BY DEF ReceiveSettings, Applies
<1>2. /\ IsSeq(q) /\ IsSeq(t) /\ 1 \in DOMAIN q /\ m = q[1]
      /\ \A i \in DOMAIN t : i + 1 \in DOMAIN q /\ t[i] = q[i + 1]
      /\ \A i \in DOMAIN q : i # 1 => i - 1 \in DOMAIN t /\ t[i - 1] = q[i]
      /\ DOMAIN q \subseteq Nat /\ DOMAIN t \subseteq Nat
  BY <1>1, TailOfSeq DEF SyncInv, ChannelInv
<1>3. \A s \in About(q) : s \in About(t) \/ s = m.scope
  BY <1>1, <1>2, AboutTail
<1>4. \A i \in DOMAIN q : IsAnswer(q[i])
  BY DEF SyncInv, ChannelInv
<1> HIDE DEF q, t, m
<1>5. IsAnswer(m) /\ \A i \in DOMAIN t : IsAnswer(t[i])
  BY <1>2, <1>4
<1>6. ChannelInv'
  <2>1. byScope' = [scope \in Scopes |-> byScope'[scope]]
    BY <1>1 DEF SyncInv, ChannelInv
  <2> QED BY <1>1, <1>2, <1>5, <2>1 DEF SyncInv, ChannelInv
<1>7. AnswersAreNews'
  <2>1. ASSUME NEW s \in Scopes, NEW i \in DOMAIN t, Newest(t, i, s)
        PROVE  t[i].value = saved[s]
    <3>1. Tells(q, i + 1, s) /\ t[i] = q[i + 1]
      BY <1>2, <2>1 DEF Newest, Tells
    <3>2. ASSUME NEW j \in DOMAIN q, i + 1 < j PROVE ~Tells(q, j, s)
      <4>1. j # 1 /\ i < j - 1
        BY <1>2, <3>2
      <4>2. j - 1 \in DOMAIN t /\ t[j - 1] = q[j]
        BY <1>2, <4>1
      <4> QED BY <2>1, <4>1, <4>2 DEF Newest, Tells
    <3> QED BY <3>1, <3>2 DEF SyncInv, AnswersAreNews, Newest, Tells, q
  <2> QED BY <1>1, <2>1 DEF AnswersAreNews, Newest, Tells
<1>8. ScopesSettle'
  <2>1. SUFFICES ASSUME NEW s \in Scopes, s \notin lost', s \notin refused', ~UnderWay(s)'
                 PROVE  byScope'[s] = saved[s] \/ Shown(s, byScope'[s]) = Shown(s, saved[s])
    BY <1>1 DEF ScopesSettle
  <2>2. s \notin About(t) /\ s \notin About(toGateway) /\ s \notin About(waiting)
    BY <1>1, <2>1 DEF UnderWay
  <2>3. CASE s = m.scope
    <3>1. m.ok
      BY <1>1, <2>1, <2>3
    <3>2. byScope'[s] = m.value
      BY <1>1, <2>3, <3>1 DEF SyncInv, ChannelInv
    <3>3. ASSUME NEW j \in DOMAIN q, 1 < j, Tells(q, j, s) PROVE FALSE
      <4>1. j - 1 \in DOMAIN t /\ t[j - 1] = q[j]
        BY <1>2, <3>3
      <4>2. t[j - 1].scope = s /\ "scope" \in DOMAIN t[j - 1]
        BY <1>5, <3>3, <4>1 DEF Tells, IsAnswer
      <4>3. s \in About(t)
        BY <4>1, <4>2 DEF About
      <4> QED BY <2>2, <4>3
    <3>4. Newest(q, 1, s)
      BY <1>2, <2>3, <3>1, <3>3 DEF Newest, Tells
    <3> QED BY <1>2, <3>2, <3>4 DEF SyncInv, AnswersAreNews, q
  <2>4. CASE s # m.scope
    <3>1. byScope'[s] = byScope[s] /\ s \notin lost /\ s \notin refused
      BY <1>1, <2>1, <2>4 DEF SyncInv, ChannelInv
    <3>2. ~UnderWay(s)
      BY <1>3, <2>2, <2>4 DEF UnderWay, q
    <3> QED BY <3>1, <3>2 DEF SyncInv, ScopesSettle
  <2> QED BY <2>3, <2>4
<1> QED BY <1>6, <1>7, <1>8 DEF SyncInv

(* Each request about a scope is answered, by what is stored then.         *)
LEMMA GatewayStep ==
    ASSUME SyncInv, GatewaySettings
    PROVE  SyncInv'
<1> DEFINE q == toGateway
           t == Tail(toGateway)
           m == Head(toGateway)
<1>1. q # <<>> /\ toGateway' = t /\ UNCHANGED <<byScope, waiting, online, lost, refused>>
  BY DEF GatewaySettings
<1>2. /\ IsSeq(q) /\ IsSeq(t) /\ 1 \in DOMAIN q /\ m = q[1]
      /\ \A i \in DOMAIN t : i + 1 \in DOMAIN q /\ t[i] = q[i + 1]
  BY <1>1, TailOfSeq DEF SyncInv, ChannelInv
<1>3. IsRequest(m) /\ \A i \in DOMAIN t : IsRequest(t[i])
  BY <1>2 DEF SyncInv, ChannelInv
<1>4. \A s \in About(q) : s \in About(t) \/ ("scope" \in DOMAIN m /\ s = m.scope)
  BY <1>1, <1>2, AboutTail
<1>5. ~online => t = <<>>
  BY <1>1 DEF SyncInv, ChannelInv
<1>6. CASE m.type = "view.set"
  <2>1. fromGateway' = fromGateway /\ saved' = saved
    BY <1>6 DEF GatewaySettings
  <2>2. "scope" \notin DOMAIN m
    BY <1>3, <1>6 DEF IsRequest
  <2> HIDE DEF t, m
  <2>3. ChannelInv'
    BY <1>1, <1>2, <1>3, <1>5, <2>1 DEF SyncInv, ChannelInv
  <2>4. AnswersAreNews'
    BY <2>1 DEF SyncInv, AnswersAreNews, Newest, Tells
  <2>5. \A s : UnderWay(s) => UnderWay(s)'
    BY <1>1, <1>4, <2>1, <2>2 DEF UnderWay
  <2>6. ScopesSettle'
    BY <1>1, <2>1, <2>5 DEF SyncInv, ScopesSettle
  <2> QED BY <2>3, <2>4, <2>6 DEF SyncInv
<1>7. CASE m.type \in {"settings.get", "settings.set"}
  <2>1. "scope" \in DOMAIN m /\ m.scope \in Scopes
    BY <1>3, <1>7 DEF IsRequest
  <2>2. PICK a : /\ fromGateway' = Append(fromGateway, a)
                 /\ IsAnswer(a) /\ a.scope = m.scope
                 /\ a.ok => saved'[m.scope] = a.value
                 /\ \A s \in Scopes : s # m.scope \/ ~a.ok => saved'[s] = saved[s]
                 /\ saved' = [scope \in Scopes |-> saved'[scope]]
    <3>1. CASE m.type = "settings.get"
      <4> DEFINE a == [scope |-> m.scope, ok |-> TRUE, value |-> saved[m.scope]]
      <4>1. saved' = saved /\ fromGateway' = Append(fromGateway, a)
        BY <3>1 DEF GatewaySettings
      <4>2. IsAnswer(a) /\ a.scope = m.scope /\ a.ok /\ a.value = saved[m.scope]
        BY <2>1 DEF IsAnswer
      <4> HIDE DEF a
      <4> QED BY <4>1, <4>2 DEF SyncInv, ChannelInv
    <3>2. CASE m.type = "settings.set" /\ validate_setting(m.scope, m.value)
      <4> DEFINE a == [scope |-> m.scope, ok |-> TRUE, value |-> m.value]
      <4>1. saved' = [saved EXCEPT ![m.scope] = m.value] /\ fromGateway' = Append(fromGateway, a)
        BY <3>2 DEF GatewaySettings
      <4>2. IsAnswer(a) /\ a.scope = m.scope /\ a.ok /\ a.value = m.value
        BY <2>1 DEF IsAnswer
      <4> HIDE DEF a
      <4>3. saved'[m.scope] = m.value /\ saved' = [scope \in Scopes |-> saved'[scope]]
        BY <2>1, <4>1 DEF SyncInv, ChannelInv
      <4>4. \A s \in Scopes : s # m.scope => saved'[s] = saved[s]
        BY <4>1 DEF SyncInv, ChannelInv
      <4> QED BY <4>1, <4>2, <4>3, <4>4
    <3>3. CASE m.type = "settings.set" /\ ~validate_setting(m.scope, m.value)
      <4> DEFINE a == [scope |-> m.scope, ok |-> FALSE, value |-> m.value]
      <4>1. saved' = saved /\ fromGateway' = Append(fromGateway, a)
        BY <3>3 DEF GatewaySettings
      <4>2. IsAnswer(a) /\ a.scope = m.scope /\ ~a.ok
        BY <2>1 DEF IsAnswer
      <4> HIDE DEF a
      <4> QED BY <4>1, <4>2 DEF SyncInv, ChannelInv
    <3> QED BY <1>7, <3>1, <3>2, <3>3
  <2> HIDE DEF t, m
  <2> DEFINE last == Len(fromGateway) + 1
  <2>3. /\ IsSeq(fromGateway')
        /\ last \in DOMAIN fromGateway' /\ fromGateway'[last] = a
        /\ \A i \in DOMAIN fromGateway : i \in DOMAIN fromGateway' /\ fromGateway'[i] = fromGateway[i]
                                         /\ i < last
        /\ \A i \in DOMAIN fromGateway' : i = last \/ i \in DOMAIN fromGateway
    BY <2>2, AppendToSeq DEF SyncInv, ChannelInv
  <2>4. About(fromGateway') = About(fromGateway) \cup {m.scope}
    BY <2>2, AboutAppend DEF SyncInv, ChannelInv, IsAnswer
  <2> HIDE DEF last
  <2>5. ChannelInv'
    BY <1>1, <1>2, <1>3, <1>5, <2>2, <2>3 DEF SyncInv, ChannelInv
  <2>6. AnswersAreNews'
    <3>1. SUFFICES ASSUME NEW s \in Scopes, NEW i \in DOMAIN fromGateway', Newest(fromGateway', i, s)
                   PROVE  fromGateway'[i].value = saved'[s]
      BY DEF AnswersAreNews
    <3>2. CASE i = last
      BY <2>2, <2>3, <3>1, <3>2 DEF Newest, Tells
    <3>3. CASE i # last
      <4>1. i \in DOMAIN fromGateway /\ fromGateway'[i] = fromGateway[i] /\ i < last
        BY <2>3, <3>3
      <4>2. Newest(fromGateway, i, s)
        BY <2>3, <3>1, <4>1 DEF Newest, Tells
      <4>3. s # m.scope \/ ~a.ok
        BY <2>2, <2>3, <3>1, <4>1 DEF Newest, Tells
      <4> QED BY <2>2, <4>1, <4>2, <4>3 DEF SyncInv, AnswersAreNews
    <3> QED BY <3>2, <3>3
  <2>7. \A s : UnderWay(s) => UnderWay(s)'
    BY <1>1, <1>4, <2>4 DEF UnderWay
  <2>8. \A s \in Scopes : UnderWay(s)' \/ saved'[s] = saved[s]
    BY <2>2, <2>4 DEF UnderWay
  <2>9. ScopesSettle'
    BY <1>1, <2>7, <2>8 DEF SyncInv, ScopesSettle
  <2> QED BY <2>5, <2>6, <2>9 DEF SyncInv
<1> QED BY <1>3, <1>6, <1>7 DEF IsRequest

LEMMA LossStep ==
    ASSUME SyncInv, LoseConnection \/ Reconnect
    PROVE  SyncInv'
<1> USE EmptyIsSeq
<1>0. DOMAIN <<>> = {} OBVIOUS
<1>1. CASE LoseConnection
  <2>1. /\ toGateway' = <<>> /\ fromGateway' = <<>> /\ online' = FALSE
        /\ lost' = lost \cup About(toGateway) \cup About(fromGateway)
        /\ UNCHANGED <<byScope, saved, waiting, refused>>
    BY <1>1 DEF LoseConnection
  <2>2. ChannelInv'
    BY <1>0, <2>1 DEF SyncInv, ChannelInv
  <2>3. AnswersAreNews'
    BY <1>0, <2>1 DEF AnswersAreNews
  <2>4. ScopesSettle'
    BY <2>1 DEF SyncInv, ScopesSettle, UnderWay
  <2> QED BY <2>2, <2>3, <2>4 DEF SyncInv
<1>2. CASE Reconnect
  <2>1. /\ toGateway' = waiting /\ waiting' = <<>> /\ online' = TRUE /\ ~online
        /\ UNCHANGED <<byScope, saved, fromGateway, lost, refused>>
    BY <1>2 DEF Reconnect
  <2>2. ChannelInv'
    BY <1>0, <2>1 DEF SyncInv, ChannelInv
  <2>3. AnswersAreNews'
    BY <2>1 DEF SyncInv, AnswersAreNews, Newest, Tells
  <2>4. toGateway = <<>>
    BY <2>1 DEF SyncInv, ChannelInv
  <2>5. \A s : UnderWay(s) => UnderWay(s)'
    BY <2>1, <2>4 DEF UnderWay
  <2>6. ScopesSettle'
    BY <2>1, <2>5 DEF SyncInv, ScopesSettle
  <2> QED BY <2>2, <2>3, <2>6 DEF SyncInv
<1> QED BY <1>1, <1>2

LEMMA SyncStep == SyncInv /\ [SettingsNext]_settingsVars => SyncInv'
<1> SUFFICES ASSUME SyncInv, [SettingsNext]_settingsVars PROVE SyncInv'
  OBVIOUS
<1>1. ASSUME NEW e \in Edits, NEW v, Edit(e[1], e[2], v) PROVE SyncInv'
  BY <1>1, EditStep, EditsAssumption
<1>2. CASE CloseSettings \/ UNCHANGED settingsVars
  <2>1. UNCHANGED <<byScope, saved, toGateway, fromGateway, waiting, online, lost, refused>>
    BY <1>2 DEF CloseSettings, channel, settingsVars
  <2>2. ChannelInv'
    BY <2>1 DEF SyncInv, ChannelInv
  <2>3. AnswersAreNews'
    BY <2>1 DEF SyncInv, AnswersAreNews, Newest, Tells
  <2>4. ScopesSettle'
    BY <2>1 DEF SyncInv, ScopesSettle, UnderWay
  <2> QED BY <2>2, <2>3, <2>4 DEF SyncInv
<1> QED BY <1>1, <1>2, OpenStep, ReceiveStep, GatewayStep, LossStep DEF SettingsNext
-----------------------------------------------------------------------------
(* When nothing is under way each scope that no loss and no refusal struck *)
(* is the same in the browser and in the gateway.                          *)
THEOREM SettingsAgree == SettingsSpec => []SettingsConverge
<1>1. SyncInv => SettingsConverge
  <2>1. SUFFICES ASSUME SyncInv, online, toGateway = <<>>, fromGateway = <<>>,
                        NEW s \in Scopes \ (lost \cup refused)
                 PROVE  Shown(s, byScope[s]) = Shown(s, saved[s])
    BY DEF SettingsConverge
  <2>2. waiting = <<>>
    BY <2>1 DEF SyncInv, ChannelInv
  <2>3. ~UnderWay(s)
    BY <2>1, <2>2, EmptyIsSeq DEF UnderWay
  <2> QED BY <2>1, <2>3 DEF SyncInv, ScopesSettle
<1> QED BY <1>1, SyncInit, SyncStep, PTL DEF SettingsSpec
-----------------------------------------------------------------------------
(* The types.  What the two stores hold, and every message that carries a  *)
(* value, has each field of the dialog, with one of its choices.           *)
Filled(scope, value) ==
    /\ DOMAIN Choices[scope] \subseteq DOMAIN value
    /\ \A f \in DOMAIN Choices[scope] : value[f] \in Choices[scope][f]
Whole(scope, value) == value # Absent => Filled(scope, value)
Lawful(m) ==
    /\ m.type = "settings.set" => Whole(m.scope, m.value)
    /\ m.type = "view.set" => m \in ViewSetRequest
Holds(m) == m.ok => Whole(m.scope, m.value)

SettingsTyped ==
    /\ \A scope \in Scopes : Whole(scope, byScope[scope]) /\ Whole(scope, saved[scope])
    /\ \A i \in DOMAIN toGateway : Lawful(toGateway[i])
    /\ \A i \in DOMAIN waiting : Lawful(waiting[i])
    /\ \A i \in DOMAIN fromGateway : Holds(fromGateway[i])
    /\ online \in BOOLEAN /\ open \in BOOLEAN
    /\ lost \in SUBSET Scopes /\ refused \in SUBSET Scopes
    /\ settingsCount \in [edits : 0..MaxEdits, opens : 0..MaxOpens, losses : 0..MaxLosses]

LEMMA DefaultsAreFilled == \A scope \in SettingsScope : Filled(scope, DEFAULT[scope])
<1>1. Filled("keybind", DEFAULT["keybind"])
  <2>1. /\ DEFAULT["keybind"].magic \in [1..7 -> Word]
        /\ DEFAULT["keybind"].shortcuts \in [8..10 -> Word]
    BY DEF DEFAULT, Word
  <2> QED BY <2>1 DEF Filled, DEFAULT, Choices, KeybindChoices, Word
<1>2. Filled("display", DEFAULT["display"])
  <2>1. DEFAULT["display"] = [mapSize |-> 57, mapStyle |-> "solid", eagleEye |-> FALSE,
                              cellScale |-> 1, fontScale |-> 10, theme |-> "dark"]
    BY DEF DEFAULT
  <2>2. Choices["display"] = DisplayChoices
    BY DEF Choices
  <2>3. /\ 57 \in DisplayChoices.mapSize /\ "solid" \in DisplayChoices.mapStyle
        /\ FALSE \in DisplayChoices.eagleEye /\ 1 \in DisplayChoices.cellScale
        /\ 10 \in DisplayChoices.fontScale /\ "dark" \in DisplayChoices.theme
    BY DEF DisplayChoices
  <2>4. DOMAIN DisplayChoices = {"mapSize", "mapStyle", "eagleEye", "cellScale", "fontScale", "theme"}
    BY DEF DisplayChoices
  <2> HIDE DEF DisplayChoices
  <2>5. DOMAIN DEFAULT["display"] = DOMAIN DisplayChoices
    BY <2>1, <2>4
  <2>6. \A f \in DOMAIN DisplayChoices : DEFAULT["display"][f] \in DisplayChoices[f]
    <3>1. DEFAULT["display"].mapSize \in DisplayChoices.mapSize
      BY <2>1, <2>3
    <3>2. DEFAULT["display"].mapStyle \in DisplayChoices.mapStyle
      BY <2>1, <2>3
    <3>3. DEFAULT["display"].eagleEye \in DisplayChoices.eagleEye
      BY DEF DEFAULT, DisplayChoices
    <3>4. DEFAULT["display"].cellScale \in DisplayChoices.cellScale
      BY <2>1, <2>3
    <3>5. DEFAULT["display"].fontScale \in DisplayChoices.fontScale
      BY <2>1, <2>3
    <3>6. DEFAULT["display"].theme \in DisplayChoices.theme
      BY <2>1, <2>3
    <3> QED BY <2>4, <3>1, <3>2, <3>3, <3>4, <3>5, <3>6
  <2> QED BY <2>2, <2>5, <2>6 DEF Filled
<1>3. Filled("notify", DEFAULT["notify"])
  <2>1. DEFAULT["notify"] = [enabled |-> TRUE, privOnly |-> FALSE, loud |-> TRUE, sound |-> FALSE,
                             titleFlash |-> TRUE, regexInclude |-> Absent, regexExclude |-> Absent]
    BY DEF DEFAULT
  <2>2. Choices["notify"] = NotifyChoices
    BY DEF Choices
  <2>3. /\ TRUE \in NotifyChoices.enabled /\ FALSE \in NotifyChoices.privOnly
        /\ TRUE \in NotifyChoices.loud /\ FALSE \in NotifyChoices.sound
        /\ TRUE \in NotifyChoices.titleFlash
        /\ Absent \in NotifyChoices.regexInclude /\ Absent \in NotifyChoices.regexExclude
    BY DEF NotifyChoices, Word
  <2>4. DOMAIN NotifyChoices =
          {"enabled", "privOnly", "loud", "sound", "titleFlash", "regexInclude", "regexExclude"}
    BY DEF NotifyChoices
  <2> HIDE DEF NotifyChoices
  <2>5. DOMAIN DEFAULT["notify"] = DOMAIN NotifyChoices
    BY <2>1, <2>4
  <2>6. \A f \in DOMAIN NotifyChoices : DEFAULT["notify"][f] \in NotifyChoices[f]
    <3>1. DEFAULT["notify"].enabled \in NotifyChoices.enabled
      BY DEF DEFAULT, NotifyChoices
    <3>2. DEFAULT["notify"].privOnly \in NotifyChoices.privOnly
      BY DEF DEFAULT, NotifyChoices
    <3>3. DEFAULT["notify"].loud \in NotifyChoices.loud
      BY DEF DEFAULT, NotifyChoices
    <3>4. DEFAULT["notify"].sound \in NotifyChoices.sound
      BY DEF DEFAULT, NotifyChoices
    <3>5. DEFAULT["notify"].titleFlash \in NotifyChoices.titleFlash
      BY DEF DEFAULT, NotifyChoices
    <3>6. DEFAULT["notify"].regexInclude \in NotifyChoices.regexInclude
      BY <2>1, <2>3
    <3>7. DEFAULT["notify"].regexExclude \in NotifyChoices.regexExclude
      BY <2>1, <2>3
    <3> QED BY <2>4, <3>1, <3>2, <3>3, <3>4, <3>5, <3>6, <3>7
  <2> QED BY <2>2, <2>5, <2>6 DEF Filled
<1>4. Filled("intervals", DEFAULT["intervals"])
  BY DEF Filled, DEFAULT, Choices, IntervalChoices
<1> QED BY <1>1, <1>2, <1>3, <1>4 DEF SettingsScope

LEMMA WholeIsValue == ASSUME NEW scope, NEW value, Whole(scope, value) PROVE IsValue(scope, value)
  BY DEF Whole, Filled, IsValue

(* What the dialog builds from what it shows has every field again.        *)
LEMMA EditedIsWhole ==
    ASSUME NEW scope \in SettingsScope, NEW old, Whole(scope, old), NEW f, NEW v \in Choices[scope][f]
    PROVE  Whole(scope, [Shown(scope, old) EXCEPT ![f] = v])
<1> DEFINE shown == Shown(scope, old)
<1>1. Filled(scope, shown)
  BY DefaultsAreFilled DEF Shown, Whole
<1> HIDE DEF shown
<1>2. \A g \in DOMAIN Choices[scope] : [shown EXCEPT ![f] = v][g] \in Choices[scope][g]
  BY <1>1 DEF Filled
<1>3. DOMAIN Choices[scope] \subseteq DOMAIN [shown EXCEPT ![f] = v]
  BY <1>1 DEF Filled
<1>4. Whole(scope, [shown EXCEPT ![f] = v])
  BY <1>2, <1>3 DEF Whole, Filled
<1> QED BY <1>4 DEF shown

LEMMA LawfulConcat ==
    ASSUME NEW p, NEW q, Requests(p), Requests(q),
           \A i \in DOMAIN p : Lawful(p[i]), \A i \in DOMAIN q : Lawful(q[i])
    PROVE  \A i \in DOMAIN (p \o q) : Lawful((p \o q)[i])
<1> DEFINE r == p \o q
<1>1. Joined(r, p, q) BY ConcatOfSeqs DEF Requests
<1> HIDE DEF r
<1>2. \A j \in DOMAIN r : Lawful(r[j])
  BY <1>1 DEF Joined
<1> QED BY <1>2 DEF r

LEMMA LawfulPost ==
    ASSUME ChannelInv, SettingsTyped, NEW ms, Requests(ms), \A i \in DOMAIN ms : Lawful(ms[i]), Post(ms)
    PROVE  /\ \A i \in DOMAIN toGateway' : Lawful(toGateway'[i])
           /\ \A i \in DOMAIN waiting' : Lawful(waiting'[i])
<1>1. Requests(toGateway) /\ Requests(waiting)
  BY DEF ChannelInv, Requests
<1>2. /\ \A i \in DOMAIN (toGateway \o ms) : Lawful((toGateway \o ms)[i])
      /\ \A i \in DOMAIN (waiting \o ms) : Lawful((waiting \o ms)[i])
  BY <1>1, LawfulConcat DEF SettingsTyped
<1> QED BY <1>2 DEF Post, SettingsTyped

LEMMA GetsAreLawful == \A i \in DOMAIN Gets : Lawful(Gets[i])
<1> DEFINE L(q) == Requests(q) /\ \A i \in DOMAIN q : Lawful(q[i])
<1>1. ASSUME NEW s \in SettingsScope PROVE L(GetIfKept(s))
  <2>1. CASE s \in Scopes
    <3>1. Lawful(Get(s)) /\ IsRequest(Get(s))
      BY <2>1 DEF Lawful, Get, IsRequest
    <3> QED BY <2>1, <3>1, OneIsSeq DEF GetIfKept, Requests
  <2>2. CASE s \notin Scopes
    BY <2>2, EmptyIsSeq DEF GetIfKept, Requests
  <2> QED BY <2>1, <2>2
<1>2. ASSUME NEW p, NEW q, L(p), L(q) PROVE L(p \o q)
  BY <1>2, LawfulConcat, RequestsConcat
<1> DEFINE a == GetIfKept("display")
           b == GetIfKept("keybind")
           c == GetIfKept("notify")
           d == GetIfKept("intervals")
<1>3. L(a) /\ L(b) /\ L(c) /\ L(d)
  BY <1>1 DEF SettingsScope
<1>4. Gets = ((a \o b) \o c) \o d
  BY DEF Gets
<1> HIDE DEF a, b, c, d, L
<1>5. L(a \o b)
  BY <1>2, <1>3
<1>6. L((a \o b) \o c)
  BY <1>2, <1>3, <1>5
<1>7. L(((a \o b) \o c) \o d)
  BY <1>2, <1>3, <1>6
<1>8. L(Gets)
  BY <1>4, <1>7
<1> QED BY <1>8 DEF L
-----------------------------------------------------------------------------
LEMMA SettingsTypedInit == SettingsInit => SettingsTyped
<1> SUFFICES ASSUME SettingsInit PROVE SettingsTyped
  OBVIOUS
<1> USE DEF SettingsInit
<1>1. Scopes \subseteq SettingsScope
  BY SettingsAssumption
<1>2. \A scope \in Scopes : Whole(scope, byScope[scope])
  BY DEF Whole
<1>3. ASSUME NEW scope \in Scopes PROVE Whole(scope, saved[scope])
  <2>1. CASE saved[scope] = Absent
    BY <2>1 DEF Whole
  <2>2. CASE saved[scope] # Absent
    <3>1. scope = "display" /\ saved[scope] = [DEFAULT["display"] EXCEPT !.theme = "light"]
      BY <2>2
    <3>2. Shown("display", Absent) = DEFAULT["display"] /\ Whole("display", Absent)
      BY DEF Shown, Whole
    <3>3. "light" \in Choices["display"]["theme"]
      BY DEF Choices, DisplayChoices
    <3>4. Whole("display", [Shown("display", Absent) EXCEPT !["theme"] = "light"])
      BY <3>2, <3>3, EditedIsWhole DEF SettingsScope
    <3> QED BY <3>1, <3>2, <3>4
  <2> QED BY <2>1, <2>2
<1>4. DOMAIN <<>> = {}
  OBVIOUS
<1>5. /\ \A i \in DOMAIN toGateway : Lawful(toGateway[i])
      /\ \A i \in DOMAIN waiting : Lawful(waiting[i])
  BY <1>4, GetsAreLawful
<1>6. \A i \in DOMAIN fromGateway : Holds(fromGateway[i])
  BY <1>4
<1>7. settingsCount \in [edits : 0..MaxEdits, opens : 0..MaxOpens, losses : 0..MaxLosses]
  BY SettingsAssumption
<1> QED BY <1>2, <1>3, <1>5, <1>6, <1>7 DEF SettingsTyped

LEMMA TypedEdit ==
    ASSUME ChannelInv, SettingsTyped, NEW e \in Edits, NEW v \in Choices[e[1]][e[2]],
           Edit(e[1], e[2], v)
    PROVE  SettingsTyped'
<1> DEFINE scope == e[1]
           f == e[2]
           value == [Shown(scope, byScope[scope]) EXCEPT ![f] = v]
           also == IF f = "mapStyle" THEN <<ViewSet(v)>> ELSE <<>>
           ms == <<Set(scope, value)>> \o also
<1>1. scope \in Scopes /\ scope \in SettingsScope /\ f \in DOMAIN Choices[scope]
  BY EditsAssumption, SettingsAssumption
<1>2. Whole(scope, value)
  BY <1>1, EditedIsWhole DEF SettingsTyped
<1>3. /\ byScope' = [byScope EXCEPT ![scope] = value]
      /\ Post(ms)
      /\ settingsCount.edits < MaxEdits
      /\ settingsCount' = [settingsCount EXCEPT !.edits = @ + 1]
      /\ UNCHANGED <<saved, fromGateway, online, open, lost, refused>>
  BY DEF Edit
<1>4. f = "mapStyle" => v \in {"turn", "solid"}
  <2>1. ASSUME "mapStyle" \in DOMAIN Choices[scope] PROVE scope = "display"
    BY <1>1, <2>1 DEF Choices, SettingsScope, KeybindChoices, NotifyChoices, IntervalChoices
  <2>2. Choices["display"]["mapStyle"] = {"turn", "solid"}
    BY DEF Choices, DisplayChoices
  <2> QED BY <1>1, <2>1, <2>2
<1> HIDE DEF scope, f, value
<1>5. IsRequest(Set(scope, value)) /\ Lawful(Set(scope, value))
  BY <1>1, <1>2 DEF IsRequest, Lawful, Set
<1>6. Requests(<<Set(scope, value)>>) /\ \A i \in DOMAIN <<Set(scope, value)>> : Lawful(<<Set(scope, value)>>[i])
  BY <1>5, OneIsSeq DEF Requests
<1>7. IsRequest(ViewSet(v)) /\ (v \in {"turn", "solid"} => Lawful(ViewSet(v)))
  BY DEF IsRequest, Lawful, ViewSet, ViewSetRequest, Optional
<1>8. Requests(also) /\ \A i \in DOMAIN also : Lawful(also[i])
  BY <1>4, <1>7, OneIsSeq, EmptyIsSeq DEF Requests
<1> HIDE DEF also
<1>9. Requests(ms) /\ \A i \in DOMAIN ms : Lawful(ms[i])
  BY <1>6, <1>8, RequestsConcat, LawfulConcat
<1> HIDE DEF ms
<1>10. /\ \A i \in DOMAIN toGateway' : Lawful(toGateway'[i])
       /\ \A i \in DOMAIN waiting' : Lawful(waiting'[i])
  BY <1>3, <1>9, LawfulPost
<1>11. \A s \in Scopes : Whole(s, byScope'[s])
  BY <1>2, <1>3 DEF SettingsTyped, ChannelInv
<1>12. settingsCount' \in [edits : 0..MaxEdits, opens : 0..MaxOpens, losses : 0..MaxLosses]
  BY <1>3, SettingsAssumption DEF SettingsTyped
<1> QED BY <1>3, <1>10, <1>11, <1>12 DEF SettingsTyped

LEMMA TypedReceive ==
    ASSUME ChannelInv, SettingsTyped, ReceiveSettings
    PROVE  SettingsTyped'
<1> DEFINE q == fromGateway
           m == Head(q)
<1>1. /\ q # <<>> /\ fromGateway' = Tail(q)
      /\ byScope' = (IF m.ok THEN [byScope EXCEPT ![m.scope] = m.value] ELSE byScope)
      /\ lost' = (IF m.ok THEN lost \ {m.scope} ELSE lost)
      /\ refused' = (IF m.ok THEN refused \ {m.scope} ELSE refused \cup {m.scope})
      /\ UNCHANGED <<saved, toGateway, waiting, online, open, settingsCount>>
  BY DEF ReceiveSettings, Applies
<1>2. /\ 1 \in DOMAIN q /\ m = q[1]
      /\ \A i \in DOMAIN Tail(q) : i + 1 \in DOMAIN q /\ Tail(q)[i] = q[i + 1]
  BY <1>1, TailOfSeq DEF ChannelInv
<1>3. Holds(m) /\ m.scope \in Scopes
  BY <1>2 DEF SettingsTyped, ChannelInv, IsAnswer
<1>4. \A i \in DOMAIN fromGateway' : Holds(fromGateway'[i])
  BY <1>1, <1>2 DEF SettingsTyped
<1> HIDE DEF m
<1>5. \A s \in Scopes : Whole(s, byScope'[s])
  BY <1>1, <1>3 DEF SettingsTyped, ChannelInv, Holds
<1> QED BY <1>1, <1>3, <1>4, <1>5 DEF SettingsTyped

LEMMA TypedGateway ==
    ASSUME ChannelInv, SettingsTyped, GatewaySettings
    PROVE  SettingsTyped'
<1> DEFINE q == toGateway
           m == Head(q)
           valid == m.type = "settings.set" /\ validate_setting(m.scope, m.value)
           reply(ok, value) == [scope |-> m.scope, ok |-> ok, value |-> value]
<1>1. /\ q # <<>> /\ toGateway' = Tail(q)
      /\ saved' = (IF valid THEN [saved EXCEPT ![m.scope] = m.value] ELSE saved)
      /\ UNCHANGED <<byScope, waiting, online, open, lost, refused, settingsCount>>
  BY DEF GatewaySettings
<1>2. fromGateway' =
        CASE m.type = "settings.get" -> Append(fromGateway, reply(TRUE, saved[m.scope]))
          [] m.type = "settings.set" -> Append(fromGateway, reply(valid, m.value))
          [] m.type = "view.set" -> fromGateway
  BY DEF GatewaySettings
<1>3. /\ 1 \in DOMAIN q /\ m = q[1]
      /\ \A i \in DOMAIN Tail(q) : i + 1 \in DOMAIN q /\ Tail(q)[i] = q[i + 1]
  BY <1>1, TailOfSeq DEF ChannelInv
<1>4. /\ IsRequest(m) /\ (m.type = "settings.set" => Whole(m.scope, m.value))
      /\ m.type # "view.set" => m.scope \in Scopes
  BY <1>3 DEF SettingsTyped, ChannelInv, IsRequest, Lawful
<1>5. \A i \in DOMAIN toGateway' : Lawful(toGateway'[i])
  BY <1>1, <1>3 DEF SettingsTyped
<1> HIDE DEF m
<1>6. \A s \in Scopes : Whole(s, saved'[s])
  BY <1>1, <1>4 DEF SettingsTyped, ChannelInv
<1>7. /\ Holds(reply(TRUE, saved[m.scope])) \/ m.type # "settings.get"
      /\ Holds(reply(valid, m.value)) \/ m.type # "settings.set"
  BY <1>4 DEF Holds, SettingsTyped, IsRequest
<1>8. ASSUME NEW r, Holds(r) PROVE \A i \in DOMAIN Append(fromGateway, r) : Holds(Append(fromGateway, r)[i])
  BY <1>8, AppendToSeq DEF ChannelInv, SettingsTyped
<1> HIDE DEF reply, valid
<1>9. \A i \in DOMAIN fromGateway' : Holds(fromGateway'[i])
  <2>1. CASE m.type = "settings.get"
    BY <1>2, <1>7, <1>8, <2>1
  <2>2. CASE m.type = "settings.set"
    BY <1>2, <1>7, <1>8, <2>2
  <2>3. CASE m.type = "view.set"
    BY <1>2, <2>3 DEF SettingsTyped
  <2> QED BY <1>4, <2>1, <2>2, <2>3 DEF IsRequest
<1> QED BY <1>1, <1>5, <1>6, <1>9 DEF SettingsTyped

LEMMA TypedLoss ==
    ASSUME ChannelInv, SettingsTyped, LoseConnection \/ Reconnect
    PROVE  SettingsTyped'
<1>1. About(toGateway) \cup About(fromGateway) \subseteq Scopes
  BY DEF About, ChannelInv, IsRequest, IsAnswer
<1>2. DOMAIN <<>> = {}
  OBVIOUS
<1>3. CASE LoseConnection
  <2>1. settingsCount' \in [edits : 0..MaxEdits, opens : 0..MaxOpens, losses : 0..MaxLosses]
    BY <1>3, SettingsAssumption DEF SettingsTyped, LoseConnection
  <2> QED BY <1>1, <1>2, <1>3, <2>1 DEF SettingsTyped, LoseConnection
<1>4. CASE Reconnect
  BY <1>2, <1>4 DEF SettingsTyped, Reconnect
<1> QED BY <1>3, <1>4

LEMMA SettingsTypedStep == SyncInv /\ SettingsTyped /\ [SettingsNext]_settingsVars => SettingsTyped'
<1> SUFFICES ASSUME SyncInv, SettingsTyped, [SettingsNext]_settingsVars PROVE SettingsTyped'
  OBVIOUS
<1>1. ChannelInv
  BY DEF SyncInv
<1>2. CASE OpenSettings
  <2>1. /\ Post(Gets) /\ UNCHANGED <<byScope, saved, fromGateway, online, lost, refused>>
        /\ open' \in BOOLEAN
    BY <1>2 DEF OpenSettings
  <2>2. settingsCount' \in [edits : 0..MaxEdits, opens : 0..MaxOpens, losses : 0..MaxLosses]
    BY <1>2, SettingsAssumption DEF SettingsTyped, OpenSettings
  <2>3. /\ \A i \in DOMAIN toGateway' : Lawful(toGateway'[i])
        /\ \A i \in DOMAIN waiting' : Lawful(waiting'[i])
    BY <1>1, <2>1, GetsAsked, GetsAreLawful, LawfulPost
  <2> QED BY <2>1, <2>2, <2>3 DEF SettingsTyped
<1>3. CASE CloseSettings \/ UNCHANGED settingsVars
  BY <1>3 DEF CloseSettings, channel, settingsVars, SettingsTyped
<1>4. ASSUME NEW e \in Edits, NEW v \in Choices[e[1]][e[2]], Edit(e[1], e[2], v) PROVE SettingsTyped'
  BY <1>1, <1>4, TypedEdit
<1> QED BY <1>1, <1>2, <1>3, <1>4, TypedReceive, TypedGateway, TypedLoss DEF SettingsNext

LEMMA SettingsTypedImplies == SyncInv /\ SettingsTyped => SettingsTypeOK
  BY WholeIsValue DEF SyncInv, ChannelInv, SettingsTyped, SettingsTypeOK, IsRequest, Lawful

(* Both stores hold values of the dialog's fields, and what is sent is a   *)
(* message of the settings or of the view.                                 *)
THEOREM SettingsTypes == SettingsSpec => []SettingsTypeOK
<1>1. SettingsInit => SyncInv /\ SettingsTyped
  BY SyncInit, SettingsTypedInit
<1>2. SyncInv /\ SettingsTyped /\ [SettingsNext]_settingsVars => (SyncInv /\ SettingsTyped)'
  BY SyncStep, SettingsTypedStep
<1> QED BY <1>1, <1>2, SettingsTypedImplies, PTL DEF SettingsSpec
=============================================================================
