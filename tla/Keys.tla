-------------------------------- MODULE Keys --------------------------------
(***************************************************************************)
(* What a key means (frontend/src/lib/keyHandler.ts): the tables of the    *)
(* two layouts, resolveKey, which turns a key event into an intent for the *)
(* game, and describeKeys, which lists the keys in the help.               *)
(*                                                                         *)
(* An event has the key in lower case, the slot of a digit key (F1 to F10, *)
(* as the settings call them), the numeric pad, Shift and Ctrl (which      *)
(* stands for Alt and Meta too).                                           *)
(***************************************************************************)
EXTENDS Protocol, TLC

Unassigned == Absent    \* a slot or Shift+G without a word

Layouts == {"wasd", "numpad"}

WASD_MOVE ==
    [w |-> "forward", s |-> "back", a |-> "strafeL", d |-> "strafeR",
     q |-> "turnL", e |-> "turnR", x |-> "turnB"]
NUMPAD_LETTER_MOVE ==
    [k \in {"7", "8", "9", "u", "i", "o", "k"} |->
        CASE k = "7" -> "turnL" [] k = "8" -> "forward" [] k = "9" -> "turnR"
          [] k = "u" -> "strafeL" [] k = "i" -> "turnB" [] k = "o" -> "strafeR"
          [] k = "k" -> "back"]
NUMPAD_KEY_MOVE ==
    [k \in {"2", "4", "5", "6", "7", "8", "9"} |->
        CASE k = "7" -> "turnL" [] k = "8" -> "forward" [] k = "9" -> "turnR"
          [] k = "4" -> "strafeL" [] k = "5" -> "turnB" [] k = "6" -> "strafeR"
          [] k = "2" -> "back"]
NUMPAD_OP_COMMAND ==
    [k \in {"+", "-", "*", "/"} |->
        CASE k = "+" -> "get" [] k = "-" -> "put" [] k = "*" -> "use" [] k = "/" -> "equip"]
CURSOR_TURN ==
    [ArrowUp |-> "forward", ArrowDown |-> "back", ArrowLeft |-> "turnL",
     ArrowRight |-> "turnR"]
CURSOR_NF ==
    [ArrowUp |-> "absN", ArrowDown |-> "absS", ArrowLeft |-> "absW",
     ArrowRight |-> "absE"]
COMMAND_KNOWN_WASD ==
    [b |-> "board", g |-> "equip", u |-> "unequip", v |-> "sort", z |-> "get",
     o |-> "put"]
COMMAND_KNOWN_NUMPAD ==
    [b |-> "board", q |-> "equip", w |-> "unequip", v |-> "sort", z |-> "get",
     x |-> "put"]
COMMAND_RAW_WASD ==
    [c |-> "use", f |-> "write", h |-> "hi", j |-> "erase", k |-> "floor item",
     m |-> "check look", n |-> "n", r |-> "spells", y |-> "y"]
COMMAND_RAW_NUMPAD ==
    [a |-> "read", c |-> "use", d |-> "erase", f |-> "floor item", h |-> "hi",
     m |-> "check look", n |-> "n", r |-> "spells", s |-> "write", y |-> "y"]

LetterMove(layout) == IF layout = "wasd" THEN WASD_MOVE ELSE NUMPAD_LETTER_MOVE
Known(layout) == IF layout = "wasd" THEN COMMAND_KNOWN_WASD ELSE COMMAND_KNOWN_NUMPAD
Raw(layout) == IF layout = "wasd" THEN COMMAND_RAW_WASD ELSE COMMAND_RAW_NUMPAD
Cursor(northFix) == IF northFix THEN CURSOR_NF ELSE CURSOR_TURN

Slots == {"F1", "F2", "F3", "F4", "F5", "F6", "F7", "F8", "F9", "F10"}
MagicSlots == {"F1", "F2", "F3", "F4", "F5", "F6", "F7"}

ASSUME KeysAssumption == Unassigned \notin Slots    \* a key without a slot has none

(* keyContextBase: the layout, whether north is up, the words of the slots *)
(* and of Shift+G.                                                         *)
KeyContext(keybind, displayStyle, mapStyle) ==
    [layout |-> keybind.layout, words |-> keybind.words, altG |-> keybind.altG,
     northFix |-> (IF mapStyle # Unassigned THEN mapStyle ELSE displayStyle) = "solid"]
-----------------------------------------------------------------------------
(* Intents. *)
None == [type |-> "none"]
Move(mode, dir) == [type |-> "move", mode |-> mode, dir |-> dir]
Command(name) == [type |-> "command", name |-> name]
Say(text) == [type |-> "command", name |-> "raw", text |-> text]
Cast(spell) == [type |-> "command", name |-> "castMagic", spell |-> spell]
Pick(n) == [type |-> "list.select", pick |-> "item", value |-> n]
PickAs(what) == [type |-> "list.select", pick |-> what]
Pay == [type |-> "pay"]

actionToIntent(action, northFix) ==
    CASE action = "turnL" -> Move("turn", "l")
      [] action = "turnR" -> Move("turn", "r")
      [] action = "turnB" -> Move("turn", "b")
      [] action = "absN" \/ (northFix /\ action = "forward") -> Move("step", "N")
      [] action = "absS" \/ (northFix /\ action = "back") -> Move("step", "S")
      [] action = "absW" \/ (northFix /\ action = "strafeL") -> Move("step", "W")
      [] action = "absE" \/ (northFix /\ action = "strafeR") -> Move("step", "E")
      [] action = "forward" -> Move("step", "F")
      [] action = "back" -> Move("step", "B")
      [] action = "strafeL" -> Move("strafe", "L")
      [] action = "strafeR" -> Move("strafe", "R")

SlotIntent(slot, ctx) ==
    IF ctx.words[slot] = Unassigned THEN None
    ELSE IF slot \in MagicSlots THEN Cast(ctx.words[slot]) ELSE Say(ctx.words[slot])
resolveShiftDigit(ev, ctx) ==
    IF ev.shift /\ ~ev.ctrl /\ ev.slot \in Slots THEN SlotIntent(ev.slot, ctx) ELSE None

Digit ==
    [k \in {"1", "2", "3", "4", "5", "6", "7", "8", "9"} |->
        CASE k = "1" -> 1 [] k = "2" -> 2 [] k = "3" -> 3 [] k = "4" -> 4 [] k = "5" -> 5
          [] k = "6" -> 6 [] k = "7" -> 7 [] k = "8" -> 8 [] k = "9" -> 9]

(* A list takes the digits and no other key of the game. *)
ListIntent(ev) ==
    CASE ev.key \in DOMAIN Digit -> Pick(Digit[ev.key])
      [] ev.key \in {"0", "Escape"} -> PickAs("cancel")
      [] ev.key = "+" -> PickAs("all")
      [] OTHER -> None

(* The order of the tests is the order of the code. *)
PlayIntent(ev, ctx) ==
    LET k == ev.key IN
    CASE k = " " -> Command("hit")
      [] k \in DOMAIN CURSOR_TURN -> actionToIntent(Cursor(ctx.northFix)[k], ctx.northFix)
      [] k # " " /\ k \notin DOMAIN CURSOR_TURN ->
         IF ev.shift /\ k = "g" /\ ctx.altG # Unassigned THEN Say(ctx.altG)
         ELSE IF ev.numpad /\ k \in DOMAIN NUMPAD_KEY_MOVE
           THEN actionToIntent(NUMPAD_KEY_MOVE[k], ctx.northFix)
         ELSE IF ev.numpad /\ k \in DOMAIN NUMPAD_OP_COMMAND
           THEN Command(NUMPAD_OP_COMMAND[k])
         ELSE IF k \in DOMAIN LetterMove(ctx.layout)
           THEN actionToIntent(LetterMove(ctx.layout)[k], ctx.northFix)
         ELSE IF k \in DOMAIN Known(ctx.layout) THEN Command(Known(ctx.layout)[k])
         ELSE IF k \in DOMAIN Raw(ctx.layout) THEN Say(Raw(ctx.layout)[k])
         ELSE IF k = "p" /\ ~ev.ctrl THEN Pay ELSE None

resolveKey(ev, ctx, listActive, inputFocused) ==
    IF inputFocused THEN None
    ELSE IF resolveShiftDigit(ev, ctx) # None THEN resolveShiftDigit(ev, ctx)
    ELSE IF listActive THEN ListIntent(ev) ELSE PlayIntent(ev, ctx)
-----------------------------------------------------------------------------
(* The help: rows of a key, as it is to be pressed, and what the row says  *)
(* it does (the intent that its text names).                               *)
KeyEvent(k) == [key |-> k, slot |-> Unassigned, numpad |-> FALSE, shift |-> FALSE,
                ctrl |-> FALSE]
OnNumpad(k) == [KeyEvent(k) EXCEPT !.numpad = TRUE]
WithShift(k, slot) == [KeyEvent(k) EXCEPT !.shift = TRUE, !.slot = slot]
Row(ev, does) == [press |-> ev, does |-> does]

moveRows(table, northFix, Event(_)) ==
    {Row(Event(k), actionToIntent(table[k], northFix)) : k \in DOMAIN table}

describeKeys_Turning(ctx) ==
    moveRows(LetterMove(ctx.layout), ctx.northFix, KeyEvent)
    \cup moveRows(CURSOR_TURN, ctx.northFix, KeyEvent)
    \cup moveRows(NUMPAD_KEY_MOVE, ctx.northFix, OnNumpad)
    \cup {Row(KeyEvent(" "), Command("hit")), Row(KeyEvent("p"), Pay)}
    \cup {Row(KeyEvent(k), Command(Known(ctx.layout)[k])) : k \in DOMAIN Known(ctx.layout)}
    \cup {Row(KeyEvent(k), Say(Raw(ctx.layout)[k])) : k \in DOMAIN Raw(ctx.layout)}
    \cup {Row(OnNumpad(k), Command(NUMPAD_OP_COMMAND[k])) : k \in DOMAIN NUMPAD_OP_COMMAND}
    \cup {Row(WithShift("!", slot), SlotIntent(slot, ctx)) :
            slot \in {s \in Slots : ctx.words[s] # Unassigned}}
    \cup (IF ctx.altG = Unassigned THEN {}
                                   ELSE {Row(WithShift("g", Unassigned), Say(ctx.altG))})
describeKeys(ctx) ==
    moveRows(LetterMove(ctx.layout), ctx.northFix, KeyEvent)
    \cup moveRows(Cursor(ctx.northFix), ctx.northFix, KeyEvent)
    \cup moveRows(NUMPAD_KEY_MOVE, ctx.northFix, OnNumpad)
    \cup {Row(KeyEvent(" "), Command("hit")), Row(KeyEvent("p"), Pay)}
    \cup {Row(KeyEvent(k), Command(Known(ctx.layout)[k])) : k \in DOMAIN Known(ctx.layout)}
    \cup {Row(KeyEvent(k), Say(Raw(ctx.layout)[k])) : k \in DOMAIN Raw(ctx.layout)}
    \cup {Row(OnNumpad(k), Command(NUMPAD_OP_COMMAND[k])) : k \in DOMAIN NUMPAD_OP_COMMAND}
    \cup {Row(WithShift("!", slot), SlotIntent(slot, ctx)) :
            slot \in {s \in Slots : ctx.words[s] # Unassigned}}
    \cup (IF ctx.altG = Unassigned THEN {}
                                   ELSE {Row(WithShift("g", Unassigned), Say(ctx.altG))})
=============================================================================
