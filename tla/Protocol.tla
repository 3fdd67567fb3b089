------------------------------ MODULE Protocol ------------------------------
(***************************************************************************)
(* The messages between browser and gateway (frontend/src/types/           *)
(* protocol.ts): one set of records per interface.  The fields of the      *)
(* envelope appear where they are used, and texts, names and ids are       *)
(* members of small sets.                                                  *)
(***************************************************************************)
EXTENDS Integers, Sequences

CONSTANTS
    Sessions,   \* session ids
    Texts,      \* what is said, typed or listed, spells and command words
    Names,      \* names of characters, users, worlds, graphics and chip sets
    Absent      \* an optional field that is left out

Optional(S) == S \cup {Absent}

CompassDir == {"N", "E", "S", "W"}
RelativeDir == {"B", "R", "F", "L"}
Dir == CompassDir \cup RelativeDir
TurnDir == {"l", "r", "b"}
MoveMode == {"step", "turn", "strafe"}
ConnectionState == {"connecting", "connected", "detached", "closed"}
ErrorCode ==
    {"AUTH_FAILED", "SESSION_NOT_FOUND", "LEGACY_DISCONNECTED", "TRANSFER_FAILED",
     "RATE_LIMITED", "BAD_REQUEST", "INTERNAL"}
SettingsScope == {"keybind", "notify", "display", "intervals"}
-----------------------------------------------------------------------------
(* Browser to gateway. *)

SessionRequest ==
    [type : {"session.open"}, charId : Names] \cup [type : {"auth"}, token : Names]
        \cup [type : {"session.close"}, session : Sessions]

MoveRequest ==
    [type : {"move"}, session : Sessions, mode : {"step", "strafe"}, dir : Dir]
        \cup [type : {"move"}, session : Sessions, mode : {"turn"}, dir : TurnDir]

ChatMode == {"normal", "loud", "party", "all", "priv"}
ChatRequest ==
    [type : {"chat"}, session : Sessions, mode : ChatMode \ {"priv"}, text : Texts]
        \cup [type : {"chat"}, session : Sessions, mode : {"priv"}, text : Texts, to : Names]

SimpleCommand ==
    {"hit", "equip", "unequip", "get", "put", "use", "sort", "read", "write", "board"}
CommandRequest ==
    [type : {"command"}, session : Sessions, name : SimpleCommand]
        \cup [type : {"command"}, session : Sessions, name : {"pay"}, amount : Nat]
        \cup [type : {"command"}, session : Sessions, name : {"castMagic"}, spell : Texts]
        \cup [type : {"command"}, session : Sessions, name : {"raw"}, text : Texts]

(* A number, all or cancel. *)
ListSelectRequest ==
    [type : {"list.select"}, session : Sessions, pick : {"item"}, value : Nat]
        \cup [type : {"list.select"}, session : Sessions, pick : {"all", "cancel"}]

EditRequest ==
    [type : {"edit.submit"}, session : Sessions, mode : {"single", "multi"},
     lines : Seq(Texts)]
        \cup [type : {"edit.cancel"}, session : Sessions]

SettingsRequest(Value) ==
    [type : {"settings.get"}, scope : SettingsScope]
        \cup [type : {"settings.set"}, scope : SettingsScope, value : Value]

ViewSetRequest ==
    [type : {"view.set"}, session : Optional(Sessions), mapSize : Optional({40, 57}),
     mapStyle : Optional({"turn", "solid"}), eagleEye : Optional(BOOLEAN)]
-----------------------------------------------------------------------------
(* Gateway to browser. *)

AuthResponse == [type : {"auth"}, ok : BOOLEAN]
ConnectionEvent == [type : {"connection"}, session : Sessions, state : ConnectionState]

(* A chip is the character of its byte, "~" any that has no picture; a     *)
(* direction given as a number is that digit.                              *)
Chip ==
    {" ", ":", "+", "T", "_", "o", "@", "#", "H", "I", "=", "[", "{", "|", "x", "%", "/", ">",
     "?", "s", "~"}
DirNumber == {"0", "1", "2", "3", "4", "5", "6", "7"}
MapCell == [chip : Chip, attr : 0..255]
MapChar ==
    [x : Int, y : Int, dir : Dir \cup DirNumber, name : Names, gra : Optional(Names),
     gigant : {"#", "*"}, layer : Nat, default : Nat,
     magnify : Optional([w : Nat, h : Nat, z : Int])]
MapSign == [x : Int, y : Int, title : Texts]
MapEvent ==
    [type : {"map"}, session : Sessions, size : Nat, dir : Dir \cup DirNumber,
     style : {"turn", "solid"}, mapset : Names, cells : Seq(MapCell), chars : Seq(MapChar),
     signs : Seq(MapSign), pos : Optional([x : Int, y : Int])]

StatusEvent ==
    [type : {"status"}, session : Sessions, name : Names, hp : Nat, maxHp : Nat,
     mp : Nat, maxMp : Nat]
Condition == {"poison", "palsy", "panic", "confuse", "berserk", "silence", "blind"}
CondEvent == [type : {"cond"}, session : Sessions, on : SUBSET Condition]

MessageChannel == {"log", "talk", "priv", "loud", "system"}
MessageEvent ==
    [type : {"message"}, session : Sessions, channel : MessageChannel,
     seq : Optional(Nat), from : Optional(Names), text : Texts]

UserListEvent == [type : {"userList"}, session : Sessions, users : SUBSET Names]
ListEvent ==
    [type : {"list"}, session : Sessions, active : BOOLEAN, lines : Seq(Nat \X Texts)]
EditEvent == [type : {"edit"}, session : Sessions, mode : {"single", "multi", "end"}]
ModeFlags == {"attack", "magic", "list", "more"}
ModeEvent ==
    [type : {"mode"}, session : Sessions, flags : [ModeFlags -> Optional(BOOLEAN)]]
WorldTransferEvent ==
    [type : {"worldTransfer"}, session : Sessions, state : {"start", "success", "fail"}]
EagleEyeEvent ==
    [type : {"eagleEye"}, session : Sessions, width : Nat, height : Nat,
     self : [x : Int, y : Int], cells : Seq(MapCell)]
NoticeEvent ==
    [type : {"notice"}, session : Sessions, world : Optional(Names),
     area : Optional(Names), name : Optional(Names), mapset : Optional(Names)]
SettingsResponse(Value) ==
    [type : {"settings"}, scope : SettingsScope, value : Value]
ErrorEvent == [type : {"error"}, session : Optional(Sessions), code : ErrorCode]

SnapshotEvent ==
    [type : {"snapshot"}, session : Sessions, map : Optional(MapEvent),
     status : Optional(StatusEvent), cond : Optional(CondEvent),
     userList : Optional(UserListEvent), mode : Optional(ModeEvent),
     notice : Optional(NoticeEvent), list : Optional(ListEvent),
     edit : Optional(EditEvent)]

GameRequest ==
    MoveRequest \cup ChatRequest \cup CommandRequest \cup ListSelectRequest
        \cup EditRequest \cup ViewSetRequest \cup SessionRequest
GameEvent ==
    MapEvent \cup StatusEvent \cup CondEvent \cup MessageEvent \cup UserListEvent
        \cup ListEvent \cup EditEvent \cup ModeEvent \cup WorldTransferEvent
        \cup EagleEyeEvent \cup NoticeEvent \cup SnapshotEvent \cup ErrorEvent
        \cup ConnectionEvent
=============================================================================
