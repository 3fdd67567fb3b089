----------------------------- MODULE MCFrontend -----------------------------
(***************************************************************************)
(* The frontend's screens for TLC.  They share no state, so each part is   *)
(* explored on its own while the others rest; the record of the map and    *)
(* the loading of its images are two parts, too.                           *)
(***************************************************************************)
EXTENDS GameScreen, ChatBox, SettingsSync, AccountScreens, MapPicture

CONSTANTS s1, s2, v1, v2

VARIABLE part    \* the part that moves

MCSessions == {s1, s2}
MCTyping == [spell |-> {"hi"}, edit |-> {"hi"}, prompt |-> {"5"}]
MCDigits == "5" :> 5
MCNames == {"n", "default", "cave", "hero", "beast", "t_dog", "t_elf"}

Words(used) == [slot \in Slots |-> IF slot \in used THEN "hi" ELSE Absent]
Config(layout, words, altG, north) ==
    [keybind |-> [layout |-> layout, words |-> words, altG |-> altG], displayStyle |-> north]
MCConfigs ==
    {Config("wasd", Words({"F2", "F10"}), "hi", "turn"),
     Config("numpad", Words({}), Absent, "solid")}
MCTexts ==
    {"", "numbers", "word"} \cup {"5", "hi"} \cup COMMANDS
        \cup {COMMAND_RAW_WASD[k] : k \in DOMAIN COMMAND_RAW_WASD}
        \cup {COMMAND_RAW_NUMPAD[k] : k \in DOMAIN COMMAND_RAW_NUMPAD}
MCPressed ==
    {KeyEvent(k) : k \in {"w", "k", "p", "7", "+", "Escape", "?"}} \cup {WithShift("!", "F2")}

MCSaid ==
    {[lead |-> "", word |-> "hi"], [lead |-> "*", word |-> "hi"], [lead |-> "", word |-> "5"]}
MCUsers == [s \in MCSessions |-> IF s = s1 THEN {"n"} ELSE {}]
Quiet == [enabled |-> FALSE, privOnly |-> FALSE, loud |-> FALSE, sound |-> FALSE,
          titleFlash |-> FALSE]
Loud == [enabled |-> TRUE, privOnly |-> FALSE, loud |-> TRUE, sound |-> FALSE,
         titleFlash |-> TRUE]

MCScopes == {"display", "intervals"}
MCEdits ==
    {<<"display", "theme">>, <<"display", "mapStyle">>, <<"intervals", "mapUpdate">>}

MCServers == {v1, v2}
MCGraphics == [s \in MCServers |-> IF s = v1 THEN 2 ELSE 1]

(* Four columns and three rows: water along the north and in the west, a   *)
(* tree, and a cell that turns from a circle with an item into water.      *)
Cell(chip, attr) == [chip |-> chip, attr |-> attr]
Country(changing) ==
    [p \in (0..3) \X (0..2) |->
        CASE p[2] = 0 \/ p \in {<<0, 1>>, <<1, 1>>} -> Cell("_", 0)
          [] p = <<2, 1>> -> Cell("T", 0)
          [] p = <<3, 1>> -> Cell("_", 8)
          [] p = <<2, 2>> -> Cell(changing, 80)
          [] p \in {<<0, 2>>, <<1, 2>>, <<3, 2>>} -> Cell(":", 0)]
MCLands == {Country("%"), Country("_")}
MCStands == {<<1, 1>>, <<2, 1>>}
MCHidden == {{}, {<<2, 0>>, <<2, 1>>, <<2, 2>>}}
Person(x, y, gra, type) ==
    [x |-> x, y |-> y, dir |-> "3", name |-> "n", gra |-> gra, gigant |-> "*", layer |-> 0,
     default |-> type, magnify |-> [w |-> 48, h |-> 64, z |-> 8]]
MCScenes ==
    {[mapset |-> "default", chars |-> <<Person(1, 1, "hero", 2)>>],
     [mapset |-> "cave", chars |-> <<Person(1, 1, "beast", 9), Person(0, 0, Absent, 9)>>]}
MCServed == {"hero", "t_dog", "t_elf", "items", "default"}
Empty_Scene == [mapset |-> "cave", chars |-> <<>>]
ASSUME EmptySceneAssumption == Empty_Scene.mapset \in Names
-----------------------------------------------------------------------------
Parts == {"game", "compose", "log", "settings", "account", "record", "picture"}
partVars == <<gameVars, chatVars, settingsVars, accountVars, mapVars>>

(* The other parts rest in one of their initial states. *)
RestingGame == config.keybind.layout = "wasd"
RestingChat == chatTab = s1 /\ notifyScope = Quiet
RestingSettings == ~online /\ \A scope \in Scopes : saved[scope] = Absent
RestingAccount == token = NoToken
RestingMap == land = Country("%") /\ ~narrow
Init ==
    /\ GameInit /\ ChatInit /\ SettingsInit /\ AccountInit /\ MapInit
    /\ part \in Parts
    /\ tab = s1    \* the sessions are alike to the game screen
    /\ part # "game" => RestingGame
    /\ part \notin {"compose", "log"} => RestingChat
    /\ part = "compose" => notifyScope = Quiet
    /\ part = "log" => chatTab = s1 /\ notifyScope.loud = notifyScope.privOnly
    /\ part # "settings" => RestingSettings
    /\ part # "account" => RestingAccount
    /\ part # "record" => RestingMap

PictureNext ==
    \/ /\ mapCount.maps < 2
       /\ \E stand \in Stands, scene \in Scenes : MapArrives(stand, {}, Side, "solid", scene, TRUE)
    \/ Load \/ ReloadPage
RecordNext == MapsArrive(Hidden, {Empty_Scene}) \/ Walk

Next ==
    /\ UNCHANGED part
    /\ \/ /\ part = "game" /\ GameNext
          /\ UNCHANGED <<chatVars, settingsVars, accountVars, mapVars>>
       \/ /\ \/ part = "compose" /\ ComposeNext
             \/ part = "log" /\ LogNext
          /\ UNCHANGED <<gameVars, settingsVars, accountVars, mapVars>>
       \/ /\ part = "settings" /\ SettingsNext
          /\ UNCHANGED <<gameVars, chatVars, accountVars, mapVars>>
       \/ /\ part = "account" /\ AccountNext
          /\ UNCHANGED <<gameVars, chatVars, settingsVars, mapVars>>
       \/ /\ \/ part = "record" /\ RecordNext
             \/ part = "picture" /\ PictureNext
          /\ UNCHANGED <<gameVars, chatVars, settingsVars, accountVars>>

Spec == Init /\ [][Next]_<<partVars, part>>
-----------------------------------------------------------------------------
(* Every part keeps its types: what is sent is a message of the protocol,  *)
(* and every bound holds.                                                  *)
FrontendTypeOK ==
    GameTypeOK /\ ChatTypeOK /\ SettingsTypeOK /\ AccountTypeOK /\ MapTypeOK
=============================================================================
