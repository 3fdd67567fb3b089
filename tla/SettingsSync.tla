---------------------------- MODULE SettingsSync ----------------------------
(***************************************************************************)
(* The settings of an account: the dialog (components/Settings.tsx), which *)
(* changes its store at once and tells the gateway, the preload after the  *)
(* login, the answers and echoes that overwrite the store, and a           *)
(* connection that may be lost with what is on its way.                    *)
(***************************************************************************)
EXTENDS Protocol, TLC

CONSTANTS
    Scopes,     \* scopes that are looked at
    Edits,      \* <<scope, field>> that the user edits
    MaxEdits,
    MaxOpens,   \* times that the dialog is opened
    MaxLosses   \* connections lost

ASSUME SettingsAssumption ==
    /\ Scopes \subseteq SettingsScope
    /\ MaxEdits \in Nat /\ MaxOpens \in Nat /\ MaxLosses \in Nat

(* The fields of the dialog with what can be entered: a slot or a pattern  *)
(* has a word or none, an interval a number, 0 (or an empty field) too.    *)
Word == {Absent, "word"}
KeybindChoices ==
    [layout |-> {"wasd", "numpad"}, touchHand |-> {"left", "right"}, magic |-> [1..7 -> Word],
     shortcuts |-> [8..10 -> Word], altG |-> Word]
DisplayChoices ==
    [mapSize |-> {40, 57}, mapStyle |-> {"turn", "solid"}, eagleEye |-> BOOLEAN,
     cellScale |-> {1, 2}, fontScale |-> {8, 10, 12}, theme |-> {"dark", "light"}]
NotifyChoices ==
    [enabled |-> BOOLEAN, privOnly |-> BOOLEAN, loud |-> BOOLEAN, sound |-> BOOLEAN,
     titleFlash |-> BOOLEAN, regexInclude |-> Word, regexExclude |-> Word]
IntervalChoices == [mapUpdate |-> {0, 5, 10}, statusUpdate |-> {0, 5, 10}]
Choices ==
    [keybind |-> KeybindChoices, display |-> DisplayChoices, notify |-> NotifyChoices,
     intervals |-> IntervalChoices]

DEFAULT ==
    [keybind |-> [layout |-> "numpad", touchHand |-> "right", magic |-> [n \in 1..7 |-> Absent],
                  shortcuts |-> [n \in 8..10 |-> Absent], altG |-> Absent],
     display |-> [mapSize |-> 57, mapStyle |-> "solid", eagleEye |-> FALSE, cellScale |-> 1,
                  fontScale |-> 10, theme |-> "dark"],
     notify |-> [enabled |-> TRUE, privOnly |-> FALSE, loud |-> TRUE, sound |-> FALSE,
                 titleFlash |-> TRUE, regexInclude |-> Absent, regexExclude |-> Absent],
     intervals |-> [mapUpdate |-> 10, statusUpdate |-> 10]]

ASSUME EditsAssumption == \A e \in Edits : e[1] \in Scopes /\ e[2] \in DOMAIN Choices[e[1]]

(* validate_setting: the intervals must be positive. *)
validate_setting(scope, value) ==
    scope = "intervals" => value.mapUpdate > 0 /\ value.statusUpdate > 0

VARIABLES
    byScope,    \* settingsStore
    saved,      \* the gateway's store
    toGateway,  \* messages on their way
    fromGateway,
    waiting,    \* WsClient.outbox
    online,     \* the socket is open and has authenticated
    open,       \* uiStore.settingsOpen
    view,       \* what the game was told of the map's style
    lost,       \* history: scopes of which a message was lost since the last
                \* answer
    refused,    \* scopes whose last change was refused, with a banner
    settingsCount

channel == <<toGateway, fromGateway, waiting, online>>
settingsVars == <<byScope, saved, toGateway, fromGateway, waiting, online, open, view,
                  lost, refused, settingsCount>>

Get(scope) == [type |-> "settings.get", scope |-> scope]
Set(scope, value) == [type |-> "settings.set", scope |-> scope, value |-> value]
ViewSet(style) == [type |-> "view.set", session |-> Absent, mapSize |-> Absent,
                   mapStyle |-> style, eagleEye |-> Absent]

GetIfKept(scope) == IF scope \in Scopes THEN <<Get(scope)>> ELSE <<>>
Gets ==
    GetIfKept("display") \o GetIfKept("keybind") \o GetIfKept("notify") \o GetIfKept("intervals")

IsValue(scope, value) ==
    value # Absent => \A f \in DOMAIN Choices[scope] : value[f] \in Choices[scope][f]

SettingsTypeOK ==
    /\ \A scope \in Scopes :
          IsValue(scope, byScope[scope]) /\ IsValue(scope, saved[scope])
    /\ online \in BOOLEAN /\ open \in BOOLEAN
    /\ lost \in SUBSET Scopes /\ refused \in SUBSET Scopes
    /\ \A i \in DOMAIN toGateway : toGateway[i].type \in {"settings.get", "settings.set", "view.set"}
    /\ \A i \in DOMAIN toGateway :
          toGateway[i].type = "view.set" => toGateway[i] \in ViewSetRequest
    /\ settingsCount \in [edits : 0..MaxEdits, opens : 0..MaxOpens, losses : 0..MaxLosses]

(* After the login: preloadSettings() has asked for every scope. *)
SettingsInit ==
    /\ byScope = [scope \in Scopes |-> Absent]
    /\ saved \in [Scopes -> {Absent}]
                   \cup {[scope \in Scopes |-> IF scope = "display"
                            THEN [DEFAULT[scope] EXCEPT !.theme = "light"] ELSE Absent]}
    /\ online \in BOOLEAN /\ open = FALSE
    /\ toGateway = (IF online THEN Gets ELSE <<>>) /\ fromGateway = <<>>
    /\ waiting = (IF online THEN <<>> ELSE Gets)
    /\ view = Absent
    /\ lost = {} /\ refused = {}
    /\ settingsCount = [edits |-> 0, opens |-> 0, losses |-> 0]

Post(ms) ==
    IF online THEN toGateway' = toGateway \o ms /\ UNCHANGED waiting
              ELSE waiting' = waiting \o ms /\ UNCHANGED toGateway

OpenSettings ==
    /\ ~open /\ open' = TRUE
    /\ settingsCount.opens < MaxOpens
    /\ settingsCount' = [settingsCount EXCEPT !.opens = @ + 1]
    /\ Post(Gets)
    /\ UNCHANGED <<byScope, saved, fromGateway, online, view, lost, refused>>

CloseSettings ==
    /\ open /\ open' = FALSE
    /\ UNCHANGED <<byScope, saved, channel, view, lost, refused, settingsCount>>

(* What the dialog shows, and builds the changed scope from. *)
Shown(scope, value) == IF value = Absent THEN DEFAULT[scope] ELSE value

(* save*(): the store at once, the gateway, and the game for the view. *)
Edit(scope, f, v) ==
    /\ open
    /\ settingsCount.edits < MaxEdits
    /\ v # Shown(scope, byScope[scope])[f]
    /\ LET value == [Shown(scope, byScope[scope]) EXCEPT ![f] = v] IN
       /\ byScope' = [byScope EXCEPT ![scope] = value]
       /\ Post(<<Set(scope, value)>> \o (IF f = "mapStyle" THEN <<ViewSet(v)>> ELSE <<>>))
    /\ settingsCount' = [settingsCount EXCEPT !.edits = @ + 1]
    /\ UNCHANGED <<saved, fromGateway, online, open, view, lost, refused>>

(* The 'settings' handler, for answers and echoes alike. *)
Applies_WhileClosed(m) == ~open
Applies(m) == TRUE
ReceiveSettings ==
    /\ fromGateway # <<>>
    /\ fromGateway' = Tail(fromGateway)
    /\ LET m == Head(fromGateway) IN
       /\ byScope' = IF m.ok /\ Applies(m) THEN [byScope EXCEPT ![m.scope] = m.value]
                                          ELSE byScope
       /\ lost' = IF m.ok THEN lost \ {m.scope} ELSE lost
       /\ refused' = IF m.ok THEN refused \ {m.scope} ELSE refused \cup {m.scope}
    /\ UNCHANGED <<saved, toGateway, waiting, online, open, view, settingsCount>>

(* _handle_settings and _handle_view_set. *)
GatewaySettings ==
    /\ toGateway # <<>>
    /\ toGateway' = Tail(toGateway)
    /\ LET m == Head(toGateway)
           valid == m.type = "settings.set" /\ validate_setting(m.scope, m.value)
           answer(ok, value) == [scope |-> m.scope, ok |-> ok, value |-> value]
       IN
       /\ saved' = IF valid THEN [saved EXCEPT ![m.scope] = m.value] ELSE saved
       /\ view' = IF m.type = "view.set" THEN m.mapStyle ELSE view
       /\ fromGateway' =
            CASE m.type = "settings.get" -> Append(fromGateway, answer(TRUE, saved[m.scope]))
              [] m.type = "settings.set" -> Append(fromGateway, answer(valid, m.value))
              [] m.type = "view.set" -> fromGateway
    /\ UNCHANGED <<byScope, waiting, online, open, lost, refused, settingsCount>>

(* What is on its way is lost, what waits in the outbox is not. *)
About(q) == {q[i].scope : i \in {j \in DOMAIN q : "scope" \in DOMAIN q[j]}}
LoseConnection ==
    /\ online
    /\ settingsCount.losses < MaxLosses
    /\ online' = FALSE
    /\ toGateway' = <<>> /\ fromGateway' = <<>>
    /\ lost' = lost \cup About(toGateway) \cup About(fromGateway)
    /\ settingsCount' = [settingsCount EXCEPT !.losses = @ + 1]
    /\ UNCHANGED <<byScope, saved, waiting, open, view, refused>>

Reconnect ==
    /\ ~online
    /\ online' = TRUE
    /\ toGateway' = waiting /\ waiting' = <<>>
    /\ UNCHANGED <<byScope, saved, fromGateway, open, view, lost, refused, settingsCount>>

SettingsNext ==
    \/ OpenSettings \/ CloseSettings \/ ReceiveSettings \/ GatewaySettings
    \/ LoseConnection \/ Reconnect
    \/ \E e \in Edits : \E v \in Choices[e[1]][e[2]] : Edit(e[1], e[2], v)

SettingsSpec == SettingsInit /\ [][SettingsNext]_settingsVars
-----------------------------------------------------------------------------
(* When nothing is on its way, the browser shows what the gateway has      *)
(* stored, whatever crossed: a scope differs only after a message about it *)
(* was lost with a connection (until it is asked for again), or after its  *)
(* last change was refused, which a banner says.                           *)
SettingsConverge ==
    online /\ toGateway = <<>> /\ fromGateway = <<>> =>
        \A scope \in Scopes \ (lost \cup refused) :
            Shown(scope, byScope[scope]) = Shown(scope, saved[scope])
=============================================================================
