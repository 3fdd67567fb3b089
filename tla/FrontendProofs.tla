---------------------------- MODULE FrontendProofs ----------------------------
(***************************************************************************)
(* The screens of the frontend side by side, as MCFrontend composes them:  *)
(* each keeps its own types, whatever the others do.  They share no        *)
(* variable, so the steps of one are stutters of the others; the proof     *)
(* only puts the invariants of the parts together.                         *)
(***************************************************************************)
EXTENDS MCFrontend, GameScreenProofs, AccountScreensProofs, MapPictureProofs

FrontendInv ==
    GameTypeOK /\ ChatTyped /\ (SyncInv /\ SettingsTyped) /\ AccountTyped /\ MapTyped

LEMMA FrontendInit == Init => FrontendInv
  BY GameTypedInit, ChatTypedInit, SyncInit, SettingsTypedInit, InitTyped, MapTypedInit
     DEF Init, FrontendInv

(* The settings of a step, which need what the channel carries. *)
LEMMA SettingsPartStep ==
    SyncInv /\ SettingsTyped /\ [SettingsNext]_settingsVars => (SyncInv /\ SettingsTyped)'
  BY SyncStep, SettingsTypedStep

(* The record and the picture of the map bring other scenes than MapNext.  *)
LEMMA MapPartStep ==
    ASSUME MapTyped, RecordNext \/ PictureNext \/ UNCHANGED mapVars
    PROVE  MapTyped'
<1>1. CASE RecordNext
  <2>1. \A scene \in {Empty_Scene} : Scenic(scene)
    <3>1. Empty_Scene.chars = <<>> /\ <<>> \in Seq(MapChar)
      BY DEF Empty_Scene
    <3> QED BY <3>1, EmptySceneAssumption DEF Scenic
  <2> QED BY <1>1, <2>1, MapsArriveTyped, WalkTyped DEF RecordNext
<1>2. CASE PictureNext
  <2>1. \A scene \in Scenes : Scenic(scene)
    BY ScenesAssumption DEF Scenic
  <2> QED BY <1>2, <2>1, MapArrivesTyped, WalkTyped DEF PictureNext, Walk
<1> QED BY <1>1, <1>2, WalkTyped

LEMMA FrontendStep ==
    FrontendInv /\ [Next]_<<partVars, part>> => FrontendInv'
<1> SUFFICES ASSUME FrontendInv, [Next]_<<partVars, part>> PROVE FrontendInv'
  OBVIOUS
<1> USE DEF FrontendInv
<1>1. GameTypeOK'
  <2>1. [GameNext]_gameVars
    BY DEF Next, partVars
  <2> QED BY <2>1, GameTypedStep
<1>2. ChatTyped'
  <2>1. [ChatNext]_chatVars
    BY DEF Next, partVars, ChatNext
  <2> QED BY <2>1, ChatTypedStep
<1>3. (SyncInv /\ SettingsTyped)'
  <2>1. [SettingsNext]_settingsVars
    BY DEF Next, partVars
  <2> QED BY <2>1, SettingsPartStep
<1>4. AccountTyped'
  <2>1. [AccountNext]_accountVars
    BY DEF Next, partVars
  <2> QED BY <2>1, AccountTypedStep
<1>5. MapTyped'
  <2>1. RecordNext \/ PictureNext \/ UNCHANGED mapVars
    BY DEF Next, partVars
  <2> QED BY <2>1, MapPartStep
<1> QED BY <1>1, <1>2, <1>3, <1>4, <1>5

(* Every part of the frontend keeps its types while the others move: what  *)
(* any screen sends is one of the protocol's messages, what it stores from *)
(* an answer is what such an answer may bring, and each bound holds.       *)
THEOREM FrontendTypes == Spec => []FrontendTypeOK
<1>1. Init => FrontendInv
  BY FrontendInit
<1>2. FrontendInv /\ [Next]_<<partVars, part>> => FrontendInv'
  BY FrontendStep
<1>3. FrontendInv => FrontendTypeOK
  BY ChatTypedImplies, SettingsTypedImplies, AccountTypedImplies, MapTypedImplies
     DEF FrontendInv, FrontendTypeOK
<1> QED BY <1>1, <1>2, <1>3, PTL DEF Spec
=============================================================================
