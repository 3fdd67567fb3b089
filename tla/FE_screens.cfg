CONSTANTS
    s1 = s1
    s2 = s2
    v1 = v1
    v2 = v2
    Absent = Absent
    Nowhere = Nowhere
    Sessions <- MCSessions
    Texts <- MCTexts
    Names <- MCNames
    Configs <- MCConfigs
    Typing <- MCTyping
    Digits <- MCDigits
    Pressed <- MCPressed
    MaxGameEvents = 2
    Said <- MCSaid
    Users <- MCUsers
    HistoryMax = 2
    Capacity = 1
    MaxMessages = 2
    Scopes <- MCScopes
    Edits <- MCEdits
    MaxEdits = 2
    MaxOpens = 2
    MaxLosses = 1
    Servers <- MCServers
    Graphics <- MCGraphics
    MaxTokens = 2
    MaxActs = 4
    MaxFaults = 1
    Side = 3
    Ring = 1
    Stands <- MCStands
    Lands <- MCLands
    Hidden <- MCHidden
    Scenes <- MCScenes
    Served <- MCServed
    MaxMaps = 3
    MaxMapFaults = 1
SPECIFICATION Spec
CHECK_DEADLOCK FALSE
INVARIANTS FrontendTypeOK HelpIsTrue SettingsConverge ListsSettle RegistersWhereLoaded RecallIsTrue PictureIsSound
PROPERTIES LoudConfirmed TypingIsNotPlaying AnswersAreAsked
