------------------------------- MODULE ChatBox -------------------------------
(***************************************************************************)
(* The chat: the compose form (components/Chat.tsx) with its confirmation, *)
(* what the game hears of it (the serializer's _chat), and the log with    *)
(* its unread counts and notifications (stores/chatStore.ts, lib/notify.ts)*)
(***************************************************************************)
EXTENDS Protocol, FiniteSets

CONSTANTS
    Said,        \* what is typed: a leading sign, which the game minds, and a word
    Users,       \* users that each session knows
    HistoryMax,
    Capacity,    \* of a session's log
    MaxMessages  \* messages of the game

ASSUME ChatAssumption ==
    /\ Said \subseteq [lead : {"", "*", "+"}, word : Texts]
    /\ Users \in [Sessions -> SUBSET Names]
    /\ HistoryMax \in Nat \ {0} /\ Capacity \in Nat \ {0} /\ MaxMessages \in Nat

VARIABLES
    chatTab,     \* the tab shown
    chatMode, privTo,    \* uiStore, for all tabs
    draft,       \* the input
    history, cursor,
    confirm,     \* uiStore.confirm: the closure of doSend, and whether the
                 \* form that opened it is still there
    heard,       \* lines that the game got in the last step
    log, unread, \* chatStore
    numbered,    \* the gateway's seq, by session
    alert,       \* what the last message set off
    flashing,    \* the title's timer
    notifyScope  \* the notify settings

composer == <<draft, history, cursor>>
choice == <<chatMode, privTo>>
received == <<log, unread, numbered, alert, flashing, notifyScope>>
chatVars == <<chatTab, choice, composer, confirm, heard, received>>

Closure == [session : Sessions, mode : ChatMode, to : Optional(Names), text : Said,
            live : BOOLEAN]
Line == [session : Sessions, lead : {"", "*", "+", "/**/", "priv"}, word : Texts]
Entry == [seq : Nat, channel : MessageChannel, mine : BOOLEAN]
NotifySettings ==
    [enabled : BOOLEAN, privOnly : BOOLEAN, loud : BOOLEAN, sound : BOOLEAN,
     titleFlash : BOOLEAN]

ChatTypeOK ==
    /\ chatTab \in Sessions
    /\ chatMode \in ChatMode /\ privTo \in Optional(Names)
    /\ draft \in Optional(Said)
    /\ \A i \in DOMAIN history : history[i] \in Said
    /\ Len(history) <= HistoryMax
    /\ cursor \in 0..Len(history)
    /\ confirm \in Optional(Closure)
    /\ heard \subseteq Line
    /\ \A s \in Sessions : Len(log[s]) <= Capacity /\ \A i \in DOMAIN log[s] : log[s][i] \in Entry
    /\ unread \in [Sessions -> Nat] /\ numbered \in [Sessions -> Nat]
    /\ alert \subseteq {"popup", "title", "sound"} /\ flashing \in BOOLEAN
    /\ notifyScope \in NotifySettings

ChatInit ==
    /\ chatTab \in Sessions
    /\ chatMode = "normal" /\ privTo = Absent
    /\ draft = Absent /\ history = <<>> /\ cursor = 0
    /\ confirm = Absent /\ heard = {}
    /\ log = [s \in Sessions |-> <<>>] /\ unread = [s \in Sessions |-> 0]
    /\ numbered = [s \in Sessions |-> 0]
    /\ alert = {} /\ flashing = FALSE
    /\ notifyScope \in NotifySettings
-----------------------------------------------------------------------------
(* The serializer: the game takes a leading sign for the way of speaking,  *)
(* so a normal text that has one is marked.  A recipient that the session  *)
(* does not know is refused.                                               *)
normal_chat(text) == IF text.lead = "" THEN "" ELSE "/**/"
Serialized(s, mode, text, to) ==
    CASE mode = "loud" -> {[session |-> s, lead |-> "*", word |-> text.word]}
      [] mode = "party" -> {[session |-> s, lead |-> "+", word |-> text.word]}
      [] mode = "priv" -> {[session |-> s, lead |-> "priv", word |-> text.word] :
                             known \in Users[s] \cap {to}}
      [] mode \in {"normal", "all"} ->
            {[session |-> s, lead |-> normal_chat(text), word |-> text.word]}

(* sendChat: all is a normal text for every session. *)
sendChat(s, mode, text, to) ==
    IF mode = "all" THEN UNION {Serialized(each, "normal", text, to) : each \in Sessions}
                    ELSE Serialized(s, mode, text, to)

(* doSend with what a closure holds, or with the form as it is now.  It    *)
(* empties the input whatever has been typed since.                        *)
Remembered_Untrimmed(text) ==
    IF history # <<>> /\ history[Len(history)] = text THEN history ELSE Append(history, text)
Remembered(text) ==
    LET longer == IF history # <<>> /\ history[Len(history)] = text THEN history
                                                                   ELSE Append(history, text)
    IN  IF Len(longer) > HistoryMax THEN Tail(longer) ELSE longer
doSend_Live(c) ==
    /\ heard' = IF draft = Absent THEN {} ELSE sendChat(c.session, c.mode, draft, c.to)
    /\ draft' = Absent
    /\ UNCHANGED <<history, cursor>>
doSend(c) ==
    /\ heard' = sendChat(c.session, c.mode, c.text, c.to)
    /\ history' = IF c.live THEN Remembered(c.text) ELSE history
    /\ cursor' = IF c.live THEN Len(history') ELSE cursor
    /\ draft' = IF c.live THEN Absent ELSE draft

Now(mode) ==
    [session |-> chatTab, mode |-> mode, to |-> privTo, text |-> draft, live |-> TRUE]

(* handleSubmit, by Enter or the button: a shout opens the dialog, or      *)
(* replaces the one that is open, which leaves the input its focus.        *)
handleSubmit ==
    /\ draft # Absent
    /\ chatMode = "priv" => privTo # Absent
    /\ IF chatMode = "loud"
         THEN confirm' = Now("loud") /\ heard' = {} /\ UNCHANGED composer
         ELSE doSend(Now(chatMode)) /\ UNCHANGED confirm
    /\ UNCHANGED <<chatTab, choice, received>>

CtrlEnter ==
    /\ draft # Absent
    /\ doSend(Now("party"))
    /\ UNCHANGED <<chatTab, choice, confirm, received>>

ConfirmOk ==
    /\ confirm # Absent
    /\ doSend(confirm)
    /\ confirm' = Absent
    /\ UNCHANGED <<chatTab, choice, received>>
ConfirmCancel ==
    /\ confirm # Absent
    /\ confirm' = Absent /\ heard' = {}
    /\ UNCHANGED <<chatTab, choice, composer, received>>

(* The arrows: beyond the last text is a new one. *)
Recall(up) ==
    /\ cursor' = IF up THEN cursor - 1 ELSE cursor + 1
    /\ cursor' \in 0..Len(history)
    /\ draft' = IF cursor' < Len(history) THEN history[cursor' + 1] ELSE Absent
    /\ heard' = {}
    /\ UNCHANGED <<chatTab, choice, history, confirm, received>>

Write(text) ==
    /\ draft' = text /\ heard' = {}
    /\ UNCHANGED <<chatTab, choice, history, cursor, confirm, received>>
Choose(mode) ==
    /\ chatMode' = mode /\ heard' = {}
    /\ UNCHANGED <<chatTab, privTo, composer, confirm, received>>
ChooseTo(name) ==
    /\ chatMode = "priv"
    /\ privTo' = name /\ heard' = {}
    /\ UNCHANGED <<chatTab, chatMode, composer, confirm, received>>

(* The form goes with the game screen, its dialog does not. *)
LeaveGame ==
    /\ draft' = Absent /\ history' = <<>> /\ cursor' = 0
    /\ confirm' = IF confirm = Absent THEN Absent ELSE [confirm EXCEPT !.live = FALSE]
    /\ heard' = {}
    /\ UNCHANGED <<chatTab, choice, received>>

SelectTab(s) ==
    /\ s # chatTab
    /\ chatTab' = s
    /\ unread' = [unread EXCEPT ![s] = 0]
    /\ heard' = {}
    /\ UNCHANGED <<choice, composer, confirm, log, numbered, alert, flashing, notifyScope>>
-----------------------------------------------------------------------------
isChatChannel(channel) == channel \in {"talk", "priv", "loud"}
isSelfEcho(e) == e.channel \in {"log", "talk"} /\ e.mine

(* shouldNotify; the patterns of the settings match or they do not. *)
shouldNotify(e, ns, matches) ==
    /\ ns.enabled /\ e.channel # "system"
    /\ ns.privOnly => e.channel = "priv"
    /\ e.channel = "loud" => ns.loud
    /\ matches
notify(ns) ==
    {"popup"} \cup (IF ns.titleFlash THEN {"title"} ELSE {})
              \cup (IF ns.sound THEN {"sound"} ELSE {})

(* addMessage: nothing twice, and the oldest entries make room. *)
isDuplicate(entries, e) == \E i \in DOMAIN entries : entries[i].seq = e.seq
addMessage(s, e) ==
    IF isDuplicate(log[s], e) THEN UNCHANGED <<log, unread>>
    ELSE LET longer == Append(log[s], e) IN
         /\ log' = [log EXCEPT ![s] =
                      IF Len(longer) > Capacity THEN Tail(longer) ELSE longer]
         /\ unread' = IF isChatChannel(e.channel) THEN [unread EXCEPT ![s] = @ + 1] ELSE unread

(* The 'message' handler. *)
MessageArrives(s, channel, mine, matches) ==
    LET e == [seq |-> numbered[s] + 1, channel |-> channel, mine |-> mine] IN
    /\ numbered[s] < MaxMessages
    /\ numbered' = [numbered EXCEPT ![s] = e.seq]
    /\ addMessage(s, e)
    /\ alert' = IF ~isSelfEcho(e) /\ isChatChannel(channel) /\ shouldNotify(e, notifyScope, matches)
                  THEN notify(notifyScope) ELSE {}
    /\ flashing' = (flashing \/ "title" \in alert')
    /\ heard' = {}
    /\ UNCHANGED <<chatTab, choice, composer, confirm, notifyScope>>

(* stopFlash, when the window gets the focus. *)
WindowFocus ==
    /\ flashing /\ flashing' = FALSE
    /\ alert' = {} /\ heard' = {}
    /\ UNCHANGED <<chatTab, choice, composer, confirm, log, unread, numbered, notifyScope>>

ComposeNext ==
    \/ handleSubmit \/ CtrlEnter \/ ConfirmOk \/ ConfirmCancel \/ LeaveGame
    \/ \E up \in BOOLEAN : Recall(up)
    \/ \E text \in Optional(Said) : Write(text)
    \/ \E mode \in ChatMode : Choose(mode)
    \/ \E name \in Optional(Users[chatTab]) : ChooseTo(name)
    \/ \E s \in Sessions : SelectTab(s)
LogNext ==
    \/ WindowFocus
    \/ \E s \in Sessions, channel \in MessageChannel, mine \in BOOLEAN, matches \in BOOLEAN :
          MessageArrives(s, channel, mine, matches)

ChatNext == ComposeNext \/ LogNext

ChatSpec == ChatInit /\ [][ChatNext]_chatVars
-----------------------------------------------------------------------------
(* The game hears a shout only when a dialog has shown that very text for  *)
(* that tab and was answered with OK, whatever was typed, recalled, chosen *)
(* or switched under the open dialog, and whatever sign a text begins with.*)
Shouts == {line \in heard' : line.lead = "*"}
LoudConfirmed ==
    [][\A line \in Shouts :
         /\ confirm # Absent /\ confirm' = Absent
         /\ line.session = confirm.session
         /\ line.word = confirm.text.word]_chatVars
=============================================================================
