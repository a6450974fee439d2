-------------------------- MODULE ProjectSettings --------------------------
(***************************************************************************)
(* app/advanced-features.js: the project settings of the open chat are     *)
(* loaded, edited in a dialog and saved; their default model is applied    *)
(* once to a chat that this tab created, through the queue of model        *)
(* changes that the user's own choices go through (app/app.js).            *)
(***************************************************************************)
EXTENDS Naturals, Sequences, FiniteSets

CONSTANTS SettingChats, NoSettingChat,
          MaxOpenings,    \* bound: how often a chat is opened
          MaxRequested    \* bound: loads and saves under way

ASSUME SettingAssumption ==
  /\ NoSettingChat \notin SettingChats /\ MaxOpenings \in Nat /\ MaxRequested \in Nat

VARIABLES current,    \* state.sessionID
          openings,   \* chats opened so far
          settings,   \* state.settings: the chat they belong to
          dialog,     \* settingsTarget: the chat being edited
          requests,   \* loads and saves of settings under way
          pickedBy,     \* pickedBy[c]: model of the chat on the server
          byHand,     \* chats whose model the user picked in this tab
          marked,     \* project-defaults marks in sessionStorage
          prompted,   \* chats with messages
          defaulting, \* applyProjectDefaultsOnce under way
          sentChanges    \* model changes under way, one queue per chat

settingVars == <<current, openings, settings, dialog, requests, pickedBy, byHand,
                 marked, prompted, defaulting, sentChanges>>
dialogVars == <<settings, dialog, requests>>
defaultVars == <<pickedBy, byHand, marked, prompted, defaulting, sentChanges>>

NoDefaulting == [stage |-> "none", chat |-> NoSettingChat]

-----------------------------------------------------------------------------
(* Project settings *)

SettingsRequest(kind) == [kind |-> kind, chat |-> current, visit |-> openings]

\* loadProjectSettings, alone or by openProjectSettings; saveProjectSettings,
\* which is for the chat of the dialog and one at a time.
AskSettings(kind) ==
  /\ current # NoSettingChat /\ SettingsRequest(kind) \notin requests
  /\ Cardinality(requests) < MaxRequested
  /\ kind = "save" => dialog = current
  /\ requests' = requests \cup {SettingsRequest(kind)}
  /\ UNCHANGED <<current, openings, settings, dialog, defaultVars>>

\* Faulty variant: the settings of any chat are taken.
SettingsForAny(x) == TRUE
\* A load counts for the chat that is open, a save for the dialog it came from.
SettingsFor(x) == x.chat = current /\ (x.kind = "save" => dialog = current /\ x.visit = openings)

SettingsAnswer(x, ok) ==
  /\ x \in requests
  /\ requests' = requests \ {x}
  /\ IF ok /\ SettingsFor(x)
     THEN /\ settings' = x.chat
          /\ dialog' = IF x.kind = "open" THEN current ELSE dialog
     ELSE UNCHANGED <<settings, dialog>>
  /\ UNCHANGED <<current, openings, defaultVars>>

-----------------------------------------------------------------------------
(* applyProjectDefaultsOnce *)

\* wasCreatedHere holds for every chat of the module; others are only marked.
DefaultsBegin ==
  /\ current # NoSettingChat /\ settings = current
  /\ defaulting.stage = "none" /\ current \notin marked
  /\ IF current \in byHand
     THEN marked' = marked \cup {current} /\ UNCHANGED defaulting
     ELSE defaulting' = [stage |-> "reading", chat |-> current] /\ UNCHANGED marked
  /\ UNCHANGED <<current, openings, pickedBy, byHand, prompted, sentChanges,
                 dialogVars>>

\* Faulty variant: what the user did during the read is not looked at.
PickedSince(c) == FALSE
\* The user may have picked a model while the messages were read.
Picked(c) == c \in byHand

DefaultsRead ==
  /\ defaulting.stage = "reading"
  /\ CASE current # defaulting.chat ->
            defaulting' = NoDefaulting /\ UNCHANGED <<marked, sentChanges>>
       [] current = defaulting.chat /\ (current \in prompted \/ Picked(current)) ->
            /\ marked' = marked \cup {current} /\ defaulting' = NoDefaulting
            /\ UNCHANGED sentChanges
       [] OTHER ->
            /\ sentChanges' = [sentChanges EXCEPT ![current] = Append(@, "default")]
            /\ defaulting' = [defaulting EXCEPT !.stage = "switching"]
            /\ UNCHANGED marked
  /\ UNCHANGED <<current, openings, pickedBy, byHand, prompted, dialogVars>>

\* changeModel({source: 'manual'}): the pick is marked at once and queued.
PickModel ==
  /\ current # NoSettingChat /\ current \notin byHand
  /\ byHand' = byHand \cup {current}
  /\ sentChanges' = [sentChanges EXCEPT ![current] = Append(@, "manual")]
  /\ UNCHANGED <<current, openings, pickedBy, marked, prompted, defaulting, dialogVars>>

\* queueSessionModelChange: one after the other; a failed default is tried again
\* when the chat is opened next.
SwitchAnswers(c, ok) ==
  /\ sentChanges[c] # <<>>
  /\ sentChanges' = [sentChanges EXCEPT ![c] = Tail(@)]
  /\ pickedBy' = IF ok THEN [pickedBy EXCEPT ![c] = Head(sentChanges[c])] ELSE pickedBy
  /\ IF Head(sentChanges[c]) = "default"
     THEN /\ defaulting' = NoDefaulting
          /\ marked' = IF ok /\ current = c THEN marked \cup {c} ELSE marked
     ELSE UNCHANGED <<defaulting, marked>>
  /\ UNCHANGED <<current, openings, byHand, prompted, dialogVars>>

FirstPrompt(c) ==
  /\ c \notin prompted
  /\ prompted' = prompted \cup {c}
  /\ UNCHANGED <<current, openings, pickedBy, byHand, marked, defaulting, sentChanges,
                 dialogVars>>

\* selectSessionState closes the dialog and forgets the settings.
OpenSettingChat(c) ==
  /\ c # current /\ openings < MaxOpenings
  /\ current' = c /\ openings' = openings + 1
  /\ settings' = NoSettingChat /\ dialog' = NoSettingChat
  /\ UNCHANGED <<requests, defaultVars>>

-----------------------------------------------------------------------------
SettingInit ==
  /\ current = NoSettingChat /\ openings = 0
  /\ settings = NoSettingChat /\ dialog = NoSettingChat /\ requests = {}
  /\ pickedBy = [c \in SettingChats |-> "plain"] /\ byHand = {} /\ marked = {} /\ prompted = {}
  /\ defaulting = NoDefaulting /\ sentChanges = [c \in SettingChats |-> <<>>]

SettingNext ==
  \/ \E c \in SettingChats \cup {NoSettingChat} : OpenSettingChat(c)
  \/ \E kind \in {"load", "open", "save"} : AskSettings(kind)
  \/ \E x \in requests, ok \in BOOLEAN : SettingsAnswer(x, ok)
  \/ DefaultsBegin \/ DefaultsRead \/ PickModel
  \/ \E c \in SettingChats : FirstPrompt(c) \/ \E ok \in BOOLEAN : SwitchAnswers(c, ok)

SettingSpec == SettingInit /\ [][SettingNext]_settingVars

\* The settings keep values of their types.
SettingTypeOK ==
  /\ current \in SettingChats \cup {NoSettingChat} /\ openings \in Nat
  /\ settings \in SettingChats \cup {NoSettingChat} /\ dialog \in SettingChats \cup {NoSettingChat}
  /\ \A x \in requests : x.kind \in {"load", "open", "save"} /\ x.chat \in SettingChats
  /\ pickedBy \in [SettingChats -> {"plain", "default", "manual"}]
  /\ byHand \subseteq SettingChats /\ marked \subseteq SettingChats /\ prompted \subseteq SettingChats
  /\ defaulting.stage \in {"none", "reading", "switching"}
  /\ \A c \in SettingChats : \A i \in DOMAIN sentChanges[c] : sentChanges[c][i] \in {"default", "manual"}

\* The settings and the dialog are those of the open chat, however slow their
\* answers are; and a default model never comes after the user's own choice.
DefaultsYield ==
  /\ settings \in {current, NoSettingChat} /\ dialog \in {current, NoSettingChat}
  /\ \A c \in SettingChats : \A i \in DOMAIN sentChanges[c] :
       sentChanges[c][i] = "default" =>
         pickedBy[c] # "manual" /\ \A j \in 1..i : sentChanges[c][j] # "manual"
=============================================================================
