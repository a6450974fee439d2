--------------------------- MODULE ModelTransition ---------------------------
(***************************************************************************)
(* app/ux-controls.js on top of changeModel and changeAgent of app/app.js: *)
(* a pick in the model list is two calls, the model and then the agent     *)
(* that goes with it, and a way back.  The composer's controls are held    *)
(* meanwhile, and the user may open another chat at any moment.            *)
(*                                                                         *)
(* A model is known by its profile: "direct" or "dnd-edition".             *)
(***************************************************************************)
EXTENDS Naturals, Sequences, FiniteSets

CONSTANTS PickChats, \* the chats of the sidebar
          MaxPicks   \* bound: picks in the model and agent lists

ASSUME TransitionAssumption == PickChats # {}

Profiles == {"direct", "dnd-edition"}
PageAgents == {"build", "plan", "dnd-narrator"}

VARIABLES openChat,        \* profileSessionKey
          chatModel,       \* the model the server has for a chat
          chatAgent,       \* the agent the server has for a chat
          shownAgent,      \* agent of the page's copy of a chat
          modelTransition, \* the pick the page waits for, 0: none
          held,            \* the composer's controls are disabled for it
          choosing,        \* calls of chooseModel that have not returned
          agentCalls,      \* pendingAgentChanges, with the agent asked for
          desiredProfile,
          savedProfile,    \* model-profiles-v1 in localStorage
          picks,           \* picks so far, for the bound
          tornChats        \* chats left during a pick, given another agent, or of a lost answer

transitionVars == <<openChat, chatModel, chatAgent, shownAgent, modelTransition, held,
                    choosing, agentCalls, desiredProfile, savedProfile, picks,
                    tornChats>>

AgentPending(c) == \E call \in agentCalls : call.chat = c
Fits(model, agent) == (model = "dnd-edition") <=> (agent = "dnd-narrator")
\* agentAfterModelPick; "build" and "plan" stay with a plain model.
AgentAfterModelPick(agent, profile) ==
  CASE profile = "dnd-edition" -> "dnd-narrator"
    [] profile = "direct" /\ agent = "dnd-narrator" -> "build"
    [] OTHER -> agent

\* Faulty variant: only the pick counts, not the chat the page now shows.
ValidAnywhere(pick) == \E p \in choosing : p = pick
\* valid(): the page still waits for this pick, in this chat.
Valid(pick) == modelTransition = pick.token /\ pick.chat = openChat

-----------------------------------------------------------------------------
(* setTransitionControls, beginModelTransition, endModelTransition *)

ReleasePick(profile) ==
  /\ modelTransition' = 0 /\ held' = FALSE
  /\ desiredProfile' = profile
  /\ savedProfile' = [savedProfile EXCEPT ![openChat] = profile]

KeepWaiting == UNCHANGED <<modelTransition, held, desiredProfile, savedProfile>>

\* A pick returns: it ends its own transition and nobody else's.
EndModelTransition(pick, profile) ==
  /\ choosing' = choosing \ {pick}
  /\ IF modelTransition = pick.token THEN ReleasePick(profile) ELSE KeepWaiting

ChooseModelHere(profile) ==
  /\ modelTransition = 0 /\ picks < MaxPicks
  /\ picks' = picks + 1
  /\ modelTransition' = picks + 1 /\ held' = TRUE
  /\ choosing' = choosing \cup {[token |-> picks + 1, chat |-> openChat, profile |-> profile,
                             stage |-> "model", previous |-> chatModel[openChat]]}
  /\ UNCHANGED <<openChat, chatModel, chatAgent, shownAgent, agentCalls, desiredProfile,
                 savedProfile, tornChats>>

\* The calls of changeModel for one chat are queued.
FirstOf(pick) ==
  \A p \in choosing : p.chat = pick.chat /\ p.stage \in {"model", "back"} => p.token >= pick.token

At(pick, stage) == pick.stage = stage /\ FirstOf(pick)

\* A pick whose chat was left ends between its two calls.
Abandon(pick) == choosing' = choosing \ {pick} /\ KeepWaiting

StartAgentCall(c, agent) ==
  /\ agentCalls' = agentCalls \cup {[chat |-> c, agent |-> agent, previous |-> shownAgent[c]]}
  /\ shownAgent' = [shownAgent EXCEPT ![c] = agent]

\* The agent of the pick; changeAgent refuses while another change is pending.
AgentStep(pick, agent) ==
  IF agent = shownAgent[openChat]
  THEN EndModelTransition(pick, pick.profile) /\ UNCHANGED <<shownAgent, agentCalls>>
  ELSE /\ KeepWaiting
       /\ IF AgentPending(openChat)
          THEN /\ choosing' = (choosing \ {pick}) \cup {[pick EXCEPT !.stage = "back"]}
               /\ UNCHANGED <<shownAgent, agentCalls>>
          ELSE /\ choosing' = (choosing \ {pick}) \cup {[pick EXCEPT !.stage = "agent"]}
               /\ StartAgentCall(openChat, agent)

ModelTaken(pick) ==
  /\ At(pick, "model")
  /\ chatModel' = [chatModel EXCEPT ![pick.chat] = pick.profile]
  /\ IF Valid(pick)
     THEN AgentStep(pick, AgentAfterModelPick(shownAgent[openChat], pick.profile))
     ELSE Abandon(pick) /\ UNCHANGED <<shownAgent, agentCalls>>
  /\ UNCHANGED <<openChat, chatAgent, picks, tornChats>>

\* Refused, or taken and the answer lost.
ModelFails(pick, taken) ==
  /\ At(pick, "model")
  /\ chatModel' = [chatModel EXCEPT ![pick.chat] = IF taken THEN pick.profile ELSE @]
  /\ EndModelTransition(pick, pick.previous)
  /\ tornChats' = IF taken THEN tornChats \cup {pick.chat} ELSE tornChats
  /\ UNCHANGED <<openChat, chatAgent, shownAgent, agentCalls, picks>>

\* changeModel(previousModel) after the agent was refused.
ModelPutBack(pick, taken) ==
  /\ At(pick, "back")
  /\ chatModel' = [chatModel EXCEPT ![pick.chat] = IF taken THEN pick.previous ELSE @]
  /\ EndModelTransition(pick, pick.previous)
  /\ tornChats' = IF taken THEN tornChats ELSE tornChats \cup {pick.chat}
  /\ UNCHANGED <<openChat, chatAgent, shownAgent, agentCalls, picks>>

-----------------------------------------------------------------------------
(* changeAgent *)

\* The pick that waits for a call of changeAgent, if one does.
WaitingCalls(call) == {p \in choosing : p.stage = "agent" /\ p.chat = call.chat}

AgentTaken(call) ==
  /\ agentCalls' = agentCalls \ {call}
  /\ chatAgent' = [chatAgent EXCEPT ![call.chat] = call.agent]
  /\ IF WaitingCalls(call) = {} THEN UNCHANGED choosing /\ KeepWaiting
     ELSE \E pick \in WaitingCalls(call) : EndModelTransition(pick, pick.profile)
  /\ UNCHANGED <<openChat, chatModel, shownAgent, picks, tornChats>>

\* Refused, or taken and the answer lost; a copy nobody looks at is not put back.
AgentFails(call, taken) ==
  /\ agentCalls' = agentCalls \ {call}
  /\ chatAgent' = [chatAgent EXCEPT ![call.chat] = IF taken THEN call.agent ELSE @]
  /\ shownAgent' = [shownAgent EXCEPT ![call.chat] =
                      IF call.chat = openChat /\ @ = call.agent THEN call.previous ELSE @]
  /\ IF WaitingCalls(call) = {} THEN UNCHANGED choosing /\ KeepWaiting
     ELSE \E pick \in WaitingCalls(call) :
            IF Valid(pick)
            THEN choosing' = (choosing \ {pick}) \cup {[pick EXCEPT !.stage = "back"]} /\ KeepWaiting
            ELSE Abandon(pick)
  /\ tornChats' = IF taken THEN tornChats \cup {call.chat} ELSE tornChats
  /\ UNCHANGED <<openChat, chatModel, picks>>

\* The agent list; it is disabled during a pick.  The user may take an agent that
\* does not go with the model.
PickAgentHere(agent) ==
  /\ modelTransition = 0 /\ ~AgentPending(openChat) /\ agent # shownAgent[openChat]
  /\ picks < MaxPicks /\ picks' = picks + 1
  /\ StartAgentCall(openChat, agent)
  /\ tornChats' = IF Fits(chatModel[openChat], agent)
             THEN tornChats ELSE tornChats \cup {openChat}
  /\ UNCHANGED <<openChat, chatModel, chatAgent, modelTransition, held, choosing,
                 desiredProfile, savedProfile>>

\* The chip that leaves Plan; it is not one of the controls that are held.
PlanChip ==
  /\ shownAgent[openChat] = "plan" /\ ~AgentPending(openChat)
  /\ StartAgentCall(openChat, "build")
  /\ UNCHANGED <<openChat, chatModel, chatAgent, modelTransition, held, choosing,
                 desiredProfile, savedProfile, picks, tornChats>>

-----------------------------------------------------------------------------
(* selectSession with restoreSessionProfile *)

OpenOtherChat(c) ==
  /\ c # openChat
  /\ openChat' = c
  /\ modelTransition' = 0 /\ held' = FALSE
  /\ desiredProfile' = savedProfile[c]
  /\ shownAgent' = [shownAgent EXCEPT ![c] = IF AgentPending(c) THEN @ ELSE chatAgent[c]]
  /\ tornChats' = IF \E p \in choosing : p.chat = openChat THEN tornChats \cup {openChat} ELSE tornChats
  /\ UNCHANGED <<chatModel, chatAgent, choosing, agentCalls, savedProfile, picks>>

-----------------------------------------------------------------------------
TransitionInit ==
  /\ openChat = CHOOSE c \in PickChats : TRUE
  /\ chatModel = [c \in PickChats |-> "direct"]
  /\ chatAgent = [c \in PickChats |-> "build"] /\ shownAgent = chatAgent
  /\ modelTransition = 0 /\ held = FALSE /\ choosing = {} /\ agentCalls = {}
  /\ desiredProfile = "direct"
  /\ savedProfile = [c \in PickChats |-> "direct"]
  /\ picks = 0 /\ tornChats = {}

TransitionNext ==
  \/ \E p \in Profiles : ChooseModelHere(p)
  \/ \E pick \in choosing : ModelTaken(pick)
  \/ \E pick \in choosing, taken \in BOOLEAN : ModelFails(pick, taken) \/ ModelPutBack(pick, taken)
  \/ \E call \in agentCalls : AgentTaken(call)
  \/ \E call \in agentCalls, taken \in BOOLEAN : AgentFails(call, taken)
  \/ \E agent \in PageAgents : PickAgentHere(agent)
  \/ PlanChip
  \/ \E c \in PickChats : OpenOtherChat(c)

TransitionSpec == TransitionInit /\ [][TransitionNext]_transitionVars

\* The page and the server keep values of their types.
TransitionTypeOK ==
  /\ openChat \in PickChats /\ tornChats \subseteq PickChats /\ held \in BOOLEAN
  /\ chatModel \in [PickChats -> Profiles] /\ savedProfile \in [PickChats -> Profiles]
  /\ chatAgent \in [PickChats -> PageAgents] /\ shownAgent \in [PickChats -> PageAgents]
  /\ desiredProfile \in Profiles
  /\ picks \in Nat /\ modelTransition \in 0 .. picks
  /\ choosing \subseteq [token : 1 .. picks, chat : PickChats, profile : Profiles,
                       stage : {"model", "agent", "back"}, previous : Profiles]
  /\ agentCalls \subseteq [chat : PickChats, agent : PageAgents, previous : PageAgents]

\* The controls are held exactly while a pick made in the open chat is under
\* way, so that they never stay disabled.
HeldForAPick ==
  /\ held <=> modelTransition # 0
  /\ held => \E p \in choosing : p.token = modelTransition /\ p.chat = openChat

\* A chat no call is under way for has the narrator exactly with the D&D model,
\* unless the user left it during a pick, chose an agent of their own or an answer
\* was lost.
ModelHasItsAgent ==
  \A c \in PickChats \ tornChats :
    (\A p \in choosing : p.chat # c) /\ ~AgentPending(c) => Fits(chatModel[c], chatAgent[c])

\* A pick is two calls, and at the end of it the chat has both or neither.
PicksAreWhole == HeldForAPick /\ ModelHasItsAgent

-----------------------------------------------------------------------------
(***************************************************************************)
(* app/app.js: the model of one chat as the page shows it.  Switches made  *)
(* on the page are queued one after the other; switches made elsewhere     *)
(* arrive as events; list and detail reads bring what the server had when  *)
(* it answered.  The page keeps a version per chat and, for a grace of two *)
(* seconds after its own switch, an override.                              *)
(***************************************************************************)
CONSTANTS Models,      \* model references
          NoModel,     \* none of them
          MaxSwitches, \* bound: switches made, on the page and elsewhere
          MaxReads     \* bound: reads under way at once

ASSUME SwitchAssumption == NoModel \notin Models /\ MaxReads \in Nat \ {0}

VARIABLES serverModel, \* the model the server has for the chat
          shownModel,  \* session.model in state.sessions and state.selected
          version,     \* sessionModelVersions
          override,    \* sessionModelOverrides: model and whether in the grace
          switches,    \* sessionModelQueues: the changes asked for on the page
          modelReads,  \* list and detail reads under way
          modelNews,   \* session.model.selected events on their way
          listed,      \* hasSession
          made,        \* switches made so far, for the bound
          missed       \* an event was dropped and nothing made up for it

switchVars == <<serverModel, shownModel, version, override, switches, modelReads,
                modelNews, listed, made, missed>>

NoOverride == [model |-> NoModel, fresh |-> FALSE]
\* Once the page shows what the server has and changes nothing itself, what it
\* missed does not matter.
StillMissed(model) == missed /\ ~(model = serverModel /\ switches' = <<>>)

-----------------------------------------------------------------------------
(* The server and the other clients *)

SwitchedElsewhere(m) ==
  /\ made < MaxSwitches /\ m # serverModel
  /\ serverModel' = m
  /\ modelNews' = Append(modelNews, m)
  /\ made' = made + 1
  /\ UNCHANGED <<shownModel, version, override, switches, modelReads, listed, missed>>

\* The request of the switch in front reaches the server.
SwitchTaken ==
  /\ switches # <<>> /\ Head(switches).stage = "sent"
  /\ serverModel' = Head(switches).model
  /\ modelNews' = Append(modelNews, Head(switches).model)
  /\ switches' = [switches EXCEPT ![1].stage = "taken"]
  /\ UNCHANGED <<shownModel, version, override, modelReads, listed, made, missed>>

-----------------------------------------------------------------------------
(* changeModel and queueSessionModelChange *)

ChangeModel(m) ==
  /\ listed /\ made < MaxSwitches
  /\ switches' = Append(switches, [model |-> m, stage |-> "queued"])
  /\ made' = made + 1
  /\ UNCHANGED <<serverModel, shownModel, version, override, modelReads, modelNews,
                 listed, missed>>

\* The change in front starts; for a chat that is gone it ends there.
SendSwitch ==
  /\ switches # <<>> /\ Head(switches).stage = "queued"
  /\ switches' = IF listed THEN [switches EXCEPT ![1].stage = "sent"] ELSE Tail(switches)
  /\ UNCHANGED <<serverModel, shownModel, version, override, modelReads, modelNews,
                 listed, made, missed>>

SwitchConfirmed ==
  /\ switches # <<>> /\ Head(switches).stage = "taken"
  /\ switches' = Tail(switches)
  /\ IF listed
       THEN LET m == Head(switches).model
            IN /\ version' = version + 1
               /\ override' = [model |-> m, fresh |-> TRUE]
               /\ shownModel' = m
               /\ missed' = StillMissed(m)
       ELSE UNCHANGED <<version, override, shownModel, missed>>
  /\ UNCHANGED <<serverModel, modelReads, modelNews, listed, made>>

\* Refused by the server, or taken and the answer lost.
SwitchFails ==
  /\ switches # <<>> /\ Head(switches).stage \in {"sent", "taken"}
  /\ switches' = Tail(switches)
  /\ UNCHANGED <<serverModel, shownModel, version, override, modelReads, modelNews,
                 listed, made, missed>>

GraceOver ==
  /\ override.fresh
  /\ override' = [override EXCEPT !.fresh = FALSE]
  /\ UNCHANGED <<serverModel, shownModel, version, switches, modelReads, modelNews,
                 listed, made, missed>>

-----------------------------------------------------------------------------
(* applyServerModel *)

\* A switch of the page under way wins over an event.
ApplyServerModel ==
  /\ modelNews # <<>>
  /\ modelNews' = Tail(modelNews)
  /\ UNCHANGED <<serverModel, switches, modelReads, listed, made>>
  /\ IF listed /\ switches = <<>>
       THEN /\ override' = NoOverride
            /\ version' = version + 1
            /\ shownModel' = Head(modelNews)
            /\ missed' = StillMissed(Head(modelNews))
       ELSE /\ missed' = TRUE
            /\ UNCHANGED <<override, version, shownModel>>

-----------------------------------------------------------------------------
(* Reads: mergeSessionPage, and the detail read of selectSession *)

StartRead ==
  /\ listed /\ Len(modelReads) < MaxReads
  /\ modelReads' = Append(modelReads, [at |-> version, model |-> NoModel])
  /\ UNCHANGED <<serverModel, shownModel, version, override, switches, modelNews,
                 listed, made, missed>>

ServerReads(i) ==
  /\ modelReads[i].model = NoModel
  /\ modelReads' = [modelReads EXCEPT ![i].model = serverModel]
  /\ UNCHANGED <<serverModel, shownModel, version, override, switches, modelNews,
                 listed, made, missed>>

\* Faulty variant: past the grace the answer is believed whenever it was asked.
FromReadAnyAge(read) ==
  IF override.fresh /\ read.model # override.model THEN override.model ELSE read.model
\* sessionModelFromRead
FromRead(read) ==
  IF override.fresh /\ read.model # override.model THEN override.model
  ELSE IF version # read.at THEN shownModel ELSE read.model

DropRead(i) == SubSeq(modelReads, 1, i - 1) \o SubSeq(modelReads, i + 1, Len(modelReads))

ReadModel(i) ==
  LET read == modelReads[i]
  IN /\ read.model # NoModel
     /\ modelReads' = DropRead(i)
     /\ UNCHANGED <<serverModel, version, switches, modelNews, listed, made>>
     /\ IF listed
          THEN /\ shownModel' = FromRead(read)
               /\ missed' = (StillMissed(FromRead(read)) \/ (missed /\ DropRead(i) # <<>>))
               /\ override' = IF override.fresh /\ read.model # override.model
                                THEN override ELSE NoOverride
          ELSE UNCHANGED <<shownModel, missed, override>>

\* The read fails, or its list request is no longer the latest.
ReadIgnored(i) ==
  /\ modelReads' = DropRead(i)
  /\ UNCHANGED <<serverModel, shownModel, version, override, switches, modelNews,
                 listed, made, missed>>

-----------------------------------------------------------------------------
\* forgetSessionState, clearSessionModelState: the chat is deleted.
ForgetModel ==
  /\ listed
  /\ listed' = FALSE
  /\ version' = 0
  /\ override' = NoOverride
  /\ UNCHANGED <<serverModel, shownModel, switches, modelReads, modelNews, made,
                 missed>>

SwitchInit ==
  /\ serverModel \in Models /\ shownModel = serverModel
  /\ version = 0 /\ override = NoOverride
  /\ switches = <<>> /\ modelReads = <<>> /\ modelNews = <<>>
  /\ listed = TRUE /\ made = 0 /\ missed = FALSE

SwitchNext ==
  \/ \E m \in Models : SwitchedElsewhere(m) \/ ChangeModel(m)
  \/ SwitchTaken \/ SendSwitch \/ SwitchConfirmed \/ SwitchFails \/ GraceOver
  \/ ApplyServerModel
  \/ StartRead
  \/ \E i \in DOMAIN modelReads : ServerReads(i) \/ ReadModel(i) \/ ReadIgnored(i)
  \/ ForgetModel

SwitchSpec == SwitchInit /\ [][SwitchNext]_switchVars

-----------------------------------------------------------------------------
SwitchTypeOK ==
  /\ serverModel \in Models /\ shownModel \in Models
  /\ version \in Nat /\ made \in 0..MaxSwitches
  /\ override \in [model : Models \cup {NoModel}, fresh : BOOLEAN]
  /\ switches \in Seq([model : Models, stage : {"queued", "sent", "taken"}])
  /\ modelReads \in Seq([at : Nat, model : Models \cup {NoModel}])
  /\ modelNews \in Seq(Models)
  /\ listed \in BOOLEAN /\ missed \in BOOLEAN

\* When nothing is under way, the page shows the model the chat really has: no
\* read that was slow, reordered or older than a switch can put an old model
\* back.  Excused is an event dropped while a switch of the page was under way,
\* until an event, a confirmation or the last read under way makes up for it
\* (sessionModelFromRead, applyServerModel, changeModel).
PanelFollowsServer ==
  listed /\ ~missed /\ switches = <<>> /\ modelReads = <<>> /\ modelNews = <<>>
    => shownModel = serverModel
=============================================================================
