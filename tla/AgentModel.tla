----------------------------- MODULE AgentModel -----------------------------
(***************************************************************************)
(* tui/model-selector.jsx and tui/lib/agent-sync.js: the agent and the     *)
(* model of one session.  Three operations of the terminal change them,    *)
(* each with its own lock and each over several awaits: the model dialog   *)
(* (openDialog), a switch of the agent (sessionAgentAction) and a change   *)
(* of the effort (changeEffort).  They decide on the terminal's copy of    *)
(* the session, which follows the server by events.  A fourth one migrates *)
(* a session of a hidden legacy agent, once.                               *)
(***************************************************************************)
EXTENDS Naturals

CONSTANTS PlainModels, \* models no agent owns
          DndModel,    \* the model the narrator owns
          NoRef,       \* no model, no agent
          MaxChoices   \* bound: operations started

ASSUME AgentModelAssumption ==
  /\ NoRef \notin PlainModels \cup {DndModel} \cup {"build", "legacy", "narrator"}
  /\ DndModel \notin PlainModels /\ PlainModels # {} /\ MaxChoices \in Nat

VARIABLES chatState,   \* agent and model of the session on the server
          chatCopy,    \* context.data.session
          busyTurn,    \* the session's status is running
          agentOp,     \* sessionAgentAction under way (agentSwitching)
          modelOp,     \* openDialog under way (jump.active)
          effortOp,    \* changeEffort under way (effortChanging)
          remembered,  \* savedModels of the session
          lastPlain,   \* the newest recent model no agent owns
          migration,   \* "due", "sent" or "done": migrated
          torn,        \* agent and model may have come apart, see Coherent
          choices      \* operations started, for the bound

agentVars == <<chatState, chatCopy, busyTurn, agentOp, modelOp, effortOp, remembered,
               lastPlain, migration, torn, choices>>

Refs == PlainModels \cup {DndModel}
Agents == {"build", "legacy", "narrator"}
NoChatState == [agent |-> NoRef, model |-> NoRef]
NoAgentOp == [stage |-> "none", to |-> NoRef, model |-> NoRef, clean |-> TRUE]
NoModelOp == [stage |-> "none", model |-> NoRef, to |-> NoRef, before |-> NoRef, clean |-> TRUE]
NoEffortOp == [stage |-> "none", model |-> NoRef, late |-> FALSE]

-----------------------------------------------------------------------------
(* agent-sync.js *)

\* Faulty variant: every visible agent takes every model.
AgentKept(m, agent) == IF agent = "legacy" THEN "build" ELSE NoRef
\* The agent the choice of a model asks for; NoRef keeps the agent.
AgentForModelChoice(m, agent) ==
  CASE m = DndModel -> IF agent = "narrator" THEN NoRef ELSE "narrator"
    [] m # DndModel /\ agent = "narrator" -> "build"
    [] m # DndModel /\ agent = "legacy" -> "build"
    [] OTHER -> NoRef

\* visibleAgent
Visible(agent) == IF agent = "legacy" THEN "build" ELSE agent

\* The model that goes with a switch of the agent; NoRef keeps the model.
ModelForAgentSwitch(from, to, model) ==
  CASE to = "narrator" -> IF model = DndModel THEN NoRef ELSE DndModel
    [] to # "narrator" /\ from = "narrator" /\ model = DndModel ->
         IF remembered # NoRef THEN remembered ELSE lastPlain
    [] OTHER -> NoRef

-----------------------------------------------------------------------------
(* The session on the server, and the terminal's copy *)

AgentWriting == agentOp.stage \in {"agent", "model"}
ModelWriting == modelOp.stage \in {"agent", "model", "back"}

\* A write of the agent or of the model: whoever is between its read and its
\* end no longer knows what it works on.
Apart(op, writing) == IF writing THEN [op EXCEPT !.clean = FALSE] ELSE op
EffortApart == IF effortOp.stage = "write" THEN [effortOp EXCEPT !.late = TRUE] ELSE effortOp

CopyFollows ==
  /\ chatCopy # chatState
  /\ chatCopy' = chatState
  /\ UNCHANGED <<chatState, busyTurn, agentOp, modelOp, effortOp, remembered, lastPlain,
                 migration, torn, choices>>

TurnStartsOrEnds ==
  /\ chatState # NoChatState
  /\ busyTurn' = ~busyTurn
  /\ UNCHANGED <<chatState, chatCopy, agentOp, modelOp, effortOp, remembered, lastPlain,
                 migration, torn, choices>>

-----------------------------------------------------------------------------
(* openDialog *)

OpenModelDialog ==
  /\ modelOp.stage = "none" /\ choices < MaxChoices
  /\ modelOp' = [NoModelOp EXCEPT !.stage = "open"]
  /\ choices' = choices + 1
  /\ UNCHANGED <<chatState, chatCopy, busyTurn, agentOp, effortOp, remembered,
                 lastPlain, migration, torn>>

\* Cancelled, no model, or the lists could not be loaded.  A jump to another
\* category or a toggled favourite opens it again.
CloseModelDialog ==
  /\ modelOp.stage = "open"
  /\ modelOp' = NoModelOp
  /\ UNCHANGED <<chatState, chatCopy, busyTurn, agentOp, effortOp, remembered,
                 lastPlain, migration, torn, choices>>

\* At home the choice creates the session.
ChooseAtHome(m) ==
  /\ modelOp.stage = "open" /\ chatCopy = NoChatState /\ chatState = NoChatState
  /\ chatState' = [agent |-> IF m = DndModel THEN "narrator" ELSE "build", model |-> m]
  /\ lastPlain' = IF m = DndModel THEN lastPlain ELSE m
  /\ modelOp' = NoModelOp
  /\ UNCHANGED <<chatCopy, busyTurn, agentOp, effortOp, remembered, migration, torn,
                 choices>>

ChooseModel(m) ==
  /\ modelOp.stage = "open" /\ chatCopy # NoChatState
  /\ LET to == AgentForModelChoice(m, chatCopy.agent)
     IN modelOp' = [stage |-> IF to = NoRef THEN "model" ELSE "agent", model |-> m,
                    to |-> to, before |-> chatCopy.agent,
                    clean |-> chatCopy = chatState /\ ~AgentWriting]
  /\ UNCHANGED <<chatState, chatCopy, busyTurn, agentOp, effortOp, remembered,
                 lastPlain, migration, torn, choices>>

DialogSwitchesAgent ==
  /\ modelOp.stage = "agent"
  /\ chatState' = [chatState EXCEPT !.agent = modelOp.to]
  /\ modelOp' = [modelOp EXCEPT !.stage = "model"]
  /\ agentOp' = Apart(agentOp, AgentWriting)
  /\ UNCHANGED <<chatCopy, busyTurn, effortOp, remembered, lastPlain, migration, torn,
                 choices>>

DialogSwitchesModel ==
  /\ modelOp.stage = "model"
  /\ chatState' = [chatState EXCEPT !.model = modelOp.model]
  /\ remembered' = NoRef
  /\ lastPlain' = IF modelOp.model = DndModel THEN lastPlain ELSE modelOp.model
  /\ torn' = (~modelOp.clean \/ AgentWriting)
  /\ modelOp' = NoModelOp
  /\ agentOp' = Apart(agentOp, AgentWriting)
  /\ effortOp' = EffortApart
  /\ UNCHANGED <<chatCopy, busyTurn, migration, choices>>

\* The switch of the agent is refused: nothing changed.
DialogAgentRefused ==
  /\ modelOp.stage = "agent"
  /\ modelOp' = NoModelOp
  /\ UNCHANGED <<chatState, chatCopy, busyTurn, agentOp, effortOp, remembered,
                 lastPlain, migration, torn, choices>>

\* Faulty variant: the agent is not put back.
BackFromNowhere(op) == NoModelOp
\* A refused model puts the agent back when the dialog had changed it.
Back(op) == IF op.to = NoRef THEN NoModelOp ELSE [op EXCEPT !.stage = "back"]

DialogModelRefused ==
  /\ modelOp.stage = "model"
  /\ modelOp' = Back(modelOp)
  /\ UNCHANGED <<chatState, chatCopy, busyTurn, agentOp, effortOp, remembered,
                 lastPlain, migration, torn, choices>>

DialogPutsBack ==
  /\ modelOp.stage = "back"
  /\ chatState' = [chatState EXCEPT !.agent = modelOp.before]
  /\ torn' = (torn \/ ~modelOp.clean \/ AgentWriting)
  /\ modelOp' = NoModelOp
  /\ agentOp' = Apart(agentOp, AgentWriting)
  /\ UNCHANGED <<chatCopy, busyTurn, effortOp, remembered, lastPlain, migration,
                 choices>>

\* What cannot be put back stays as it is, and so does what the server did
\* although the answer was lost.
DialogCannotPutBack ==
  /\ modelOp.stage = "back"
  /\ modelOp' = NoModelOp
  /\ torn' = TRUE
  /\ UNCHANGED <<chatState, chatCopy, busyTurn, agentOp, effortOp, remembered,
                 lastPlain, migration, choices>>

DialogAnswerLost ==
  /\ modelOp.stage \in {"agent", "model"}
  /\ IF modelOp.stage = "agent"
     THEN /\ chatState' = [chatState EXCEPT !.agent = modelOp.to]
          /\ modelOp' = NoModelOp /\ UNCHANGED effortOp
     ELSE /\ chatState' = [chatState EXCEPT !.model = modelOp.model]
          /\ modelOp' = Back(modelOp) /\ effortOp' = EffortApart
  /\ torn' = TRUE
  /\ agentOp' = Apart(agentOp, AgentWriting)
  /\ UNCHANGED <<chatCopy, busyTurn, remembered, lastPlain, migration, choices>>

-----------------------------------------------------------------------------
(* sessionAgentAction, switchSessionAgent *)

\* agent.cycle and agent.list; a running session keeps its agent.
StartAgentSwitch ==
  /\ agentOp.stage = "none" /\ choices < MaxChoices
  /\ chatCopy # NoChatState /\ ~busyTurn
  /\ agentOp' = [NoAgentOp EXCEPT !.stage = "picking"]
  /\ choices' = choices + 1
  /\ UNCHANGED <<chatState, chatCopy, busyTurn, modelOp, effortOp, remembered,
                 lastPlain, migration, torn>>

\* Nothing picked, the agent it has already, or an agent another plugin takes over.
AgentSwitchEnds ==
  /\ agentOp.stage = "picking"
  /\ agentOp' = NoAgentOp
  /\ UNCHANGED <<chatState, chatCopy, busyTurn, modelOp, effortOp, remembered,
                 lastPlain, migration, torn, choices>>

PickAgent(to) ==
  /\ agentOp.stage = "picking" /\ to # chatCopy.agent
  /\ LET from == Visible(chatCopy.agent)
         model == ModelForAgentSwitch(from, to, chatCopy.model)
     IN /\ agentOp' = [stage |-> "agent", to |-> to, model |-> model,
                       clean |-> chatCopy = chatState /\ ~ModelWriting /\ migration # "sent"
                                 /\ (from = "narrator" => model # NoRef)]
        /\ remembered' = IF model # NoRef /\ to = "narrator" THEN chatCopy.model ELSE remembered
  /\ UNCHANGED <<chatState, chatCopy, busyTurn, modelOp, effortOp, lastPlain, migration,
                 torn, choices>>

SwitchAgent ==
  /\ agentOp.stage = "agent"
  /\ chatState' = [chatState EXCEPT !.agent = agentOp.to]
  /\ agentOp' = IF agentOp.model = NoRef THEN NoAgentOp ELSE [agentOp EXCEPT !.stage = "model"]
  /\ torn' = (torn \/ (agentOp.model = NoRef /\ (~agentOp.clean \/ ModelWriting)))
  /\ modelOp' = Apart(modelOp, ModelWriting)
  /\ UNCHANGED <<chatCopy, busyTurn, effortOp, remembered, lastPlain, migration,
                 choices>>

SwitchItsModel ==
  /\ agentOp.stage = "model"
  /\ chatState' = [chatState EXCEPT !.model = agentOp.model]
  /\ remembered' = IF agentOp.to = "narrator" THEN remembered ELSE NoRef
  /\ torn' = (torn \/ ~agentOp.clean \/ ModelWriting)
  /\ agentOp' = NoAgentOp
  /\ modelOp' = Apart(modelOp, ModelWriting)
  /\ effortOp' = EffortApart
  /\ UNCHANGED <<chatCopy, busyTurn, lastPlain, migration, choices>>

\* A refused switch of the agent changes nothing; a refused switch of its model
\* leaves the new agent with the old model.
SwitchFailed ==
  /\ AgentWriting
  /\ torn' = (torn \/ agentOp.stage = "model")
  /\ agentOp' = NoAgentOp
  /\ UNCHANGED <<chatState, chatCopy, busyTurn, modelOp, effortOp, remembered,
                 lastPlain, migration, choices>>

-----------------------------------------------------------------------------
(* migrateLegacyAgent *)

Migrate ==
  /\ migration = "due" /\ chatCopy.agent = "legacy" /\ ~busyTurn
  /\ migration' = "sent"
  /\ agentOp' = Apart(agentOp, AgentWriting)
  /\ UNCHANGED <<chatState, chatCopy, busyTurn, modelOp, effortOp, remembered,
                 lastPlain, torn, choices>>

Migrated(taken) ==
  /\ migration = "sent"
  /\ migration' = "done"
  /\ IF taken
     THEN /\ chatState' = [chatState EXCEPT !.agent = "build"]
          /\ torn' = (torn \/ chatState.agent = "narrator")
          /\ agentOp' = Apart(agentOp, AgentWriting)
          /\ modelOp' = Apart(modelOp, ModelWriting)
     ELSE UNCHANGED <<chatState, torn, agentOp, modelOp>>
  /\ UNCHANGED <<chatCopy, busyTurn, effortOp, remembered, lastPlain, choices>>

-----------------------------------------------------------------------------
(* changeEffort *)

OpenEffort ==
  /\ effortOp.stage = "none" /\ choices < MaxChoices /\ chatCopy # NoChatState
  /\ effortOp' = [stage |-> "open", model |-> chatCopy.model, late |-> FALSE]
  /\ choices' = choices + 1
  /\ UNCHANGED <<chatState, chatCopy, busyTurn, agentOp, modelOp, remembered, lastPlain,
                 migration, torn>>

\* At home the effort creates the session with the last selected model.
EffortAtHome ==
  /\ choices < MaxChoices /\ chatCopy = NoChatState /\ chatState = NoChatState
  /\ \E m \in IF lastPlain = NoRef THEN Refs ELSE {lastPlain} :
       chatState' = [agent |-> IF m = DndModel THEN "narrator" ELSE "build", model |-> m]
  /\ choices' = choices + 1
  /\ UNCHANGED <<chatCopy, busyTurn, agentOp, modelOp, effortOp, remembered, lastPlain,
                 migration, torn>>

\* Faulty variant: the choice is applied to whatever the session runs by now.
OffersAny(op) == TRUE
\* The dialog can outlive the model it was opened for.
StillOffered(op) == chatCopy.model = op.model

\* Without a choice, or in another route or with another model, nothing is sent.
ChooseEffort ==
  /\ effortOp.stage = "open"
  /\ effortOp' = IF StillOffered(effortOp)
                 THEN [effortOp EXCEPT !.stage = "write", !.late = chatCopy # chatState]
                 ELSE NoEffortOp
  /\ UNCHANGED <<chatState, chatCopy, busyTurn, agentOp, modelOp, remembered, lastPlain,
                 migration, torn, choices>>

EffortEnds ==
  /\ effortOp.stage # "none"
  /\ effortOp' = NoEffortOp
  /\ UNCHANGED <<chatState, chatCopy, busyTurn, agentOp, modelOp, remembered, lastPlain,
                 migration, torn, choices>>

\* The effort is sent as a switch to its model.
SwitchEffort ==
  /\ effortOp.stage = "write"
  /\ chatState' = [chatState EXCEPT !.model = effortOp.model]
  /\ torn' = (torn \/ effortOp.model # chatState.model)
  /\ effortOp' = NoEffortOp
  /\ UNCHANGED <<chatCopy, busyTurn, agentOp, modelOp, remembered, lastPlain, migration,
                 choices>>

-----------------------------------------------------------------------------
AgentModelInit ==
  /\ \E m \in PlainModels :
       chatState \in {NoChatState, [agent |-> "legacy", model |-> m],
                      [agent |-> "build", model |-> m], [agent |-> "narrator", model |-> DndModel]}
  /\ chatCopy = chatState /\ busyTurn = FALSE
  /\ agentOp = NoAgentOp /\ modelOp = NoModelOp /\ effortOp = NoEffortOp
  /\ remembered = NoRef /\ lastPlain \in {NoRef, CHOOSE m \in PlainModels : TRUE}
  /\ migration = "due" /\ torn = FALSE /\ choices = 0

AgentModelNext ==
  \/ CopyFollows \/ TurnStartsOrEnds
  \/ OpenModelDialog \/ CloseModelDialog
  \/ \E m \in Refs : ChooseAtHome(m) \/ ChooseModel(m)
  \/ DialogSwitchesAgent \/ DialogSwitchesModel \/ DialogAgentRefused \/ DialogModelRefused
  \/ DialogPutsBack \/ DialogCannotPutBack \/ DialogAnswerLost
  \/ StartAgentSwitch \/ AgentSwitchEnds \/ SwitchAgent \/ SwitchItsModel \/ SwitchFailed
  \/ \E to \in {"build", "narrator"} : PickAgent(to)
  \/ Migrate \/ \E taken \in BOOLEAN : Migrated(taken)
  \/ OpenEffort \/ EffortAtHome \/ ChooseEffort \/ EffortEnds \/ SwitchEffort

AgentModelSpec == AgentModelInit /\ [][AgentModelNext]_agentVars

\* The operations and the session keep values of their types.
AgentModelTypeOK ==
  /\ chatState \in {NoChatState} \cup [agent : Agents, model : Refs]
  /\ chatCopy \in {NoChatState} \cup [agent : Agents, model : Refs]
  /\ busyTurn \in BOOLEAN /\ torn \in BOOLEAN /\ choices \in Nat
  /\ migration \in {"due", "sent", "done"}
  /\ remembered \in Refs \cup {NoRef} /\ lastPlain \in PlainModels \cup {NoRef}
  /\ agentOp \in [stage : {"none", "picking", "agent", "model"}, to : Agents \cup {NoRef},
                  model : Refs \cup {NoRef}, clean : BOOLEAN]
  /\ modelOp \in [stage : {"none", "open", "agent", "model", "back"}, model : Refs \cup {NoRef},
                  to : Agents \cup {NoRef}, before : Agents \cup {NoRef}, clean : BOOLEAN]
  /\ effortOp \in [stage : {"none", "open", "write"}, model : Refs \cup {NoRef}, late : BOOLEAN]

\* The narrator runs its own model and no other agent does, once no operation is
\* under way; unless two of them overlapped, one read a stale copy, a step failed
\* that nothing undoes, or there was no model to go back to.  A model chosen
\* afterwards puts it right.
Coherent ==
  ~AgentWriting /\ ~ModelWriting /\ ~torn =>
    (chatState.agent = "narrator" <=> chatState.model = DndModel)

\* An effort about to be sent belongs to the session's model, unless the model
\* changed after the choice was checked.
EffortFits ==
  effortOp.stage = "write" /\ ~effortOp.late => effortOp.model = chatState.model

\* What a session runs under fits together.
AgentFitsModel == Coherent /\ EffortFits
=============================================================================
