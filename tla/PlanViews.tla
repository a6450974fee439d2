----------------------------- MODULE PlanViews -----------------------------
(***************************************************************************)
(* The plan of a session, on its two sides: config/plugins/visible-plan.js *)
(* publishes it with plan_update and, in strict mode, lets Build use other *)
(* tools only after it; config/plugins/tui/lib/panel-views.jsx shows it,   *)
(* the session's messages and its family.  Two machines: PlanSpec and      *)
(* ViewSpec.                                                               *)
(***************************************************************************)
EXTENDS Naturals, Sequences, FiniteSets

CONSTANTS PlanChats,  \* sessions with a plan
          Askers,     \* agents of the user's messages
          MaxTurns,   \* turns the plugin keeps: 512
          MaxAsks,    \* bound: user messages of a session
          ViewChats,  \* sessions the panels show
          NoViewChat, \* the home screen
          MaxFacts,   \* bound: changes of the sessions
          MaxRoutes,  \* bound: how often the session on screen changes
          MaxMissed   \* bound: reads that fail

ASSUME PlanAssumption == MaxTurns \in Nat \ {0} /\ NoViewChat \notin ViewChats

-----------------------------------------------------------------------------
(* visible-plan.js, strict *)

VARIABLES planAsk,   \* planAsk[s]: the turn, its agent, the user messages in context
          planStep,  \* planStep[s]: the turn, agent and key of the step under way
          planTurns, \* the kept turns [chat, key, planned, gated], oldest first
          outlined,  \* outlined[s]: the turns in which a plan was published
          unplanned  \* [chat, excused]: Build used another tool before its plan

planVars == <<planAsk, planStep, planTurns, outlined, unplanned>>

PlanAgents == {"build", "plan"}
NoStep == [turn |-> 0, agent |-> "none", key |-> 0]

\* The kept turn of a session, if there is one.
KeptTurns(s) == {t \in {planTurns[i] : i \in DOMAIN planTurns} : t.chat = s}
\* Map.set: an entry that is there keeps its place, and its age.
TurnSet(t) ==
  IF KeptTurns(t.chat) = {} THEN Append(planTurns, t)
  ELSE [i \in DOMAIN planTurns |-> IF planTurns[i].chat = t.chat THEN t ELSE planTurns[i]]
TurnsBounded(ts) == IF Len(ts) > MaxTurns THEN Tail(ts) ELSE ts

\* The user says the same words again, maybe to another agent.
UserAsks(s, agent) ==
  /\ planAsk[s].turn < MaxAsks
  /\ planAsk' = [planAsk EXCEPT ![s] = [turn |-> @.turn + 1, agent |-> agent, users |-> @.users + 1]]
  /\ UNCHANGED <<planStep, planTurns, outlined, unplanned>>

\* A compaction takes the older user messages out of the context.
PlanCompacts(s) ==
  /\ planAsk[s].users > 1
  /\ planAsk' = [planAsk EXCEPT ![s].users = 1]
  /\ UNCHANGED <<planStep, planTurns, outlined, unplanned>>

\* Faulty variant: a plan published once counts for every later turn.
StillPlannedEver(s, key) == \E t \in KeptTurns(s) : t.planned
\* turnKey: the number of user messages and the last of them.
StillPlanned(s, key) == \E t \in KeptTurns(s) : t.planned /\ t.key = key

\* The context hook of a step.  An agent that does not plan is not shown
\* plan_update, and leaves the kept turn as it was.
ContextHook(s) ==
  /\ planAsk[s].turn > 0
  /\ planStep' = [planStep EXCEPT ![s] =
       [turn |-> planAsk[s].turn, agent |-> planAsk[s].agent,
        key |-> planAsk[s].users]]
  /\ planTurns' = IF planAsk[s].agent \notin PlanAgents THEN planTurns
              ELSE TurnsBounded(TurnSet(
                     [chat |-> s, key |-> planAsk[s].users,
                      planned |-> StillPlanned(s, planAsk[s].users),
                      gated |-> planAsk[s].agent = "build"]))
  /\ UNCHANGED <<planAsk, outlined, unplanned>>

\* plan_update writes the document and marks the turn; a turn that was forgotten
\* comes back without its gate.
PlanUpdate(s) ==
  /\ planStep[s].agent \in PlanAgents
  /\ outlined' = [outlined EXCEPT ![s] = @ \union {planStep[s].turn}]
  /\ \E marked \in IF KeptTurns(s) = {}
              THEN {[chat |-> s, key |-> 0, planned |-> TRUE, gated |-> FALSE]}
              ELSE {[t EXCEPT !.planned = TRUE] : t \in KeptTurns(s)} :
       planTurns' = TurnSet(marked)
  /\ UNCHANGED <<planAsk, planStep, unplanned>>

\* execute.before lets a tool that is not free through, and Build has no plan.  What
\* excuses it: the turn was forgotten, or looks like an earlier one that had a plan.
ToolGate(s) ==
  /\ planStep[s].turn > 0
  /\ \A t \in KeptTurns(s) : t.gated => t.planned
  /\ planStep[s].agent = "build" /\ planStep[s].turn \notin outlined[s]
  /\ unplanned' = unplanned \union
       {[chat |-> s, excused |-> \/ \A t \in KeptTurns(s) : ~t.gated
                                 \/ outlined[s] # {} /\ planStep[s].key < planStep[s].turn]}
  /\ UNCHANGED <<planAsk, planStep, planTurns, outlined>>

PlanInit ==
  /\ planAsk = [s \in PlanChats |-> [turn |-> 0, agent |-> "build", users |-> 0]]
  /\ planStep = [s \in PlanChats |-> NoStep]
  /\ planTurns = <<>> /\ unplanned = {}
  /\ outlined = [s \in PlanChats |-> {}]

PlanNext ==
  \E s \in PlanChats :
    \/ \E agent \in Askers : UserAsks(s, agent)
    \/ PlanCompacts(s) \/ ContextHook(s) \/ PlanUpdate(s) \/ ToolGate(s)

PlanSpec == PlanInit /\ [][PlanNext]_planVars

PlanTypeOK ==
  /\ \A s \in PlanChats : planAsk[s].turn \in 0..MaxAsks /\ planStep[s].turn <= planAsk[s].turn
  /\ Len(planTurns) <= Cardinality(PlanChats)

(***************************************************************************)
(* In strict mode Build uses a tool that is not free only in a turn whose  *)
(* plan was published, unless its turn was forgotten or, after a           *)
(* compaction, looks like an earlier one.                                  *)
(***************************************************************************)
PlanFirst == \A u \in unplanned : u.excused

-----------------------------------------------------------------------------
(* panel-views.jsx: effects that read, and are run again when the session on *)
(* screen or a version signal changes.  A read counts until its effect runs  *)
(* again.                                                                    *)

VARIABLES viewFacts,  \* viewFacts[s]: plan document (its time), todo list, messages, family
          hosted,     \* the sessions whose messages the host has loaded
          viewNews,   \* events on their way to the panels: "tool" or "tree"
          routedView, \* the session on screen, and how often it changed
          viewLoads,  \* reads that count: [view, chat, was], what there was at their start
          viewShown,  \* what the views hold
          viewMissed  \* views whose last read failed, and failures so far

viewVars == <<viewFacts, hosted, viewNews, routedView, viewLoads, viewShown,
              viewMissed>>

Views == {"document", "todos", "messages", "family"}
Anywhere == ViewChats \union {NoViewChat}
NoTodo == 0

\* A todo list older than the loaded messages is found by reading the history.
OldTodo == MaxFacts + 1

\* What the host's own store says of a session.
StoredIn(loaded, s) ==
  IF s \in loaded THEN [messages |-> viewFacts[s].messages, todo |-> viewFacts[s].todo]
  ELSE [messages |-> 0, todo |-> NoTodo]

\* readV2Plan: the document of the session, on the home screen the newest of all.
PlanOf(s) ==
  IF s \in ViewChats THEN viewFacts[s].document
  ELSE CHOOSE d \in 0..MaxFacts :
         /\ \E c \in ViewChats : viewFacts[c].document = d
         /\ \A c \in ViewChats : viewFacts[c].document <= d
\* The history pages: the session's newest todo list.
TodosOf(s) ==
  IF s = NoViewChat THEN NoTodo
  ELSE IF viewFacts[s].todo # NoTodo THEN viewFacts[s].todo
  ELSE IF viewFacts[s].old THEN OldTodo ELSE NoTodo

CurrentFact(view, s) ==
  CASE view = "document" -> PlanOf(s)
    [] view = "todos" -> TodosOf(s)
    [] view = "family" -> viewFacts[s].family
    [] OTHER -> viewFacts[s].messages

\* Faulty variant: a read counts to its end.
ReadsKept(views) == viewLoads
\* onCleanup: an effect that runs again makes its reads void, and they change nothing
\* any more.
ReadsVoided(views) == {l \in viewLoads : l.view \notin views}
ReadAsked(views, s) == {[view |-> v, chat |-> s, was |-> CurrentFact(v, s)] : v \in views}

\* setVersion: every view looks at the host's store, the plan view also reads the
\* document again; setSessionTreeVersion: the family is read again.
Redrawn(views, s) ==
  /\ viewLoads' = ReadsVoided(views) \union ReadAsked(views, s)
  /\ viewMissed' = [viewMissed EXCEPT !.views = @ \ views]

\* plan_update, todowrite and a new subagent, each reported by an event.
FactChanges(s, fact) ==
  /\ viewFacts[s].at < MaxFacts
  /\ LET at == viewFacts[s].at + 1 IN
       viewFacts' = [c \in ViewChats |->
         IF c # s THEN [viewFacts[c] EXCEPT !.at = at]
         ELSE [[viewFacts[s] EXCEPT !.at = at, !.messages = @ + 1] EXCEPT ![fact] = at]]
  /\ viewNews' = viewNews \union {IF fact = "family" THEN "tree" ELSE "tool"}
  /\ UNCHANGED <<hosted, routedView, viewLoads, viewShown, viewMissed>>

\* The event arrives: the host's store has the change, the views look again.
ViewHears(event) ==
  /\ event \in viewNews /\ viewNews' = viewNews \ {event}
  /\ viewShown' = [viewShown EXCEPT !.store = StoredIn(hosted, routedView.chat),
                !.family = IF event = "tree" THEN 0 ELSE @]
  /\ Redrawn({"document"} \union (IF event = "tree" /\ routedView.chat # NoViewChat
                                  THEN {"family"} ELSE {}), routedView.chat)
  /\ UNCHANGED <<viewFacts, hosted, routedView>>

\* Another session comes on screen.
ViewRoutes(s) ==
  /\ s # routedView.chat /\ routedView.visits < MaxRoutes
  /\ routedView' = [chat |-> s, visits |-> routedView.visits + 1]
  /\ viewShown' = [store |-> StoredIn(hosted, s), plan |-> [chat |-> s, document |-> 0],
               todos |-> NoTodo, family |-> 0]
  /\ viewLoads' = ReadsVoided(Views)
                \union ReadAsked(IF s = NoViewChat THEN {"document"} ELSE Views, s)
  /\ viewMissed' = [viewMissed EXCEPT !.views = {}]
  /\ UNCHANGED <<viewFacts, hosted, viewNews>>

\* An answer is what there was at some time since the start of the read.
ViewAnswers(l) == {l.was, CurrentFact(l.view, l.chat)}

\* The answer of the document or the todo list reaches its view.
LandsPlan(l) ==
  /\ l.view \in {"document", "todos"} /\ viewLoads' = viewLoads \ {l}
  /\ \E value \in ViewAnswers(l) :
       viewShown' = IF routedView.chat # l.chat THEN viewShown
                ELSE IF l.view = "document"
                THEN [viewShown EXCEPT !.plan = [chat |-> l.chat, document |-> value]]
                ELSE [viewShown EXCEPT !.todos = value]
  /\ UNCHANGED <<viewFacts, hosted, viewNews, routedView, viewMissed>>

\* The messages or the family are there: the version changes with them.
LandsVersion(l) ==
  /\ l.view \in {"messages", "family"}
  /\ hosted' = IF l.view = "messages" THEN hosted \union {l.chat} ELSE hosted
  /\ IF routedView.chat # l.chat
     THEN viewLoads' = viewLoads \ {l} /\ UNCHANGED <<viewShown, viewMissed>>
     ELSE /\ \E value \in ViewAnswers(l) :
               viewShown' = [viewShown EXCEPT !.store = StoredIn(hosted', l.chat),
                           !.family = IF l.view = "family" THEN value ELSE @]
          /\ viewLoads' = (ReadsVoided({"document"}) \ {l})
                            \union ReadAsked({"document"}, l.chat)
          /\ viewMissed' = [viewMissed EXCEPT !.views = @ \ {"document"}]
  /\ UNCHANGED <<viewFacts, viewNews, routedView>>

\* A document that cannot be read is shown as none; the other reads leave the view.
ViewReadFails(l) ==
  /\ viewMissed.count < MaxMissed /\ viewLoads' = viewLoads \ {l}
  /\ viewMissed' = [views |-> viewMissed.views \union {l.view},
                    count |-> viewMissed.count + 1]
  /\ viewShown' = IF l.view = "document" /\ routedView.chat = l.chat
              THEN [viewShown EXCEPT !.plan = [chat |-> l.chat, document |-> 0]] ELSE viewShown
  /\ UNCHANGED <<viewFacts, hosted, viewNews, routedView>>

ViewInit ==
  /\ viewFacts \in [ViewChats -> {[at |-> 0, document |-> 0, todo |-> NoTodo, family |-> 0,
                               messages |-> 0, old |-> o] : o \in BOOLEAN}]
  /\ hosted = {} /\ viewNews = {} /\ viewLoads = {}
  /\ routedView = [chat |-> NoViewChat, visits |-> 0]
  /\ viewShown = [store |-> [messages |-> 0, todo |-> NoTodo],
              plan |-> [chat |-> NoViewChat, document |-> 0], todos |-> NoTodo, family |-> 0]
  /\ viewMissed = [views |-> {}, count |-> 0]

ViewNext ==
  \/ \E s \in ViewChats, fact \in {"document", "todo", "family"} : FactChanges(s, fact)
  \/ \E event \in {"tool", "tree"} : ViewHears(event)
  \/ \E s \in Anywhere : ViewRoutes(s)
  \/ \E l \in viewLoads : LandsPlan(l) \/ LandsVersion(l) \/ ViewReadFails(l)

ViewSpec == ViewInit /\ [][ViewNext]_viewVars

ViewTypeOK ==
  /\ hosted \subseteq ViewChats /\ routedView.chat \in Anywhere
  /\ \A l \in viewLoads : l.view \in Views /\ l.chat \in Anywhere
  /\ viewMissed.views \subseteq Views

\* resolvePlanSources: the loaded list, the one of the history, then the document.
PlanShown ==
  IF viewShown.store.todo # NoTodo THEN viewShown.store.todo
  ELSE IF viewShown.todos # NoTodo THEN viewShown.todos
  ELSE IF viewShown.plan.chat = routedView.chat THEN viewShown.plan.document ELSE 0

(***************************************************************************)
(* When nothing is on its way and no read failed, the views show the       *)
(* session on screen as it is: its messages, its todo list or else its     *)
(* plan document, and its family.                                          *)
(***************************************************************************)
ViewsFollow ==
  LET s == routedView.chat IN
    viewNews = {} /\ viewLoads = {} /\ viewMissed.views = {} /\ s \in hosted =>
      /\ viewShown.store.messages = viewFacts[s].messages
      /\ viewShown.family = viewFacts[s].family
      /\ PlanShown = IF TodosOf(s) # NoTodo THEN TodosOf(s) ELSE viewFacts[s].document
=============================================================================
