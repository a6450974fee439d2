---------------------------- MODULE PanelRefresh ----------------------------
(***************************************************************************)
(* app/advanced-features.js and app/refresh-coalescer.js: what surrounds   *)
(* the open chat.  A panel (the server queue, the plan or the children of  *)
(* the chat) is read again on events, after the page changed its data, and *)
(* by a timer; createRefreshCoalescer runs one read at a time.             *)
(***************************************************************************)
EXTENDS Naturals, FiniteSets

CONSTANTS PanelChats, NoPanelChat,
          MaxVisits,    \* bound: how often a chat is opened
          MaxChanges    \* bound: changes of the panel's data on the server

ASSUME PanelAssumption ==
  /\ NoPanelChat \notin PanelChats /\ MaxVisits \in Nat /\ MaxChanges \in Nat

VARIABLES atChat,     \* state.sessionID
          visits,     \* orchestrationRevision
          facts,      \* facts[c]: version of the panel's data on the server
          panel,      \* what the panel shows: the data of a chat, of a version
          panelRead,  \* the refresh under way
          replay,     \* a forced refresh waits for it
          owed        \* version the page was told to show

panelVars == <<atChat, visits, facts, panel, panelRead, replay, owed>>

NoRefresh == [stage |-> "none", chat |-> NoPanelChat, visit |-> 0, version |-> 0]
NewRefresh == [stage |-> "asked", chat |-> atChat, visit |-> visits, version |-> 0]
EmptyPanel == [chat |-> NoPanelChat, version |-> 0]

-----------------------------------------------------------------------------
(* createRefreshCoalescer *)

\* Faulty variant: an answer counts for whatever chat is open.
ThisVisitOrAny(x) == TRUE
\* The guard each answer passes.
OfThisVisit(x) == x.chat = atChat /\ x.visit = visits

\* Faulty variant: a forced refresh during another one is dropped.
ReplayedNever(force) == replay
\* A forced refresh during another one is replayed once; an unforced one joins it.
Replayed(force) == replay \/ force

RefreshPanel(force) ==
  IF panelRead.stage = "none"
  THEN panelRead' = NewRefresh /\ UNCHANGED replay
  ELSE replay' = Replayed(force) /\ UNCHANGED panelRead

\* An event, the visible page, deleteQueue or moveQueue.
ForcedRefresh ==
  /\ atChat # NoPanelChat
  /\ RefreshPanel(TRUE)
  /\ owed' = facts[atChat]
  /\ UNCHANGED <<atChat, visits, facts, panel>>

\* tickMedium
PolledRefresh ==
  /\ atChat # NoPanelChat /\ panelRead.stage = "none"
  /\ RefreshPanel(FALSE)
  /\ UNCHANGED <<atChat, visits, facts, panel, owed>>

FactsChange(c) ==
  /\ facts[c] < MaxChanges
  /\ facts' = [facts EXCEPT ![c] = @ + 1]
  /\ UNCHANGED <<atChat, visits, panel, panelRead, replay, owed>>

ServeRefresh ==
  /\ panelRead.stage = "asked"
  /\ panelRead' = [panelRead EXCEPT !.stage = "served",
                     !.version = facts[panelRead.chat]]
  /\ UNCHANGED <<atChat, visits, facts, panel, replay, owed>>

\* With no chat open the replayed refresh returns at once.
AfterRefresh ==
  /\ panelRead' = IF replay /\ atChat # NoPanelChat THEN NewRefresh ELSE NoRefresh
  /\ replay' = FALSE

RefreshAnswers ==
  /\ panelRead.stage = "served"
  /\ panel' = IF OfThisVisit(panelRead)
              THEN [chat |-> panelRead.chat, version |-> panelRead.version] ELSE panel
  /\ AfterRefresh
  /\ UNCHANGED <<atChat, visits, facts, owed>>

\* A failed read is not repeated; the next one shows the change.
PanelReadFails ==
  /\ panelRead.stage = "asked"
  /\ owed' = IF OfThisVisit(panelRead) /\ ~replay THEN 0 ELSE owed
  /\ AfterRefresh
  /\ UNCHANGED <<atChat, visits, facts, panel>>

-----------------------------------------------------------------------------
(* selectSessionState, refreshSelectedSessionNow *)

OpenPanelChat(c) ==
  /\ c # atChat /\ visits < MaxVisits
  /\ atChat' = c /\ visits' = visits + 1
  /\ panel' = EmptyPanel
  /\ IF c = NoPanelChat THEN owed' = 0 /\ UNCHANGED <<panelRead, replay>>
     ELSE /\ owed' = facts[c]
          /\ IF panelRead.stage = "none"
             THEN panelRead' = [NewRefresh EXCEPT !.chat = c, !.visit = visits + 1] /\ UNCHANGED replay
             ELSE replay' = Replayed(TRUE) /\ UNCHANGED panelRead
  /\ UNCHANGED facts

-----------------------------------------------------------------------------
PanelInit ==
  /\ atChat = NoPanelChat /\ visits = 0
  /\ facts = [c \in PanelChats |-> 0] /\ panel = EmptyPanel
  /\ panelRead = NoRefresh /\ replay = FALSE /\ owed = 0

PanelNext ==
  \/ ForcedRefresh \/ PolledRefresh \/ ServeRefresh \/ RefreshAnswers \/ PanelReadFails
  \/ \E c \in PanelChats \cup {NoPanelChat} : OpenPanelChat(c)
  \/ \E c \in PanelChats : FactsChange(c)

PanelSpec == PanelInit /\ [][PanelNext]_panelVars

\* The panel keeps values of their types.
PanelTypeOK ==
  /\ atChat \in PanelChats \cup {NoPanelChat} /\ visits \in Nat /\ owed \in Nat
  /\ facts \in [PanelChats -> Nat] /\ replay \in BOOLEAN
  /\ panel \in [chat : PanelChats \cup {NoPanelChat}, version : Nat]
  /\ panelRead \in [stage : {"none", "asked", "served"}, chat : PanelChats \cup {NoPanelChat},
                     visit : Nat, version : Nat]
  /\ panelRead.stage # "none" => panelRead.chat \in PanelChats

\* The panel shows the open chat, and with no refresh under way it is as new as
\* the last forced refresh asked for: a change that was reported while another
\* refresh ran is not lost.
PanelFollows ==
  /\ panel.chat \in {atChat, NoPanelChat}
  /\ panelRead.stage = "none" => panel.version >= owed
=============================================================================
