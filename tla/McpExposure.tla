---------------------------- MODULE McpExposure ----------------------------
(***************************************************************************)
(* config/plugins/config-manager.js with tui/lib/mcp-profiles.js and       *)
(* tui/lib/mcp-discovery.js: which MCP tools a model request shows.  A     *)
(* request starts with the tools of the connected servers; the context     *)
(* hook observes the MCP status, walks to the session's profile and keeps  *)
(* the tools of that profile.  Too many of them are deferred: mcp_discover *)
(* picks the working set of the next request.                              *)
(***************************************************************************)
EXTENDS Naturals, FiniteSets

CONSTANTS McpTools, McpProfiles,
          ToolsOf,        \* ToolsOf[p]: the tools of the servers of profile p
          DndTools,       \* the allowlist of a game session
          Callers, ParentOf, NoCaller,
          MaxEager,       \* McpDiscovery.maxTools, and the schema size
          MaxKnown,       \* sessions McpDiscovery remembers
          MaxAlterations, \* bound: choices, switches, status changes
          MaxModelSteps   \* bound: requests

Unset == "unset"
DndLazy == "dnd-lazy"

\* The two labels are no profiles of the settings.
ASSUME McpExposureAssumption ==
  /\ {Unset, DndLazy} \cap McpProfiles = {}
  /\ ToolsOf \in [McpProfiles -> SUBSET McpTools]
  /\ DndTools \subseteq McpTools /\ NoCaller \notin Callers
  /\ ParentOf \in [Callers -> Callers \cup {NoCaller}]
  /\ MaxEager \in Nat /\ MaxKnown \in Nat \ {0} /\ MaxAlterations \in Nat /\ MaxModelSteps \in Nat

VARIABLES chosenMcp,   \* mcpSettings.sessions: chosen[s], or Unset
          connected,   \* the tools the host can offer
          enabled,     \* the tools of the servers no /mcp choice turned off
          alterations, modelSteps,
          reloadDue,   \* a saved change waits for reloadAll
          parentsRead, \* the sessions whose parent has been read
          mcpObserved, \* the sessions the MCP status was read for
          discoveries, \* McpDiscovery.sessions: <<session, snapshot>>, oldest first
          request,     \* request[s]: the hook of the session's request
          exposure,    \* exposure[s]: what the last request showed
          promised     \* what mcp_discover promised for the next request

mcpVars == <<chosenMcp, connected, enabled, alterations, modelSteps, reloadDue,
             parentsRead, mcpObserved, discoveries, request, exposure, promised>>

NoRequest == [at |-> "none", tools |-> {}, game |-> FALSE, reached |-> NoCaller,
              seen |-> [s \in Callers |-> Unset]]
NoPromise == [tools |-> {}, profile |-> Unset, due |-> FALSE]
NothingShown == [profile |-> Unset, wanted |-> {}, tools |-> {}]

-----------------------------------------------------------------------------
(* McpDiscovery *)

StepSnapshots(s) == {i \in DOMAIN discoveries : discoveries[i].session = s}
Known(s) == StepSnapshots(s) # {}
Snapshot(s) == discoveries[CHOOSE i \in StepSnapshots(s) : TRUE]

\* Faulty variant: a request starts with an empty working set.
SelectedAfresh(s, offered) == {}
\* What was discovered survives as far as the request offers it.
Selected(s, offered) == IF Known(s) THEN Snapshot(s).selected \cap offered ELSE {}

\* A known session keeps its age; a new one pushes the oldest out.
Remember(s, snapshot) ==
  LET all == IF Known(s)
             THEN [i \in DOMAIN discoveries |->
                      IF i \in StepSnapshots(s) THEN snapshot ELSE discoveries[i]]
             ELSE [i \in 1..(Cardinality(DOMAIN discoveries) + 1) |->
                     IF i \in DOMAIN discoveries THEN discoveries[i] ELSE snapshot]
  IN IF Cardinality(DOMAIN all) > MaxKnown
     THEN [i \in 1..MaxKnown |-> all[i + 1]] ELSE all

Lazy(offered) == Cardinality(offered) > MaxEager

\* mcp_discover of a session's turn: the matches replace the working set.
Discover(s, matches) ==
  /\ request[s].at = "none" /\ Known(s)
  /\ matches \subseteq Snapshot(s).definitions /\ Cardinality(matches) \in 1..MaxEager
  /\ discoveries' = Remember(s, [Snapshot(s) EXCEPT !.selected = matches])
  /\ promised' = [promised EXCEPT ![s] = [tools |-> matches, profile |-> Snapshot(s).profile,
                                           due |-> TRUE]]
  /\ UNCHANGED <<chosenMcp, connected, enabled, alterations, modelSteps, reloadDue,
                 parentsRead, mcpObserved, request, exposure>>

-----------------------------------------------------------------------------
(* The context hook *)

\* Faulty variant: only the session's own choice counts.
AboveNobody(s) == NoCaller
\* The session modeFor asks next.
Above(s) == ParentOf[s]

RequestStarts(s, game) ==
  /\ request[s].at = "none" /\ modelSteps < MaxModelSteps
  /\ modelSteps' = modelSteps + 1
  /\ request' = [request EXCEPT ![s] =
       [NoRequest EXCEPT !.at = IF s \in mcpObserved THEN "observed" ELSE "observe",
                         !.tools = connected, !.game = game]]
  /\ UNCHANGED <<chosenMcp, connected, enabled, alterations, reloadDue, parentsRead,
                 mcpObserved, discoveries, exposure, promised>>

\* A status change while the list is read is not observed again.
ObserveMcp(s) ==
  /\ request[s].at = "observe"
  /\ mcpObserved' = mcpObserved \cup {s}
  /\ request' = [request EXCEPT ![s].at = "observed"]
  /\ UNCHANGED <<chosenMcp, connected, enabled, alterations, modelSteps, reloadDue,
                 parentsRead, discoveries, exposure, promised>>

\* modeFor works on the settings of the moment it starts.
ModeFor(s) ==
  /\ request[s].at = "observed" /\ ~request[s].game
  /\ request' = [request EXCEPT ![s].at = "mode", ![s].reached = s, ![s].seen = chosenMcp]
  /\ UNCHANGED <<chosenMcp, connected, enabled, alterations, modelSteps, reloadDue,
                 parentsRead, mcpObserved, discoveries, exposure, promised>>

\* No choice here: the parent, read once per session, is next.
WalkUp(s) ==
  /\ request[s].at = "mode"
  /\ LET t == request[s].reached IN
       /\ t # NoCaller /\ request[s].seen[t] = Unset
       /\ parentsRead' = parentsRead \cup {t}
       /\ request' = [request EXCEPT ![s].reached = Above(t)]
  /\ UNCHANGED <<chosenMcp, connected, enabled, alterations, modelSteps, reloadDue,
                 mcpObserved, discoveries, exposure, promised>>

\* The status or the parent could not be read: the hook throws.
HookFails(s) ==
  /\ \/ request[s].at = "observe"
     \/ /\ request[s].at = "mode" /\ request[s].reached \in Callers \ parentsRead
        /\ request[s].seen[request[s].reached] = Unset
  /\ request' = [request EXCEPT ![s] = NoRequest]
  /\ UNCHANGED <<chosenMcp, connected, enabled, alterations, modelSteps, reloadDue,
                 parentsRead, mcpObserved, discoveries, exposure, promised>>

\* The sessions asked for a choice: s, and the parent of one that has none.
SessionsAsked(s, c) ==
  {t \in Callers : \A S \in SUBSET Callers :
     s \in S /\ (\A u \in S : c[u] = Unset /\ ParentOf[u] # NoCaller => ParentOf[u] \in S)
       => t \in S}
\* The choice of the session or of the nearest ancestor that has one.
Inherited(s, c) == {c[t] : t \in SessionsAsked(s, c)} \ {Unset}

\* filterMcpTools or filterDndTools, and McpDiscovery.update.
ShowTools(s, profile, offered, visible) ==
  /\ discoveries' = Remember(s, [session |-> s, definitions |-> offered,
                             selected |-> Selected(s, offered), profile |-> profile])
  /\ exposure' = [exposure EXCEPT ![s] =
       [profile |-> profile, tools |-> visible,
        wanted |-> IF request[s].game THEN {DndLazy} ELSE Inherited(s, request[s].seen)]]
  /\ promised' = [t \in Callers |->
       IF ~\E i \in DOMAIN discoveries' : discoveries'[i].session = t THEN NoPromise
       ELSE IF t # s THEN promised[t]
       ELSE IF promised[s].profile = profile
       THEN [promised[s] EXCEPT !.tools = @ \cap offered, !.due = FALSE]
       ELSE NoPromise]
  /\ request' = [request EXCEPT ![s] = NoRequest]
  /\ UNCHANGED <<chosenMcp, connected, enabled, alterations, modelSteps, reloadDue,
                 parentsRead, mcpObserved>>

\* An unset mode is resolved from the agent and the words of the prompt.
ShowProfile(s, auto) ==
  /\ request[s].at = "mode"
  /\ LET t == request[s].reached
         mode == IF t = NoCaller THEN Unset ELSE request[s].seen[t]
         profile == IF mode = Unset THEN auto ELSE mode
         offered == request[s].tools \cap ToolsOf[profile] \cap enabled
     IN /\ t = NoCaller \/ mode # Unset
        /\ ShowTools(s, profile, offered,
                IF Lazy(offered) THEN Selected(s, offered) ELSE offered)

\* A game session keeps its allowlist, and nothing of it is deferred.
ShowGame(s) ==
  /\ request[s].at = "observed" /\ request[s].game
  /\ LET offered == request[s].tools \cap DndTools IN ShowTools(s, DndLazy, offered, offered)

-----------------------------------------------------------------------------
(* What happens around it *)

\* /mcp-profile: the choice is in the registry; its command then saves it and
\* reloads everything.
ChooseProfile(s, p) ==
  /\ ~reloadDue /\ alterations < MaxAlterations /\ p # chosenMcp[s]
  /\ alterations' = alterations + 1 /\ reloadDue' = TRUE
  /\ chosenMcp' = [chosenMcp EXCEPT ![s] = p]
  /\ UNCHANGED <<connected, enabled, modelSteps, parentsRead, mcpObserved, discoveries,
                 request, exposure, promised>>

\* reloadAll forgets what was discovered and observed.
ReloadAll ==
  /\ reloadDue
  /\ reloadDue' = FALSE
  /\ discoveries' = <<>> /\ mcpObserved' = {}
  /\ promised' = [s \in Callers |-> NoPromise]
  /\ UNCHANGED <<chosenMcp, connected, enabled, alterations, modelSteps, parentsRead,
                 request, exposure>>

\* ctx.mcp.transform on a /mcp choice of a server: it is installed disabled, or again.
ToggleTool(t) ==
  /\ ~reloadDue /\ alterations < MaxAlterations
  /\ alterations' = alterations + 1
  /\ enabled' = IF t \in enabled THEN enabled \ {t} ELSE enabled \cup {t}
  /\ connected' = connected \cap enabled'
  /\ UNCHANGED <<chosenMcp, modelSteps, parentsRead, mcpObserved, discoveries, request,
                 exposure, promised>>

\* /mcp-toggle reloads everything, the choice of another folder only the servers.
ToggleHere(t) == ToggleTool(t) /\ reloadDue' = TRUE
ToggleElsewhere(t) == ToggleTool(t) /\ UNCHANGED reloadDue

\* mcp.status.changed, mcp.tools.changed
StatusChanges(t) ==
  /\ t \in enabled /\ alterations < MaxAlterations
  /\ alterations' = alterations + 1
  /\ connected' = IF t \in connected THEN connected \ {t} ELSE connected \cup {t}
  /\ mcpObserved' = {}
  /\ UNCHANGED <<chosenMcp, enabled, modelSteps, reloadDue, parentsRead, discoveries,
                 request, exposure, promised>>

-----------------------------------------------------------------------------
ExposureInit ==
  /\ chosenMcp = [s \in Callers |-> Unset] /\ alterations = 0 /\ modelSteps = 0 /\ reloadDue = FALSE
  /\ connected = McpTools /\ enabled = McpTools
  /\ parentsRead = {} /\ mcpObserved = {} /\ discoveries = <<>>
  /\ request = [s \in Callers |-> NoRequest]
  /\ exposure = [s \in Callers |-> NothingShown]
  /\ promised = [s \in Callers |-> NoPromise]

ExposureNext ==
  \/ \E s \in Callers :
       \/ ObserveMcp(s) \/ ModeFor(s) \/ WalkUp(s) \/ HookFails(s) \/ ShowGame(s)
       \/ \E game \in BOOLEAN : RequestStarts(s, game)
       \/ \E p \in McpProfiles : ShowProfile(s, p) \/ ChooseProfile(s, p)
       \/ \E matches \in SUBSET McpTools : Discover(s, matches)
  \/ \E t \in McpTools : ToggleHere(t) \/ ToggleElsewhere(t) \/ StatusChanges(t)
  \/ ReloadAll

ExposureSpec == ExposureInit /\ [][ExposureNext]_mcpVars

\* The exposure keeps values of their types, and McpDiscovery its bound.
ExposureTypeOK ==
  /\ chosenMcp \in [Callers -> McpProfiles \cup {Unset}]
  /\ alterations \in 0..MaxAlterations /\ modelSteps \in 0..MaxModelSteps
  /\ connected \subseteq enabled /\ enabled \subseteq McpTools
  /\ reloadDue \in BOOLEAN /\ parentsRead \subseteq Callers /\ mcpObserved \subseteq Callers
  /\ DOMAIN discoveries \subseteq 1..MaxKnown
  /\ \A i, j \in DOMAIN discoveries : discoveries[i].session = discoveries[j].session => i = j
  /\ request \in [Callers -> [at : {"none", "observe", "observed", "mode"},
                               tools : SUBSET McpTools, game : BOOLEAN,
                               reached : Callers \cup {NoCaller},
                               seen : [Callers -> McpProfiles \cup {Unset}]]]

\* A request shows only tools of its profile, and a session nobody chose a
\* profile for has that of its nearest ancestor.
ShownIsInherited ==
  \A s \in Callers :
    LET e == exposure[s] IN
      /\ e.wanted \subseteq {e.profile}
      /\ e.profile \in McpProfiles => e.tools \subseteq ToolsOf[e.profile]

\* What mcp_discover promised for the next step is shown by it and by the later
\* ones while the session keeps its profile, until the next discovery.
PromiseKept ==
  \A s \in Callers : ~promised[s].due => promised[s].tools \subseteq exposure[s].tools
ExposureSound == ShownIsInherited /\ PromiseKept
=============================================================================
