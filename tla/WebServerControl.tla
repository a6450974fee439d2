-------------------------- MODULE WebServerControl --------------------------
(***************************************************************************)
(* config/plugins/tui/server-wizard.js, webserver-wizard.js and            *)
(* lib/webserver-control.js: the TUI's wizards for the web server.  Each   *)
(* runs scripts/webserver-control.py for a status and for every change; a  *)
(* change is several steps, may fail between them, and is killed on its    *)
(* timeout.  /server is a menu that reads the status again after each      *)
(* choice, /webserver asks once for both settings.                         *)
(***************************************************************************)
EXTENDS Naturals, FiniteSets, Sequences

CONSTANTS FoundServices, \* the services the wizards may find first
          Wizards,
          Menus,         \* the wizards that are a menu: /server
          Users,
          MaxControls    \* bound: changes asked for

ASSUME WebServerAssumption ==
  /\ Menus \subseteq Wizards /\ MaxControls \in Nat
  /\ FoundServices \subseteq [deployed : BOOLEAN, running : BOOLEAN, autostart : BOOLEAN]

VARIABLES webServer, \* the service
          webUsers,  \* the user store
          wizards,   \* wizards[w]: the open wizard
          control,   \* control[w]: the control command it runs
          controls,  \* changes asked for
          alone,     \* alone[w]: every change since it opened is w's and succeeded
          reverted   \* a wizard that was alone undid a setting it did not mean

webServerVars == <<webServer, webUsers, wizards, control, controls, alone, reverted>>

Services == [deployed : BOOLEAN, running : BOOLEAN, autostart : BOOLEAN]
Closed == [at |-> "closed", seen |-> [deployed |-> FALSE, running |-> FALSE, autostart |-> FALSE],
           listed |-> {}]
NoControl == [kind |-> "none", running |-> FALSE, autostart |-> FALSE, user |-> {}, todo |-> <<>>]

Apply == <<"enable", "run">>
MenuIdle(w) == control[w].kind = "none"

\* runControl, for a change
RunControl(w, c) ==
  /\ controls < MaxControls /\ controls' = controls + 1
  /\ control' = [control EXCEPT ![w] = c]
  /\ wizards' = [wizards EXCEPT ![w].at = "busy"]
  /\ UNCHANGED <<webServer, webUsers, alone, reverted>>

-----------------------------------------------------------------------------
(* openWizard, deployFlow, menuLoop *)

\* A second opening only says that the wizard is open.
OpenWizard(w) ==
  /\ wizards[w].at = "closed"
  /\ wizards' = [wizards EXCEPT ![w].at = "opening"]
  /\ alone' = [alone EXCEPT ![w] = TRUE]
  /\ UNCHANGED <<webServer, webUsers, control, controls, reverted>>

StatusAnswers(w) ==
  /\ wizards[w].at \in {"opening", "refresh"}
  /\ wizards' = [wizards EXCEPT ![w] =
       [at |-> IF webServer.deployed \/ @.at = "refresh" THEN "menu" ELSE "deploy",
        seen |-> webServer, listed |-> {}]]
  /\ UNCHANGED <<webServer, webUsers, control, controls, alone, reverted>>

\* Without its first status the wizard closes; later it keeps the old one.
StatusFails(w) ==
  /\ wizards[w].at \in {"opening", "refresh"}
  /\ wizards' = [wizards EXCEPT ![w] = IF @.at = "opening" THEN Closed
                                       ELSE [@ EXCEPT !.at = "menu", !.listed = {}]]
  /\ alone' = [alone EXCEPT ![w] = FALSE]
  /\ UNCHANGED <<webServer, webUsers, control, controls, reverted>>

CloseWizard(w) ==
  /\ wizards[w].at \in {"menu", "deploy"}
  /\ wizards' = [wizards EXCEPT ![w] = Closed]
  /\ UNCHANGED <<webServer, webUsers, control, controls, alone, reverted>>

Deploy(w, run, auto) ==
  /\ wizards[w].at = "deploy"
  /\ RunControl(w, [NoControl EXCEPT !.kind = "deploy", !.running = run, !.autostart = auto,
                                     !.todo = <<"install">> \o Apply])

\* doToggle: the autostart it sends is the one of the status it shows.
ToggleServer(w, run) ==
  /\ wizards[w].at = "menu" /\ w \in Menus
  /\ RunControl(w, [NoControl EXCEPT !.kind = "toggle", !.running = run,
                      !.autostart = wizards[w].seen.autostart, !.todo = Apply])

\* doAutostart: the command reads the running state itself.
Autostart(w, auto) ==
  /\ wizards[w].at = "menu" /\ w \in Menus
  /\ RunControl(w, [NoControl EXCEPT !.kind = "default", !.autostart = auto,
                                     !.todo = <<"read">> \o Apply])

\* The other wizard asks for both.
ApplyBoth(w, run, auto) ==
  /\ wizards[w].at = "menu" /\ w \notin Menus
  /\ RunControl(w, [NoControl EXCEPT !.kind = "apply", !.running = run, !.autostart = auto,
                                     !.todo = Apply])

\* doPort restarts a running service.
ChangePort(w) ==
  /\ wizards[w].at = "menu" /\ w \in Menus
  /\ RunControl(w, [NoControl EXCEPT !.kind = "port", !.todo = <<"restart">>])

AddUser(w, u) ==
  /\ wizards[w].at = "menu" /\ w \in Menus
  /\ RunControl(w, [NoControl EXCEPT !.kind = "user-add", !.user = {u}, !.todo = <<"add">>])

\* doRemoveUser offers the users it listed.
ListUsers(w) ==
  /\ wizards[w].at = "menu" /\ w \in Menus /\ wizards[w].listed = {} /\ webUsers # {}
  /\ wizards' = [wizards EXCEPT ![w].listed = webUsers]
  /\ UNCHANGED <<webServer, webUsers, control, controls, alone, reverted>>

RemoveUser(w, u) ==
  /\ wizards[w].at = "menu" /\ u \in wizards[w].listed
  /\ RunControl(w, [NoControl EXCEPT !.kind = "user-remove", !.user = {u}, !.todo = <<"remove">>])

-----------------------------------------------------------------------------
(* scripts/webserver-control.py *)

\* A step that cannot be done: the user exists already, or is gone.
Refused(c) ==
  \/ Head(c.todo) = "add" /\ c.user \subseteq webUsers
  \/ Head(c.todo) = "remove" /\ c.user \cap webUsers = {}

\* What the first step of command c leaves.
ControlEffect(c) ==
  LET step == Head(c.todo) IN
  /\ webServer' =
       CASE step = "install" -> [webServer EXCEPT !.deployed = TRUE]
         [] step = "enable"  -> [webServer EXCEPT !.autostart = c.autostart]
         [] step = "run"     -> [webServer EXCEPT !.running = c.running]
         [] OTHER            -> webServer
  /\ webUsers' = CASE step = "add"    -> webUsers \cup c.user
                   [] step = "remove" -> webUsers \ c.user
                   [] OTHER           -> webUsers

NotAlone(w) == [v \in Wizards |-> alone[v] /\ v = w]

Steps(w) ==
  /\ ~MenuIdle(w) /\ control[w].todo # <<>> /\ ~Refused(control[w])
  /\ ControlEffect(control[w])
  /\ control' = [control EXCEPT ![w].todo = Tail(@),
       ![w].running = IF Head(control[w].todo) = "read" THEN webServer.running ELSE @]
  /\ alone' = NotAlone(w)
  /\ reverted' = (reverted \/ (/\ control[w].kind = "toggle" /\ alone[w]
                               /\ webServer'.autostart # webServer.autostart))
  /\ UNCHANGED <<wizards, controls>>

-----------------------------------------------------------------------------
(* The end of a command *)

\* Faulty variant: the menu goes on with the status it has.
BackToOld(w) == IF w \in Menus /\ control[w].kind # "deploy" THEN "menu" ELSE "closed"
\* The menu reads the status again; the other wizard and a deployment end.
AfterControl(w) == IF w \in Menus /\ control[w].kind # "deploy" THEN "refresh" ELSE "closed"

Ends(w) ==
  /\ control' = [control EXCEPT ![w] = NoControl]
  /\ wizards' = [wizards EXCEPT ![w] =
       IF AfterControl(w) = "closed" THEN Closed ELSE [@ EXCEPT !.at = AfterControl(w)]]

ControlSucceeds(w) ==
  /\ ~MenuIdle(w) /\ control[w].todo = <<>>
  /\ Ends(w)
  /\ UNCHANGED <<webServer, webUsers, controls, alone, reverted>>

\* A step fails, or the process group is killed on the timeout: the steps done
\* so far stay.
ControlFails(w) ==
  /\ ~MenuIdle(w)
  /\ Ends(w)
  /\ alone' = [alone EXCEPT ![w] = FALSE]
  /\ UNCHANGED <<webServer, webUsers, controls, reverted>>

-----------------------------------------------------------------------------
WebServerInit ==
  /\ webServer \in FoundServices
  /\ webUsers = {} /\ controls = 0 /\ reverted = FALSE
  /\ wizards = [w \in Wizards |-> Closed] /\ control = [w \in Wizards |-> NoControl]
  /\ alone = [w \in Wizards |-> TRUE]

WebServerNext ==
  \/ \E w \in Wizards :
       \/ OpenWizard(w) \/ StatusAnswers(w) \/ StatusFails(w) \/ CloseWizard(w)
       \/ ChangePort(w) \/ ListUsers(w)
       \/ \E run, auto \in BOOLEAN : Deploy(w, run, auto) \/ ApplyBoth(w, run, auto)
       \/ \E on \in BOOLEAN : ToggleServer(w, on) \/ Autostart(w, on)
       \/ \E u \in Users : AddUser(w, u) \/ RemoveUser(w, u)
       \/ Steps(w) \/ ControlSucceeds(w) \/ ControlFails(w)

WebServerSpec == WebServerInit /\ [][WebServerNext]_webServerVars

\* A wizard runs a command exactly while it is busy.
WebServerTypeOK ==
  /\ webServer \in Services /\ webUsers \subseteq Users
  /\ controls \in 0..MaxControls /\ alone \in [Wizards -> BOOLEAN] /\ reverted \in BOOLEAN
  /\ \A w \in Wizards :
       /\ wizards[w].at \in {"closed", "opening", "deploy", "menu", "refresh", "busy"}
       /\ ~MenuIdle(w) <=> wizards[w].at = "busy"

\* Starting or stopping the server from the menu leaves the autostart as it is,
\* unless another wizard changed it meanwhile, a command of this one failed or
\* its status could not be read again.
AutostartStays == ~reverted
=============================================================================
