----------------------------- MODULE DndTables -----------------------------
(***************************************************************************)
(* Whose table it is: config/plugins/dnd-watch.js keeps one table per      *)
(* narrator session and at most one waiting entry per session.  A session  *)
(* that connects to a campaign, starts an explicit wait or is switched to  *)
(* auto by the operator takes the campaign; the others' waits stop and     *)
(* their automatic re-arms stay off.  An automatic wait that fires awaits  *)
(* the delivery of its wake and waits again when that fails.  What a wait  *)
(* reads is in DndWait.                                                    *)
(***************************************************************************)
EXTENDS Naturals, FiniteSets

CONSTANTS Narrators,  \* sessions
          Campaigns,  \* campaigns of ODM
          NoNarrator, \* no session
          NoCampaign  \* no campaign

ASSUME DndTablesAssumption == NoNarrator \notin Narrators /\ NoCampaign \notin Campaigns

VARIABLES tables,      \* tables: campaign, cursor, auto flag and context
          waits,       \* the watcher's entries; passed by: claimed while its wake was under way
          owners,      \* who explicitly took a campaign
          takeOvers,   \* takeOver calls that await session.get
          arms         \* arm calls that await session.get, with their campaign

dndTablesVars == <<tables, waits, owners, takeOvers, arms>>

NoTable == [campaign |-> NoCampaign, cursor |-> FALSE, auto |-> TRUE, context |-> FALSE]
Idle == [campaign |-> NoCampaign, auto |-> FALSE, waking |-> FALSE, passed |-> FALSE]
WaitFor(c, auto) == [Idle EXCEPT !.campaign = c, !.auto = auto]
HasEntry(s) == waits[s].campaign # NoCampaign
Waiting(s) == HasEntry(s) /\ ~waits[s].waking

\* claim: s takes campaign c and the other waits there stop.  An entry whose wake is
\* under way is not waiting: claim passes it by.
ClaimedWaits(c, s) ==
  [t \in Narrators |->
     IF t = s \/ waits[t].campaign # c THEN waits[t]
     ELSE IF waits[t].waking THEN [waits[t] EXCEPT !.passed = TRUE] ELSE Idle]
Claim(c, s) == owners' = [owners EXCEPT ![c] = s]

\* drop: the sessions' waits and ownership go.
Without(who) == [c \in Campaigns |-> IF owners[c] \in who THEN NoNarrator ELSE owners[c]]

\* arm: an automatic wait for a table that is on, unless the session waits.
MayArm(s) ==
  /\ tables[s].auto /\ tables[s].context /\ tables[s].cursor
  /\ tables[s].campaign # NoCampaign /\ ~Waiting(s)
ArmBegins(s) ==
  arms' = IF MayArm(s) THEN [arms EXCEPT ![s] = @ \cup {tables[s].campaign}] ELSE arms

\* Faulty variant: an automatic re-arm does not look who took the campaign.
MayStartAnyway(s, c) == TRUE
\* start with auto: not where another session took the campaign.
MayStart(s, c) == owners[c] \in {s, NoNarrator}

\* The arm call works on the table's object: its campaign follows the table, and
\* stays as it was when the table is gone.
ArmedFor(s, c) ==
  [arms EXCEPT ![s] = IF @ # {} /\ tables[s].campaign \in @ THEN {c} ELSE @]

-----------------------------------------------------------------------------
(* The narrator's calls *)

\* remember: the table of a session that called ODM about c; a drained read sets the
\* cursor, and the cursor of another campaign goes.
CalledTable(s, c, drained) ==
  [campaign |-> c, auto |-> tables[s].auto, context |-> TRUE,
   cursor |-> drained \/ (tables[s].cursor /\ tables[s].campaign = c)]

\* A call of the narrator to ODM; a connect takes the table over.
NarratorCalls(s, c, operation) ==
  /\ tables' = [tables EXCEPT ![s] = CalledTable(s, c, operation = "read")]
  /\ arms' = ArmedFor(s, c)
  /\ takeOvers' = IF operation = "connect" THEN takeOvers \cup {<<s, c>>} ELSE takeOvers
  /\ UNCHANGED <<waits, owners>>

\* takeOver: every other session watching this campaign stops and forgets it.
TakesOver(s, c) ==
  /\ <<s, c>> \in takeOvers
  /\ takeOvers' = takeOvers \ {<<s, c>>}
  /\ \/ UNCHANGED <<tables, waits, owners, arms>>  \* a child session, or session.get failed
     \/ /\ tables[s].campaign = c
        /\ LET evicted == {t \in Narrators \ {s} : tables[t].campaign = c} IN
             /\ tables' = [t \in Narrators |-> IF t \in evicted THEN NoTable ELSE tables[t]]
             /\ waits' = [t \in Narrators |->
                            IF t \in evicted THEN Idle ELSE ClaimedWaits(c, s)[t]]
             /\ owners' = [Without(evicted) EXCEPT ![c] = s]
        /\ UNCHANGED arms

\* The dnd_watch tool: an explicit wait, unless the automatic one covers it.
ToolStarts(s, c) ==
  /\ ~(tables[s].auto /\ tables[s].campaign = c /\ tables[s].cursor /\ tables[s].context)
  /\ waits[s].auto \/ ~Waiting(s)
  /\ Claim(c, s)
  /\ waits' = [ClaimedWaits(c, s) EXCEPT ![s] = WaitFor(c, FALSE)]
  /\ tables' = [tables EXCEPT ![s] = CalledTable(s, c, FALSE)]
  /\ arms' = ArmedFor(s, c)
  /\ UNCHANGED <<takeOvers>>

\* The tool's stop, and the events that end a wait: a turn that was interrupted
\* or failed, a user message.  A failed turn arms again.
WaitStops(s, failed) ==
  /\ HasEntry(s) \/ failed
  /\ waits' = [waits EXCEPT ![s] = Idle]
  /\ IF failed /\ tables[s].auto /\ tables[s].context /\ tables[s].cursor
     THEN arms' = [arms EXCEPT ![s] = @ \cup {tables[s].campaign}]
     ELSE UNCHANGED arms
  /\ UNCHANGED <<tables, owners, takeOvers>>

\* A changed agent or location invalidates the remembered tool context.
AgentSelected(s) ==
  /\ HasEntry(s) \/ tables[s].context
  /\ waits' = [waits EXCEPT ![s] = Idle]
  /\ tables' = [tables EXCEPT ![s].context = FALSE]
  /\ UNCHANGED <<owners, takeOvers, arms>>

\* finish: a wait fires, times out or fails; an explicit one is over whatever its wake
\* does, and so is an automatic one whose session changed.
WaitFires(s) ==
  /\ Waiting(s)
  /\ \/ waits[s].auto /\ waits' = [waits EXCEPT ![s].waking = TRUE]
     \/ waits' = [waits EXCEPT ![s] = Idle]
  /\ UNCHANGED <<tables, owners, takeOvers, arms>>

\* The wake of an automatic wait is delivered, or it fails and the entry, if it is
\* still the session's, waits again: who took the campaign meanwhile is not asked.
WakeAnswers(s) ==
  /\ waits[s].waking
  /\ waits' \in {[waits EXCEPT ![s] = Idle], [waits EXCEPT ![s].waking = FALSE]}
  /\ UNCHANGED <<tables, owners, takeOvers, arms>>

\* /dnd-watch stop, and auto: the operator's choice takes the table.
OperatorStops(s) ==
  /\ HasEntry(s) \/ tables[s].auto
  /\ tables' = [tables EXCEPT ![s].auto = FALSE]
  /\ waits' = [waits EXCEPT ![s] = Idle]
  /\ UNCHANGED <<owners, takeOvers, arms>>

OperatorTakes(s) ==
  /\ tables' = [tables EXCEPT ![s].auto = TRUE]
  /\ IF tables[s].campaign = NoCampaign
     THEN UNCHANGED <<owners, waits, arms>>
     ELSE /\ Claim(tables[s].campaign, s)
          /\ waits' = ClaimedWaits(tables[s].campaign, s)
          /\ arms' = IF tables[s].context /\ tables[s].cursor /\ ~Waiting(s)
                     THEN [arms EXCEPT ![s] = @ \cup {tables[s].campaign}] ELSE arms
  /\ UNCHANGED <<takeOvers>>

\* The session is idle after a turn, or switched its model between turns.
SessionIdle(s) ==
  /\ MayArm(s) /\ ArmBegins(s)
  /\ UNCHANGED <<tables, waits, owners, takeOvers>>

\* session.get answered: a child session, another agent or an error arms nothing.
WaitArmed(s, c) ==
  /\ c \in arms[s]
  /\ arms' = [arms EXCEPT ![s] = @ \ {c}]
  /\ waits' = IF MayStart(s, c) /\ (waits[s].auto \/ ~Waiting(s))
              THEN [waits EXCEPT ![s] = WaitFor(c, TRUE)] ELSE waits
  /\ UNCHANGED <<tables, owners, takeOvers>>

ArmRefused(s, c) ==
  /\ c \in arms[s]
  /\ arms' = [arms EXCEPT ![s] = @ \ {c}]
  /\ UNCHANGED <<tables, waits, owners, takeOvers>>

\* session.deleted: the table and what it owned go.
NarratorDeleted(s) ==
  /\ tables' = [tables EXCEPT ![s] = NoTable]
  /\ waits' = [waits EXCEPT ![s] = Idle]
  /\ owners' = Without({s})
  /\ UNCHANGED <<takeOvers, arms>>

-----------------------------------------------------------------------------
(* The status file and a restart *)

\* writeState saves the tables a narrator waits at; it runs on a timer, so a crash
\* leaves the tables of any earlier moment.
SavedTables ==
  [campaign : Campaigns, cursor : {TRUE}, auto : BOOLEAN, context : {TRUE}]

\* The process restarts: of the sessions on one campaign the last one saved keeps
\* it.  Tables of another boot, or of a process that lives, are not restored.
Restored(file, tablesKept) ==
  /\ tables' = [s \in Narrators |-> IF s \in tablesKept THEN file[s] ELSE NoTable]
  /\ owners' = [c \in Campaigns |->
                  IF \E s \in tablesKept : file[s].campaign = c
                  THEN CHOOSE s \in tablesKept : file[s].campaign = c ELSE NoNarrator]
  /\ arms' = [s \in Narrators |->
                IF s \in tablesKept /\ file[s].auto THEN {file[s].campaign} ELSE {}]
  /\ waits' = [s \in Narrators |-> Idle] /\ takeOvers' = {}

Restart ==
  \E tablesKept \in SUBSET Narrators :
    \E file \in [tablesKept -> SavedTables] :
      /\ \A s, t \in tablesKept : s # t => file[s].campaign # file[t].campaign
      /\ Restored(file, tablesKept)

DndTablesInit ==
  /\ tables = [s \in Narrators |-> NoTable] /\ waits = [s \in Narrators |-> Idle]
  /\ owners = [c \in Campaigns |-> NoNarrator] /\ takeOvers = {}
  /\ arms = [s \in Narrators |-> {}]

DndTablesNext ==
  \/ \E s \in Narrators, c \in Campaigns :
       \/ \E operation \in {"connect", "read", "other"} : NarratorCalls(s, c, operation)
       \/ TakesOver(s, c) \/ ToolStarts(s, c) \/ WaitArmed(s, c) \/ ArmRefused(s, c)
  \/ \E s \in Narrators :
       \/ \E failed \in BOOLEAN : WaitStops(s, failed)
       \/ AgentSelected(s) \/ WaitFires(s) \/ WakeAnswers(s) \/ OperatorStops(s)
       \/ OperatorTakes(s)
       \/ SessionIdle(s) \/ NarratorDeleted(s)
  \/ Restart

DndTablesSpec == DndTablesInit /\ [][DndTablesNext]_dndTablesVars

-----------------------------------------------------------------------------
(* Properties *)

\* The plugin's maps hold values of their types.
TableRecords == [campaign : Campaigns \cup {NoCampaign}, cursor : BOOLEAN,
                 auto : BOOLEAN, context : BOOLEAN]
DndTablesTypeOK ==
  /\ tables \in [Narrators -> TableRecords]
  /\ waits \in [Narrators -> [campaign : Campaigns \cup {NoCampaign}, auto : BOOLEAN,
                              waking : BOOLEAN, passed : BOOLEAN]]
  /\ owners \in [Campaigns -> Narrators \cup {NoNarrator}]
  /\ takeOvers \subseteq Narrators \X Campaigns
  /\ arms \in [Narrators -> SUBSET Campaigns]

\* One narrator per campaign: where a session explicitly took the campaign, another
\* session waits there only if its own wake was under way when the campaign was taken
\* and could not be delivered; no re-arm that was under way starts a wait, and none
\* comes back with a restart.
OneNarrator ==
  \A c \in Campaigns : owners[c] # NoNarrator =>
    \A s \in Narrators \ {owners[c]} : waits[s].campaign = c => waits[s].passed
=============================================================================
