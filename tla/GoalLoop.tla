----------------------------- MODULE GoalLoop -----------------------------
(***************************************************************************)
(* The /goal loop of one session, config/plugins/goal.js: a goal that is   *)
(* resumed after every turn until the agent reports it completed or        *)
(* blocked, the user stops it, or it fails too often.                      *)
(*                                                                         *)
(* An action runs from one await to the next.  Writes go through one       *)
(* queue; reads of a goal that is no longer in memory wait for the writes  *)
(* queued before them.  Several commands may be running; the handler takes *)
(* one event at a time.  The objective and the summary are left out, and   *)
(* so is a storage write that fails.                                       *)
(***************************************************************************)
EXTENDS Naturals, Sequences

CONSTANTS Commands,     \* running /goal commands
          MaxGoals,     \* bound: goals the user sets
          MaxFailures,  \* MAX_FAILURES
          MaxWrites     \* bound: writes waiting for the storage

ASSUME GoalAssumption ==
  /\ MaxGoals \in Nat \ {0} /\ MaxFailures \in Nat \ {0} /\ MaxWrites \in Nat \ {0}

VARIABLES goal,       \* goals/history: the goal in memory, or NoGoal
          goalStore,  \* the stored goal
          goalWrites, \* the queue of writes; each knows who awaits it
          goalLoad,   \* loads: the read in flight
          command,    \* command[c]: stage, request, cancelled, goal it holds
          goalTimer,  \* timers: the goal a timer will wake, or 0
          goalWake,   \* the wake in flight: stage and goal
          handler,    \* the event handler: what it does after its save
          executing,  \* the native session runs a turn
          running,    \* what the plugin knows of it
          goalsSet,   \* goals created so far
          halted,     \* a goal was halted and no /goal command took one up since
          gone        \* the session was deleted

goalVars == <<goal, goalStore, goalWrites, goalLoad, command, goalTimer, goalWake,
              handler, executing, running, goalsSet, halted, gone>>

NoGoal == [id |-> 0, status |-> "none", failures |-> 0]
Goals == {NoGoal} \cup [id : 1 .. MaxGoals, failures : 0 .. MaxFailures,
                        status : {"active", "paused", "completed", "blocked"}]
Active == goal.status = "active"
NoLoad == [stage |-> "none", behind |-> 0, value |-> NoGoal]
NoWake == [stage |-> "none", id |-> 0]
IdleCommand == [stage |-> "idle", text |-> "", held |-> NoGoal]

Awaited(by) == \E i \in 1 .. Len(goalWrites) : goalWrites[i].by = by
Enqueue(value, by) ==
  /\ Len(goalWrites) < MaxWrites
  /\ goalWrites' = Append(goalWrites, [value |-> value, by |-> by])

\* save: the goal is in memory at once, a read in flight is dropped, and the
\* write is queued.
Store(value, by) ==
  /\ goal' = value
  /\ goalLoad' = NoLoad
  /\ Enqueue(value, by)

\* A save of the wake, the tool, an event or /goal stop may halt the goal, and
\* none of them may take a halted one up again.
Save(value, by) ==
  /\ Store(value, by)
  /\ halted' = (halted \/ value.status # "active")

\* The save of a /goal command that sets or resumes: it lifts the halt.
TakeUp(value, by) ==
  /\ Store(value, by)
  /\ halted' = FALSE

\* schedule: one timer, for an active goal only.
Scheduled(value) == IF value.status = "active" /\ goalTimer = 0 THEN value.id ELSE goalTimer

\* invalidate: running commands must not act any more.  What a cancelled one
\* wanted does not matter again, so it has no text.
CancelAll == [c \in Commands |-> [command[c] EXCEPT !.text = "", !.held = NoGoal]]
Cancelled(c) == command[c].text = ""

-----------------------------------------------------------------------------
(* Storage *)

GoalWriteDone ==
  /\ goalWrites # <<>>
  /\ goalStore' = Head(goalWrites).value
  /\ goalWrites' = Tail(goalWrites)
  /\ goalLoad' = IF goalLoad.stage = "drain" /\ goalLoad.behind > 0
                 THEN [goalLoad EXCEPT !.behind = @ - 1] ELSE goalLoad
  /\ UNCHANGED <<goal, command, goalTimer, goalWake, handler, executing, running,
                 goalsSet, halted, gone>>

\* loadGoal, for a goal that is not in memory: behind the writes of this moment.
NewLoad == [NoLoad EXCEPT !.stage = "drain", !.behind = Len(goalWrites)]

GoalRead ==
  /\ goalLoad.stage = "drain" /\ goalLoad.behind = 0
  /\ goalLoad' = [goalLoad EXCEPT !.stage = "got", !.value = goalStore]
  /\ UNCHANGED <<goal, goalStore, goalWrites, command, goalTimer, goalWake, handler,
                 executing, running, goalsSet, halted, gone>>

GoalLoaded ==
  /\ goalLoad.stage = "got"
  /\ goal' = IF goal # NoGoal THEN goal ELSE goalLoad.value
  /\ goalLoad' = NoLoad
  /\ UNCHANGED <<goalStore, goalWrites, command, goalTimer, goalWake, handler,
                 executing, running, goalsSet, halted, gone>>

\* The RPC snapshot of a client.
GoalGet ==
  /\ goal = NoGoal /\ goalLoad.stage = "none"
  /\ goalLoad' = NewLoad
  /\ UNCHANGED <<goal, goalStore, goalWrites, command, goalTimer, goalWake, handler,
                 executing, running, goalsSet, halted, gone>>

\* Goals of other sessions push this one out of the history.
GoalEvict ==
  /\ goal # NoGoal /\ ~Active
  /\ goal' = NoGoal
  /\ UNCHANGED <<goalStore, goalWrites, goalLoad, command, goalTimer, goalWake, handler,
                 executing, running, goalsSet, halted, gone>>

-----------------------------------------------------------------------------
(* The command *)

\* A command other than status invalidates the running ones and the read.
GoalCommand(c, request) ==
  /\ command[c].stage = "idle" /\ ~gone
  /\ command' = [(IF request = "status" THEN command ELSE CancelAll) EXCEPT ![c] =
                  [stage |-> "loading", text |-> request, held |-> NoGoal]]
  /\ LET reading == request = "status" /\ goalLoad # NoLoad IN
       goalLoad' = IF reading THEN goalLoad ELSE IF goal = NoGoal THEN NewLoad ELSE NoLoad
  /\ UNCHANGED <<goal, goalStore, goalWrites, goalTimer, goalWake, handler, executing,
                 running, goalsSet, halted, gone>>

CommandEnds(c) == command' = [command EXCEPT ![c] = IdleCommand]
CommandGoto(c, stage, held) ==
  command' = [command EXCEPT ![c] = [@ EXCEPT !.stage = stage, !.held = held]]

\* The goal is there: status answers, stop pauses it, the others look up the
\* session first.
GoalCommandLoaded(c) ==
  /\ command[c].stage = "loading" /\ goalLoad.stage = "none"
  /\ IF Cancelled(c) \/ command[c].text = "status"
     THEN CommandEnds(c) /\ UNCHANGED <<goal, goalWrites, goalLoad, goalTimer, halted>>
     ELSE IF command[c].text = "stop"
     THEN /\ goalTimer' = 0
          /\ CommandGoto(c, "saving", NoGoal)
          /\ IF goal.status \in {"none", "completed"}
             THEN UNCHANGED <<goal, goalWrites, goalLoad, halted>>
             ELSE Save([goal EXCEPT !.status = "paused"], c)
     ELSE /\ CommandGoto(c, "primary", goal)
          /\ UNCHANGED <<goal, goalWrites, goalLoad, goalTimer, halted>>
  /\ UNCHANGED <<goalStore, goalWake, handler, executing, running, goalsSet, gone>>

\* The session is a primary one, or not: a new goal, or the held one resumed.
GoalCommandPrimary(c) ==
  /\ command[c].stage = "primary"
  /\ LET held == IF goal # NoGoal THEN goal ELSE command[c].held IN
       \/ CommandEnds(c)   \* cancelled, primary() throws, or nothing to resume
          /\ UNCHANGED <<goal, goalWrites, goalLoad, goalTimer, goalsSet, halted>>
       \/ /\ ~Cancelled(c)
          /\ \/ /\ command[c].text = "resume"
                /\ held.status \notin {"none", "completed"}
                /\ TakeUp([held EXCEPT !.status = "active", !.failures = 0], c)
                /\ UNCHANGED goalsSet
             \/ /\ command[c].text = "new" /\ goalsSet < MaxGoals
                /\ goalsSet' = goalsSet + 1
                /\ TakeUp([id |-> goalsSet + 1, status |-> "active", failures |-> 0], c)
          /\ goalTimer' = 0
          /\ CommandGoto(c, "saving", NoGoal)
  /\ UNCHANGED <<goalStore, goalWake, handler, executing, running, gone>>

\* The save is done: stop interrupts the session, the others schedule a wake.
GoalCommandSaved(c) ==
  /\ command[c].stage = "saving" /\ ~Awaited(c)
  /\ CommandEnds(c)
  /\ goalTimer' = IF Cancelled(c) \/ command[c].text = "stop"
                  THEN goalTimer ELSE Scheduled(goal)
  /\ UNCHANGED <<goal, goalStore, goalWrites, goalLoad, goalWake, handler, executing,
                 running, goalsSet, halted, gone>>

-----------------------------------------------------------------------------
(* The wake *)

\* The timer fires; a wake in flight schedules another timer instead.
GoalTimerFires ==
  /\ goalTimer # 0
  /\ LET due == Active /\ goal.id = goalTimer IN
       /\ goalTimer' = IF due /\ goalWake # NoWake THEN goal.id ELSE 0
       /\ goalWake' = IF due /\ goalWake = NoWake
                      THEN [stage |-> "primary", id |-> goal.id] ELSE goalWake
  /\ UNCHANGED <<goal, goalStore, goalWrites, goalLoad, command, handler, executing,
                 running, goalsSet, halted, gone>>

StillWoken == Active /\ goal.id = goalWake.id

\* failed: one more failure, and the goal blocks at the limit or when the
\* failure is final (budget, permission).
FailedGoal(value, final) ==
  IF final \/ value.failures + 1 >= MaxFailures
  THEN [value EXCEPT !.status = "blocked"]
  ELSE [value EXCEPT !.failures = @ + 1]

\* The wake failed: a goal that blocks loses its timer and gets a receipt, any
\* other is scheduled again.
WakeRejected ==
  \E final \in BOOLEAN :
    LET value == FailedGoal(goal, final) IN
      /\ Save(value, "wake")
      /\ IF value.status = "blocked"
         THEN goalTimer' = 0 /\ goalWake' = [goalWake EXCEPT !.stage = "blocking"]
         ELSE UNCHANGED goalTimer /\ goalWake' = [goalWake EXCEPT !.stage = "failing"]

WakeEnds ==
  /\ goalWake' = NoWake
  /\ UNCHANGED <<goal, goalWrites, goalLoad, goalTimer, halted>>

\* primary() answers, or throws; the goal and the session are looked at again.
GoalWakePrimary ==
  /\ goalWake.stage = "primary"
  /\ \/ /\ StillWoken /\ ~running
        /\ Save(goal, "wake")
        /\ goalWake' = [goalWake EXCEPT !.stage = "saving"]
        /\ UNCHANGED goalTimer
     \/ ~(StillWoken /\ ~running) /\ WakeEnds
     \/ StillWoken /\ WakeRejected
  /\ UNCHANGED <<goalStore, command, handler, executing, running, goalsSet, gone>>

\* Faulty variant: a failed prompt is counted on the goal read before the await.
WakeHeld ==
  /\ goalWake.stage = "prompting"
  /\ Save([id |-> goalWake.id, status |-> "active", failures |-> 0], "wake")
  /\ goalWake' = [goalWake EXCEPT !.stage = "failing"]
  /\ UNCHANGED <<goalStore, command, goalTimer, handler, executing, running, goalsSet,
                 gone>>

\* The turn counter is stored: the prompt is sent if the goal still stands.
GoalWakePrompt ==
  /\ goalWake.stage = "saving" /\ ~Awaited("wake")
  /\ goalWake' = IF StillWoken THEN [goalWake EXCEPT !.stage = "prompting"] ELSE NoWake
  /\ UNCHANGED <<goal, goalStore, goalWrites, goalLoad, command, goalTimer, handler,
                 executing, running, goalsSet, halted, gone>>

\* synthetic() answers: the prompt will run, even one whose goal was halted
\* meanwhile.  Or it fails, its prompt lost or only its answer: a failure of the
\* goal if that still stands.
GoalWakeAnswer ==
  /\ goalWake.stage = "prompting"
  /\ \/ executing' = TRUE /\ WakeEnds
     \/ /\ executing' \in {executing, TRUE}
        /\ IF StillWoken THEN WakeRejected ELSE WakeEnds
  /\ UNCHANGED <<goalStore, command, handler, running, goalsSet, gone>>

GoalWakeFailed ==
  /\ goalWake.stage \in {"failing", "blocking"} /\ ~Awaited("wake")
  /\ goalWake' = NoWake
  /\ goalTimer' = IF goalWake.stage = "failing" THEN Scheduled(goal) ELSE goalTimer
  /\ UNCHANGED <<goal, goalStore, goalWrites, goalLoad, command, handler, executing,
                 running, goalsSet, halted, gone>>

-----------------------------------------------------------------------------
(* The tool and the events *)

\* goal_update from the agent of a running turn.
GoalUpdate ==
  /\ executing /\ Active
  /\ \E status \in {"active", "completed", "blocked"} :
       Save([goal EXCEPT !.status = status, !.failures = 0], "tool")
  /\ goalTimer' = 0
  /\ UNCHANGED <<goalStore, command, goalWake, handler, executing, running, goalsSet,
                 gone>>

GoalStarted ==
  /\ handler = "idle" /\ executing /\ ~running /\ ~gone
  /\ running' = Active
  /\ goalTimer' = IF Active THEN 0 ELSE goalTimer
  /\ UNCHANGED <<goal, goalStore, goalWrites, goalLoad, command, goalWake, handler,
                 executing, goalsSet, halted, gone>>

\* A user message of the session is enqueued: it will start a turn.
GoalUserMessage ==
  /\ handler = "idle" /\ ~gone
  /\ executing' = TRUE
  /\ goalTimer' = IF Active THEN 0 ELSE goalTimer
  /\ UNCHANGED <<goal, goalStore, goalWrites, goalLoad, command, goalWake, handler,
                 running, goalsSet, halted, gone>>

\* A turn ends.  A success schedules the next one, a failure counts, the
\* user's interrupt pauses the goal and any other interrupt only cancels.
GoalTurnEnds(how) ==
  /\ handler = "idle" /\ executing /\ ~gone
  /\ executing' = FALSE /\ running' = FALSE
  /\ CASE ~Active \/ (how = "succeeded" /\ ~running) ->
            UNCHANGED <<goal, goalWrites, goalLoad, goalTimer, halted, handler>>
       [] Active /\ how = "succeeded" /\ running ->
            /\ Save([goal EXCEPT !.failures = 0], "event")
            /\ handler' = "schedule" /\ UNCHANGED goalTimer
       [] Active /\ how \in {"failed", "denied"} ->
            /\ Save(FailedGoal(goal, how = "denied"), "event")
            /\ goalTimer' = 0
            /\ handler' = IF FailedGoal(goal, how = "denied").status = "blocked"
                          THEN "receipt" ELSE "schedule"
       [] Active /\ how = "interrupted" ->
            /\ Save([goal EXCEPT !.status = "paused"], "event")
            /\ goalTimer' = 0 /\ handler' = "receipt"
       [] Active /\ how = "shutdown" ->
            /\ goalTimer' = 0
            /\ UNCHANGED <<goal, goalWrites, goalLoad, halted, handler>>
  /\ UNCHANGED <<goalStore, command, goalWake, goalsSet, gone>>

\* The session moves to another project or agent: commands are invalidated and
\* an active goal blocks.
GoalMoved ==
  /\ handler = "idle" /\ ~gone
  /\ command' = CancelAll
  /\ IF Active
     THEN /\ Save([goal EXCEPT !.status = "blocked"], "event")
          /\ goalTimer' = 0 /\ handler' = "receipt"
     ELSE goalLoad' = NoLoad /\ UNCHANGED <<goal, goalWrites, goalTimer, handler,
                                            halted>>
  /\ UNCHANGED <<goalStore, goalWake, executing, running, goalsSet, gone>>

\* The session is deleted: nothing in memory, and the removal is queued.
GoalDeleted ==
  /\ handler = "idle" /\ ~gone
  /\ gone' = TRUE /\ halted' = TRUE
  /\ command' = CancelAll
  /\ goal' = NoGoal /\ goalLoad' = NoLoad /\ goalTimer' = 0
  /\ running' = FALSE /\ executing' = FALSE
  /\ Enqueue(NoGoal, "event")
  /\ handler' = "receipt"
  /\ UNCHANGED <<goalStore, goalWake, goalsSet>>

GoalHandled ==
  /\ handler # "idle" /\ ~Awaited("event")
  /\ handler' = "idle"
  /\ goalTimer' = IF handler = "schedule" THEN Scheduled(goal) ELSE goalTimer
  /\ UNCHANGED <<goal, goalStore, goalWrites, goalLoad, command, goalWake, executing,
                 running, goalsSet, halted, gone>>

\* The plugin is disposed, its writes drained, and set up again: active goals
\* come back from storage and are woken after a second.  A prompt in flight may
\* still arrive; nothing else of the old plugin acts.
GoalRestart ==
  /\ goalWrites = <<>> /\ handler = "idle"
  /\ goal' = IF goalStore.status = "active" THEN goalStore ELSE NoGoal
  /\ goalTimer' = IF goalStore.status = "active" THEN goalStore.id ELSE 0
  /\ goalLoad' = NoLoad /\ goalWake' = NoWake /\ running' = FALSE
  /\ command' = [c \in Commands |-> IdleCommand]
  /\ executing' \in {executing, executing \/ goalWake.stage = "prompting"}
  /\ UNCHANGED <<goalStore, goalWrites, handler, goalsSet, halted, gone>>

GoalInit ==
  /\ goal = NoGoal /\ goalStore = NoGoal /\ goalWrites = <<>>
  /\ goalLoad = NoLoad /\ command = [c \in Commands |-> IdleCommand]
  /\ goalTimer = 0 /\ goalWake = NoWake /\ handler = "idle"
  /\ executing = FALSE /\ running = FALSE /\ goalsSet = 0
  /\ halted = TRUE /\ gone = FALSE

GoalNext ==
  \/ GoalWriteDone \/ GoalRead \/ GoalLoaded \/ GoalGet \/ GoalEvict
  \/ \E c \in Commands :
       \/ \E request \in {"status", "stop", "resume", "new"} : GoalCommand(c, request)
       \/ GoalCommandLoaded(c) \/ GoalCommandPrimary(c) \/ GoalCommandSaved(c)
  \/ GoalTimerFires \/ GoalWakePrimary \/ GoalWakePrompt \/ GoalWakeAnswer
  \/ GoalWakeFailed
  \/ GoalUpdate \/ GoalStarted \/ GoalUserMessage \/ GoalMoved \/ GoalDeleted
  \/ \E how \in {"succeeded", "failed", "denied", "interrupted", "shutdown"} :
       GoalTurnEnds(how)
  \/ GoalHandled \/ GoalRestart

GoalSpec == GoalInit /\ [][GoalNext]_goalVars

-----------------------------------------------------------------------------
(* Properties *)

\* The plugin's maps hold values of their types.
GoalTypeOK ==
  /\ goal \in Goals /\ goalStore \in Goals
  /\ \A i \in 1 .. Len(goalWrites) : goalWrites[i].value \in Goals
  /\ goalLoad \in [stage : {"none", "drain", "got"}, behind : Nat, value : Goals]
  /\ command \in [Commands -> [stage : {"idle", "loading", "primary", "saving"},
                               text : {"", "status", "stop", "resume", "new"},
                               held : Goals]]
  /\ goalTimer \in 0 .. MaxGoals
  /\ goalWake \in [stage : {"none", "primary", "saving", "prompting", "failing", "blocking"},
                  id : 0 .. MaxGoals]
  /\ handler \in {"idle", "schedule", "receipt"}
  /\ executing \in BOOLEAN /\ running \in BOOLEAN
  /\ goalsSet \in 0 .. MaxGoals /\ halted \in BOOLEAN /\ gone \in BOOLEAN

\* A halted goal (stopped, paused, blocked, completed or deleted with its
\* session) stays halted until a /goal command that nothing cancelled sets or
\* resumes it: no wake, tool call, event, read, late write or restart makes it
\* active again, and once the queue is empty the store agrees.
HaltStands ==
  /\ halted => ~Active
  /\ gone => goal = NoGoal
  /\ goalWrites = <<>> => /\ goal # NoGoal => goalStore = goal
                          /\ halted => goalStore.status # "active"
                          /\ gone => goalStore = NoGoal

-----------------------------------------------------------------------------
(***************************************************************************)
(* The goal line of a client: watchGoal of                                 *)
(* config/plugins/tui/lib/goal-view.js, driven by the session selection of *)
(* app/goal-banner.js (the terminal panel selects without the lookup).     *)
(* Only the open session is polled; a reply, a lookup or a timer of an     *)
(* earlier selection may come at any time.                                 *)
(***************************************************************************)
CONSTANTS WatchSessions,
          MaxSelections,  \* bound: selections of a session
          NoSession

ASSUME WatchAssumption == MaxSelections \in Nat /\ NoSession \notin WatchSessions

VARIABLES route,     \* the session of the page
          lookups,   \* getSession calls in flight: session and generation
          chosen,    \* generation of the banner
          watched,   \* watcher: sessionID and generation
          snapshotOf, \* whose goal is shown, or NoSession
          flight,    \* the read in flight: session and generation
          again,     \* a refresh was asked for during a read
          poll,      \* a timer will refresh
          stopped    \* the banner is gone

watchVars == <<route, lookups, chosen, watched, snapshotOf, flight, again, poll,
               stopped>>

NoFlightOf == [session |-> NoSession, generation |-> 0]
Selections == 0 .. MaxSelections

\* refresh: one read at a time, for the watched session.
ReadGoal(w) ==
  /\ poll' = FALSE
  /\ IF flight # NoFlightOf THEN again' = TRUE /\ UNCHANGED flight
     ELSE flight' = (IF w.session = NoSession THEN NoFlightOf ELSE w) /\ UNCHANGED again

\* setSession: a new generation shows nothing until its first answer.
SetSession(s) ==
  LET next == [session |-> s, generation |-> watched.generation + 1] IN
    IF s = watched.session
    THEN UNCHANGED <<watched, snapshotOf, flight, again, poll>>
    ELSE watched' = next /\ snapshotOf' = NoSession /\ ReadGoal(next)

\* select: the line is cleared at once, the new session is looked up.
WatchSelect(s) ==
  /\ ~stopped /\ s # route /\ chosen < MaxSelections
  /\ route' = s /\ chosen' = chosen + 1
  /\ lookups' = lookups \cup (IF s = NoSession THEN {}
                              ELSE {[session |-> s, generation |-> chosen + 1]})
  /\ SetSession(NoSession)
  /\ UNCHANGED stopped

\* The lookup answers (a failed one is dropped); an older one is ignored.
WatchLookup(l) ==
  /\ lookups' = lookups \ {l}
  /\ \/ l.generation = chosen /\ ~stopped /\ SetSession(l.session)
     \/ UNCHANGED <<watched, snapshotOf, flight, again, poll>>
  /\ UNCHANGED <<route, chosen, stopped>>

\* Faulty variant: an answer is shown whatever was selected meanwhile.
WatchAnswerAny ==
  /\ flight # NoFlightOf
  /\ snapshotOf' \in {flight.session, NoSession, snapshotOf}
  /\ poll' = (~stopped /\ watched.session # NoSession)
  /\ flight' = NoFlightOf /\ again' = FALSE
  /\ UNCHANGED <<route, lookups, chosen, watched, stopped>>

\* The read answers with a goal or none, fails, or was not made (hidden page).
\* Only the generation that asked is shown; the next poll is armed.
WatchAnswer ==
  /\ flight # NoFlightOf
  /\ IF ~stopped /\ flight = watched
     THEN snapshotOf' \in {flight.session, NoSession, snapshotOf}
     ELSE UNCHANGED snapshotOf
  /\ poll' = (~stopped /\ watched.session # NoSession)
  /\ flight' = NoFlightOf /\ again' = FALSE
  /\ UNCHANGED <<route, lookups, chosen, watched, stopped>>

\* The timer, an "updated" event, or the page becoming visible.
WatchRefresh ==
  /\ ~stopped
  /\ ReadGoal(watched)
  /\ UNCHANGED <<route, lookups, chosen, watched, snapshotOf, stopped>>

WatchStop ==
  /\ ~stopped
  /\ stopped' = TRUE /\ snapshotOf' = NoSession /\ poll' = FALSE
  /\ watched' = [watched EXCEPT !.generation = @ + 1]
  /\ chosen' = chosen + 1
  /\ UNCHANGED <<route, lookups, flight, again>>

WatchInit ==
  /\ route = NoSession /\ lookups = {} /\ chosen = 0
  /\ watched = NoFlightOf /\ snapshotOf = NoSession
  /\ flight = NoFlightOf /\ again = FALSE /\ poll = FALSE /\ stopped = FALSE

WatchNext ==
  \/ \E s \in WatchSessions \cup {NoSession} : WatchSelect(s)
  \/ \E l \in lookups : WatchLookup(l)
  \/ WatchAnswer \/ WatchRefresh \/ WatchStop

WatchSpec == WatchInit /\ [][WatchNext]_watchVars

-----------------------------------------------------------------------------
(* Properties *)

\* The watcher keeps values of their types.
WatchTypeOK ==
  LET Tokens == [session : WatchSessions \cup {NoSession}, generation : Nat] IN
    /\ route \in WatchSessions \cup {NoSession} /\ snapshotOf \in WatchSessions \cup {NoSession}
    /\ lookups \subseteq Tokens /\ watched \in Tokens /\ flight \in Tokens
    /\ chosen \in Nat /\ again \in BOOLEAN /\ poll \in BOOLEAN /\ stopped \in BOOLEAN

\* The line never shows the goal of another session than the open one, however
\* late a reply comes; and a watched session is never left without a poll.
ShownIsSelected ==
  /\ snapshotOf \in {NoSession, route}
  /\ ~stopped /\ watched.session # NoSession => poll \/ flight # NoFlightOf
=============================================================================
