----------------------------- MODULE TaskRuntime -----------------------------
(***************************************************************************)
(* The threads of app/server_runtime.py over the task store: the worker of *)
(* the lease holder, which polls the native service, monitors and          *)
(* dispatches; the HTTP handlers; the finalizer threads; the agents that   *)
(* the native service runs.                                                *)
(*                                                                         *)
(* Unlike in TaskStore a thread decides and writes in different steps: the *)
(* worker acts on the statuses and task lists it has read earlier in its   *)
(* tick, a handler on the task it has read before an interrupt, and a      *)
(* claimed task is prepared before its prompt is sent.  A transition is    *)
(* atomic with the guard layer's check of the current state, which may     *)
(* refuse it (ValueError).                                                 *)
(*                                                                         *)
(* Dependencies are fixed when a task is created and retention is left     *)
(* out; TaskStore has both.  So nothing can make the guard's check of a    *)
(* new task's dependencies stale before the insertion, and creating is one *)
(* step, which covers the queue and task endpoints and the repair task of  *)
(* a finalizer.                                                            *)
(***************************************************************************)
EXTENDS TaskStore

CONSTANTS Handlers,     \* HTTP request threads
          MaxRestarts,  \* bound: crashes and stops of the lease holder
          None

ASSUME RuntimeAssumption == MaxRestarts \in Nat /\ None \notin Tasks

VARIABLES agent,      \* agent[t]: what the native service does with t's prompt
          asking,     \* asking[s]: session s waits for a permission decision
          worker,     \* the worker's place in its tick and what it has read
          handler,    \* handler[h]: the request that thread h is serving
          verifying,  \* VERIFYING, the ids that have a finalizer
          final,      \* final[t]: how many finalizers of t have no verdict yet,
                      \* are past their verdict, or are leaving VERIFYING
          restarts    \* crashes and stops so far

finalizers == <<verifying, final>>
native == <<agent, asking>>
runtimeVars == <<vars, native, worker, handler, finalizers, restarts>>

Idle == [op |-> "none", task |-> None, interrupt |-> FALSE]
NothingSeen == [t \in Tasks |-> "absent"]
NoFinalizer == [judging |-> 0, closing |-> 0, leaving |-> 0]
In(s) == {t \in Tasks : SessionOf[t] = s}

\* A transition whose refusal the caller survives.
Attempt(t, to) == IF Permits(t, to) THEN Write(t, to) ELSE UNCHANGED vars

\* A new task, with the guard's check of its dependencies.
NewTask(t, D) ==
  /\ state[t] = "absent"
  /\ D \subseteq Existing \ {t}
  /\ Insert(t, D)
  /\ UNCHANGED edit

-----------------------------------------------------------------------------
(* The native service *)

BusySessions == {s \in Sessions : \E t \in In(s) : agent[t] = "working"}

AgentFinish(t) ==
  /\ agent[t] = "working" /\ ~asking[SessionOf[t]]
  /\ agent' = [agent EXCEPT ![t] = "done"]
  /\ UNCHANGED <<vars, asking, worker, handler, finalizers, restarts>>

Ask(s) ==
  /\ s \in BusySessions /\ ~asking[s]
  /\ asking' = [asking EXCEPT ![s] = TRUE]
  /\ UNCHANGED <<vars, agent, worker, handler, finalizers, restarts>>

Answer(s) ==
  /\ asking[s]
  /\ asking' = [asking EXCEPT ![s] = FALSE]
  /\ UNCHANGED <<vars, agent, worker, handler, finalizers, restarts>>

\* What an interrupt that reaches the service does to a session.
Interrupted(s) ==
  /\ agent' = [t \in Tasks |-> IF t \in In(s) /\ agent[t] = "working"
                               THEN "done" ELSE agent[t]]
  /\ asking' = [asking EXCEPT ![s] = FALSE]

-----------------------------------------------------------------------------
(* Dispatching a task: claim it, prepare its session, send its prompt *)

\* claim_dispatch takes the task, whose usage baseline is then read anew, or
\* blocks it, or refuses.
Claim(t, won) ==
  \/ /\ won /\ ClaimDispatch(t)
     /\ agent' = [agent EXCEPT ![t] = IF @ = "working" THEN @ ELSE "none"]
  \/ ~won /\ ClaimBlocked(t) /\ UNCHANGED agent
  \/ /\ ~won
     /\ \/ state[t] \notin PendingStates
        \/ state[t] = "blocked" /\ ~Ready(t)
        \/ Ready(t) /\ Occupied(t)
     /\ UNCHANGED <<vars, agent>>

\* The prompt is accepted, or something raised on the way.  A failed POST may
\* have reached the service.
Send(t) ==
  \/ agent' = [agent EXCEPT ![t] = "working"] /\ UNCHANGED vars
  \/ Attempt(t, "failed")
     /\ \/ UNCHANGED agent
        \/ agent' = [agent EXCEPT ![t] = "working"]

-----------------------------------------------------------------------------
(* The worker's tick *)

At(place) == worker.at = place
Go(place) == worker' = [worker EXCEPT !.at = place]

\* The lease is free: recover what was in flight.
Lead ==
  /\ At("waiting") /\ RecoverInflight /\ Go("poll")
  /\ UNCHANGED <<native, handler, finalizers, restarts>>

\* The statuses of all sessions, which are not asked for while no task is
\* active or queued: the tick then takes every session for idle.  A service
\* that answers nothing ends the tick.
Poll ==
  /\ At("poll")
  /\ LET pending == \E t \in Tasks : state[t] \in ExecutionStates \cup QueueStates
     IN  worker' = [worker EXCEPT !.at = "list",
                      !.skip = IF pending THEN BusySessions ELSE {}]
  /\ UNCHANGED <<vars, native, handler, finalizers, restarts>>

ListActive ==
  /\ At("list")
  /\ worker' = [worker EXCEPT !.at = "monitor",
        !.seen = [t \in Tasks |-> IF state[t] \in ExecutionStates
                                  THEN state[t] ELSE "absent"]]
  /\ UNCHANGED <<vars, native, handler, finalizers, restarts>>

Seen(t, places) == At("monitor") /\ worker.seen[t] \in places
Busy(t) == SessionOf[t] \in worker.skip
SeenAs(t, place) == worker' = [worker EXCEPT !.seen[t] = place]
Drop(t) == SeenAs(t, "absent")
Working == {"submitted", "running", "resolved"}

\* Faulty variant: leaves a recovered task of an idle session alone.
ReattachOnly(t) ==
  /\ Seen(t, {"recovering"})
  /\ IF Busy(t) THEN Attempt(t, "running") ELSE UNCHANGED vars
  /\ Drop(t)
  /\ UNCHANGED <<native, handler, finalizers, restarts>>

MonitorRecovering(t) ==
  /\ Seen(t, {"recovering"})
  /\ Attempt(t, IF Busy(t) THEN "running" ELSE "paused")
  /\ Drop(t)
  /\ UNCHANGED <<native, handler, finalizers, restarts>>

MonitorAsking(t) ==
  /\ Seen(t, {"submitted", "running"})
  /\ asking[SessionOf[t]]
  /\ Attempt(t, "waiting_permission")
  /\ Drop(t)
  /\ UNCHANGED <<native, handler, finalizers, restarts>>

\* No permission is pending, or asking for the pending ones failed.
MonitorResolved(t) ==
  /\ Seen(t, {"waiting_permission"})
  /\ LET to == IF Busy(t) THEN "running" ELSE "submitted"
     IN  /\ Attempt(t, to)
         /\ SeenAs(t, IF Permits(t, to) THEN "resolved" ELSE "absent")
  /\ UNCHANGED <<native, handler, finalizers, restarts>>

MonitorUnchanged(t) ==
  /\ \/ Seen(t, {"verifying"})
     \/ Seen(t, {"waiting_permission"}) /\ asking[SessionOf[t]]
     \/ Seen(t, {"running", "resolved"}) /\ Busy(t)
  /\ Drop(t)
  /\ UNCHANGED <<vars, native, handler, finalizers, restarts>>

MonitorStarted(t) ==
  /\ Seen(t, {"submitted"}) /\ Busy(t)
  /\ Attempt(t, "running")
  /\ SeenAs(t, IF Permits(t, "running") THEN "resolved" ELSE "absent")
  /\ UNCHANGED <<native, handler, finalizers, restarts>>

\* OPENCODE_STUCK_ACTION=interrupt: the session is interrupted, and the task
\* paused in a second call unless the first one raised.
MonitorStuck(t) ==
  /\ Seen(t, {"running", "resolved"}) /\ Busy(t)
  /\ Interrupted(SessionOf[t])
  /\ SeenAs(t, "stuck") \/ Drop(t)
  /\ UNCHANGED <<vars, handler, finalizers, restarts>>

MonitorPause(t) ==
  /\ Seen(t, {"stuck"})
  /\ Attempt(t, "paused")
  /\ Drop(t)
  /\ UNCHANGED <<native, handler, finalizers, restarts>>

\* Faulty variant: starts a finalizer beside the one that runs.
StartAnotherFinalizer(t) ==
  /\ verifying' = verifying \cup {t}
  /\ final' = [final EXCEPT ![t].judging = @ + 1]

\* _finish_async: one finalizer for a task at a time.
StartFinalizer(t) ==
  IF t \in verifying THEN UNCHANGED finalizers
  ELSE /\ verifying' = verifying \cup {t}
       /\ final' = [final EXCEPT ![t].judging = @ + 1]

\* An idle agent.  Progress is certain once its prompt is done; before, it may
\* be inferred from a queued successor, a missing baseline or an old snapshot.
MonitorIdle(t) ==
  /\ Seen(t, Working) /\ ~Busy(t)
  /\ \/ Permits(t, "verifying") /\ Write(t, "verifying") /\ StartFinalizer(t)
     \/ /\ agent[t] # "done" \/ ~Permits(t, "verifying")
        /\ UNCHANGED <<vars, finalizers>>
  /\ Drop(t)
  /\ UNCHANGED <<native, handler, restarts>>

MonitorDone ==
  /\ At("monitor") /\ worker.seen = NothingSeen
  /\ Go("dispatch")
  /\ UNCHANGED <<vars, native, handler, finalizers, restarts>>

\* The next session: skipped while it executes something, otherwise the scan
\* of next_ready begins with a list of its waiting tasks.
ScanSession(s) ==
  /\ At("dispatch") /\ s \notin worker.skip
  /\ worker' =
       IF \E t \in In(s) : state[t] \in ExecutionStates
       THEN [worker EXCEPT !.skip = @ \cup {s}]
       ELSE [worker EXCEPT !.skip = @ \cup {s}, !.at = "scan",
              !.seen = [t \in Tasks |-> IF t \in In(s) /\ state[t] \in PendingStates
                                        THEN state[t] ELSE "absent"]]
  /\ UNCHANGED <<vars, native, handler, finalizers, restarts>>

Pick(t) == worker' = [worker EXCEPT !.at = "claim", !.pick = t, !.seen = NothingSeen]
\* A refused transition ends the tick.
Abort == worker' = [worker EXCEPT !.at = "poll", !.seen = NothingSeen]

ScanTask(t) ==
  /\ At("scan") /\ worker.seen[t] # "absent"
  /\ \/ Ready(t) /\ worker.seen[t] = "queued" /\ Pick(t) /\ UNCHANGED vars
     \/ /\ Ready(t) /\ worker.seen[t] = "blocked"
        /\ Attempt(t, "queued")
        /\ IF Permits(t, "queued") THEN Pick(t) ELSE Abort
     \/ /\ ~Ready(t) /\ worker.seen[t] = "queued"
        /\ Attempt(t, "blocked")
        /\ IF Permits(t, "blocked") THEN Drop(t) ELSE Abort
     \/ ~Ready(t) /\ worker.seen[t] = "blocked" /\ Drop(t) /\ UNCHANGED vars
  /\ UNCHANGED <<native, handler, finalizers, restarts>>

ScanDone ==
  /\ At("scan") /\ worker.seen = NothingSeen
  /\ Go("dispatch")
  /\ UNCHANGED <<vars, native, handler, finalizers, restarts>>

WorkerClaim ==
  /\ At("claim")
  /\ \E won \in BOOLEAN : /\ Claim(worker.pick, won)
                          /\ Go(IF won THEN "send" ELSE "dispatch")
  /\ UNCHANGED <<asking, handler, finalizers, restarts>>

WorkerSend ==
  /\ At("send") /\ Send(worker.pick) /\ Go("dispatch")
  /\ UNCHANGED <<asking, handler, finalizers, restarts>>

TickDone ==
  /\ At("dispatch") /\ Sessions \subseteq worker.skip
  /\ Go("poll")
  /\ UNCHANGED <<vars, native, handler, finalizers, restarts>>

Stop ==
  /\ At("poll") /\ restarts < MaxRestarts
  /\ Go("stopping")
  /\ restarts' = restarts + 1
  /\ UNCHANGED <<vars, native, handler, finalizers>>

\* Faulty variant: hands over at once.
ReleaseAtOnce ==
  /\ At("stopping") /\ Go("waiting")
  /\ UNCHANGED <<vars, native, handler, finalizers, restarts>>

\* A graceful stop keeps the lease until its finalizers are gone.
Release ==
  /\ At("stopping") /\ verifying = {} /\ Go("waiting")
  /\ UNCHANGED <<vars, native, handler, finalizers, restarts>>

-----------------------------------------------------------------------------
(* Finalizers *)

Verdicts == {"completed", "needs_attention"}

\* Faulty variants: a finalizer judges once more after its verdict; a verdict
\* ignores what has become of the task.
JudgeAgain(t) ==
  /\ final[t].judging + final[t].closing > 0
  /\ \E verdict \in Verdicts : Permits(t, verdict) /\ Write(t, verdict)
  /\ final' = [final EXCEPT ![t].judging = @ - 1, ![t].closing = @ + 1]
  /\ UNCHANGED <<native, worker, handler, verifying, restarts>>
JudgeAnyway(t) ==
  /\ final[t].judging > 0
  /\ \E verdict \in Verdicts : Write(t, verdict)
  /\ final' = [final EXCEPT ![t].judging = @ - 1, ![t].closing = @ + 1]
  /\ UNCHANGED <<native, worker, handler, verifying, restarts>>

\* The verdict of a verification.
Judge(t) ==
  /\ final[t].judging > 0
  /\ \E verdict \in Verdicts : Permits(t, verdict) /\ Write(t, verdict)
  /\ final' = [final EXCEPT ![t].judging = @ - 1, ![t].closing = @ + 1]
  /\ UNCHANGED <<native, worker, handler, verifying, restarts>>

\* An exception, be it the refusal of the verdict, is reported as a failure,
\* which may be refused as well.  It may come after the verdict too, from its
\* checkpoint or its repair task, and find the task in whatever state.
ReportFailure(t) ==
  /\ \E phase \in {"judging", "closing"} :
       /\ final[t][phase] > 0
       /\ final' = [final EXCEPT ![t][phase] = @ - 1, ![t].leaving = @ + 1]
  /\ Attempt(t, "failed")
  /\ UNCHANGED <<native, worker, handler, verifying, restarts>>

\* The finalizer ends, and the task leaves VERIFYING.
Close(t) ==
  /\ \E phase \in {"closing", "leaving"} :
       /\ final[t][phase] > 0
       /\ final' = [final EXCEPT ![t][phase] = @ - 1]
  /\ verifying' = verifying \ {t}
  /\ UNCHANGED <<vars, native, worker, handler, restarts>>

-----------------------------------------------------------------------------
(* HTTP handlers *)

Serving(h, op) == handler[h].op = op
Reply(h) == handler' = [handler EXCEPT ![h] = Idle]

Enqueue(t, D) ==
  /\ NewTask(t, D)
  /\ UNCHANGED <<native, worker, handler, finalizers, restarts>>

\* dispatch_immediate creates a task and goes on to dispatch it.
Dispatch(h, t) ==
  /\ Serving(h, "none")
  /\ NewTask(t, {})
  /\ handler' = [handler EXCEPT ![h] = [op |-> "claim", task |-> t, interrupt |-> FALSE]]
  /\ UNCHANGED <<native, worker, finalizers, restarts>>

HandlerClaim(h) ==
  /\ Serving(h, "claim")
  /\ \E won \in BOOLEAN :
       /\ Claim(handler[h].task, won)
       /\ IF won THEN handler' = [handler EXCEPT ![h].op = "send"] ELSE Reply(h)
  /\ UNCHANGED <<asking, worker, finalizers, restarts>>

HandlerSend(h) ==
  /\ Serving(h, "send") /\ Send(handler[h].task) /\ Reply(h)
  /\ UNCHANGED <<asking, worker, finalizers, restarts>>

Resumable == {"paused", "recovering", "needs_attention"}
Interruptible == {"running", "submitted", "waiting_permission"}
Target == [pause |-> "paused", resume |-> "queued", cancel |-> "cancelled"]

\* task_control reads the task and checks what it has read.
Control(h, t, op) ==
  /\ Serving(h, "none")
  /\ IF op = "resume" THEN state[t] \in Resumable ELSE Live(t)
  /\ handler' = [handler EXCEPT ![h] =
       [op |-> op, task |-> t,
        interrupt |-> op # "resume" /\ state[t] \in Interruptible]]
  /\ UNCHANGED <<vars, native, worker, finalizers, restarts>>

\* An interrupt that fails makes a pause fail; a cancellation goes on.
ControlInterrupt(h) ==
  /\ handler[h].interrupt
  /\ \/ /\ Interrupted(SessionOf[handler[h].task])
        /\ handler' = [handler EXCEPT ![h].interrupt = FALSE]
     \/ /\ IF Serving(h, "pause") THEN Reply(h)
           ELSE handler' = [handler EXCEPT ![h].interrupt = FALSE]
        /\ UNCHANGED native
  /\ UNCHANGED <<vars, worker, finalizers, restarts>>

ControlWrite(h) ==
  /\ handler[h].op \in DOMAIN Target /\ ~handler[h].interrupt
  /\ Attempt(handler[h].task, Target[handler[h].op])
  /\ Reply(h)
  /\ UNCHANGED <<native, worker, finalizers, restarts>>

-----------------------------------------------------------------------------

\* The lease holder's process dies with its threads; a handler may belong to
\* it or to the other server process.
Crash ==
  /\ restarts < MaxRestarts
  /\ restarts' = restarts + 1
  /\ worker' = [worker EXCEPT !.at = "waiting", !.seen = NothingSeen]
  /\ \E dead \in SUBSET Handlers :
       handler' = [h \in Handlers |-> IF h \in dead THEN Idle ELSE handler[h]]
  /\ verifying' = {}
  /\ final' = [t \in Tasks |-> NoFinalizer]
  /\ UNCHANGED <<vars, native>>

RuntimeInit ==
  /\ Init
  /\ agent = [t \in Tasks |-> "none"]
  /\ asking = [s \in Sessions |-> FALSE]
  /\ worker = [at |-> "waiting", skip |-> {}, seen |-> NothingSeen, pick |-> None]
  /\ handler = [h \in Handlers |-> Idle]
  /\ verifying = {}
  /\ final = [t \in Tasks |-> NoFinalizer]
  /\ restarts = 0

MonitorTask(t) ==
  \/ MonitorRecovering(t) \/ MonitorAsking(t) \/ MonitorResolved(t)
  \/ MonitorUnchanged(t) \/ MonitorStarted(t) \/ MonitorStuck(t) \/ MonitorPause(t)
  \/ MonitorIdle(t)

WorkerStep ==
  \/ Lead \/ Poll \/ ListActive \/ MonitorDone \/ ScanDone
  \/ WorkerClaim \/ WorkerSend \/ TickDone \/ Release
  \/ \E t \in Tasks : MonitorTask(t) \/ ScanTask(t)
  \/ \E s \in Sessions : ScanSession(s)

FinalizerStep(t) == Judge(t) \/ ReportFailure(t) \/ Close(t)

HandlerStep(h) ==
  \/ \E t \in Tasks : Dispatch(h, t) \/ \E op \in DOMAIN Target : Control(h, t, op)
  \/ HandlerClaim(h) \/ HandlerSend(h) \/ ControlInterrupt(h) \/ ControlWrite(h)

NativeStep ==
  \/ \E t \in Tasks : AgentFinish(t)
  \/ \E s \in Sessions : Ask(s) \/ Answer(s)

RuntimeNext ==
  \/ WorkerStep \/ Stop \/ Crash
  \/ \E t \in Tasks : FinalizerStep(t)
  \/ \E t \in Tasks, D \in SUBSET Tasks : Enqueue(t, D)
  \/ \E h \in Handlers : HandlerStep(h)
  \/ NativeStep

\* The worker loops for ever, its calls have timeouts and the service answers
\* some of them; finalizers end.  Users, agents and crashes owe nothing.
RuntimeSpec ==
  /\ RuntimeInit /\ [][RuntimeNext]_runtimeVars
  /\ WF_runtimeVars(WorkerStep)
  /\ \A t \in Tasks : WF_runtimeVars(FinalizerStep(t))

-----------------------------------------------------------------------------
(* Properties *)

\* The store, what the threads hold and what the service does are well typed.
RuntimeTypeOK ==
  /\ TypeOK
  /\ agent \in [Tasks -> {"none", "working", "done"}]
  /\ asking \in [Sessions -> BOOLEAN]
  /\ worker \in [at : {"waiting", "poll", "list", "monitor", "dispatch", "scan",
                       "claim", "send", "stopping"},
                 skip : SUBSET Sessions, pick : Tasks \cup {None},
                 seen : [Tasks -> TaskStates \cup {"absent", "resolved", "stuck"}]]
  /\ handler \in [Handlers -> [op : {"none", "claim", "send"} \cup DOMAIN Target,
                               task : Tasks \cup {None}, interrupt : BOOLEAN]]
  /\ verifying \in SUBSET Tasks
  /\ final \in [Tasks -> [judging : Nat, closing : Nat, leaving : Nat]]
  /\ restarts \in 0 .. MaxRestarts

\* No task has two finalizers, although a task that needs attention may be
\* resumed, run and found idle again before its finalizer is gone; otherwise
\* two verdicts and two repair tasks would follow.
Finalizers(t) == final[t].judging + final[t].closing + final[t].leaving
OneFinalizer == \A t \in Tasks : Finalizers(t) <= 1

\* No lease holder recovers a task that has a live finalizer
\* (the comment in worker, "must not recover a task while our finalizer still
\* owns it").
NoRecoveryWhileFinalizing ==
  [][\A t \in Tasks : /\ state[t] = "verifying"
                      /\ state'[t] = "recovering"
                      => Finalizers(t) = 0]_runtimeVars

\* A completed or cancelled task stays so, whatever the worker, a finalizer, a
\* dispatcher or another request decided on an older read of it.
FinishedSticks ==
  [][\A t \in Tasks : state[t] \in {"completed", "cancelled"}
                      => state'[t] = state[t]]_runtimeVars


\* A task enters the execution states beside another task of its session only
\* by a permission snapshot of the monitor that has grown old; claims of the
\* worker and the request threads, recovery and control never do that.
EntryExclusive ==
  [][\A t \in Tasks : /\ state[t] \notin ExecutionStates
                      /\ state'[t] \in ExecutionStates
                      /\ Occupied(t)
                      => Seen(t, {"waiting_permission"})]_runtimeVars

\* Nothing the worker has read before a pause makes its monitor undo it (the
\* comment in _monitor_active about a user who paused "between the snapshot
\* and the transition").
PauseSurvivesMonitor ==
  [][\A t \in Tasks : /\ state[t] = "paused"
                      /\ worker.at = "monitor" /\ worker' # worker
                      => state'[t] = "paused" \/ worker'.at = "waiting"]_runtimeVars

\* A task is completed from its verification alone, never while it executes
\* again, waits or recovers under a later lease holder.
VerdictFromVerifying ==
  [][\A t \in Tasks : /\ state'[t] = "completed"
                      /\ state[t] # "completed"
                      => state[t] = "verifying"]_runtimeVars

\* Recovery is not the end of a task: it is attached again or paused (docs/
\* server-runtime-v2.md, "recovered instead of being silently forgotten").
RecoveringResolves ==
  \A t \in Tasks : state[t] = "recovering" ~> state[t] # "recovering"

\* What the comment in claim_dispatch says: a claim serializes the session.
\* The service never works on the prompts of two tasks of one session, those
\* of failed tasks aside, whose prompts may have arrived all the same.
PromptsSerialized ==
  \A t, u \in Tasks : /\ SessionOf[t] = SessionOf[u]
                      /\ agent[t] = "working" /\ agent[u] = "working"
                      /\ "failed" \notin {state[t], state[u]}
                      => t = u

\* What docs/server-runtime-v2.md says: a paused task waits for an explicit
\* resume.  Only a resume request queues it.
PauseStands ==
  [][\A t \in Tasks : /\ state[t] = "paused"
                      /\ state'[t] \in PendingStates
                      => \E h \in Handlers : /\ handler[h].op = "resume"
                                             /\ handler[h].task = t]_runtimeVars
=============================================================================
