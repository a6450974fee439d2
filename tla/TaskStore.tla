------------------------------ MODULE TaskStore ------------------------------
(***************************************************************************)
(* The durable task table of app/runtime_store.py as the production        *)
(* composition uses it: behind the guards of app/runtime_invariants.py.    *)
(*                                                                         *)
(* One action is one SQLite transaction (BEGIN IMMEDIATE ... COMMIT).  The *)
(* guard layer checks before the transaction, under a lock of the process: *)
(* for an edit of dependencies the check and the write are two actions,    *)
(* since claims, ownership, recovery and retention do not take that lock.  *)
(* A transition and its check are one: what may come between them in one   *)
(* process is a claim or a recovery.                                       *)
(*                                                                         *)
(* The callers are an environment: each decides on a task it has read at   *)
(* some earlier time, so any of them may ask for its state whatever the    *)
(* task's state is by now, and the guard alone answers.  TaskRuntime has   *)
(* the callers, with what each has read.                                   *)
(*                                                                         *)
(* Abstracted: text, files, metadata, route and timestamps of a task (no   *)
(* guard reads them), its priority (next_ready may return any ready task), *)
(* the event log.  A task's session never changes after create_task, so it *)
(* is the constant SessionOf; its id (a uuid) is never used again.         *)
(***************************************************************************)
EXTENDS Naturals, FiniteSets

CONSTANTS Tasks,      \* task ids that may be created
          Sessions,   \* OpenCode sessions
          SessionOf,  \* the session a task is created for
          Paths       \* repository paths that tasks may own

ASSUME StoreAssumption == SessionOf \in [Tasks -> Sessions]

VARIABLES state,  \* state[t]: column tasks.state; "absent" before t has a row,
                  \* "removed" once retention has deleted it
          deps,   \* deps[t]: rows of task_dependencies with task_id = t
          owners, \* owners[p]: tasks with a patch_ownership row for path p
          edit    \* the creation or edit that holds the guard's lock, checked
                  \* and not written yet, or Free

vars == <<state, deps, owners, edit>>

-----------------------------------------------------------------------------
(* States and the transition table *)

TaskStates == {"queued", "blocked", "paused", "submitted", "running",
               "waiting_permission", "verifying", "needs_attention",
               "completed", "failed", "cancelled", "recovering"}
TerminalStates == {"completed", "failed", "cancelled"}
ExecutionStates == {"submitted", "running", "waiting_permission",
                    "verifying", "recovering"}
PendingStates == {"queued", "blocked"}
QueueStates == {"queued", "blocked", "paused"}
DeadStates == {"failed", "cancelled"}
NoRow == {"absent", "removed"}
Free == [op |-> "none"]

\* Targets the guard layer accepts from each state.
AllowedTransitions ==
  [queued |-> {"blocked", "paused", "submitted", "cancelled", "failed"},
   blocked |-> {"queued", "paused", "submitted", "cancelled", "failed"},
   paused |-> {"queued", "blocked", "cancelled", "failed", "recovering"},
   submitted |-> {"running", "waiting_permission", "paused", "verifying",
                  "failed", "cancelled", "recovering"},
   running |-> {"submitted", "waiting_permission", "paused", "verifying",
                "failed", "cancelled", "recovering"},
   waiting_permission |-> {"running", "submitted", "paused", "failed",
                           "cancelled", "recovering"},
   verifying |-> {"running", "needs_attention", "completed", "failed",
                  "cancelled", "recovering"},
   needs_attention |-> {"queued", "paused", "cancelled", "failed",
                        "recovering"},
   recovering |-> TaskStates \ {"blocked", "recovering"},
   failed |-> {"recovering", "queued"},
   completed |-> {},
   cancelled |-> {}]

Existing == {t \in Tasks : state[t] \notin NoRow}
Live(t) == state[t] \notin TerminalStates \cup NoRow
Ready(t) == \A d \in deps[t] : state[d] = "completed"

\* Tasks reachable along `d' edges: a set is closed when it holds the
\* dependencies of each of its members, and `start' depends on `target' when
\* every closed set with `start' has `target'.
ClosedUnder(d, S) == \A t \in S : d[t] \subseteq S

DependsOn(d, start, target) ==
  \A S \in SUBSET Tasks : start \in S /\ ClosedUnder(d, S) => target \in S

-----------------------------------------------------------------------------
(* The write of RuntimeStore.transition *)

\* The dependents that fail with t: the least set that holds every waiting
\* task with a dependency on t or on another member.
CascadeClosed(t, S) ==
  \A u \in Tasks : /\ u # t
                   /\ state[u] \in QueueStates
                   /\ deps[u] \cap (S \cup {t}) # {}
                   => u \in S
\* Faulty variant: fails the direct dependents only.
DirectDependents(t) ==
  {u \in Tasks \ {t} : state[u] \in QueueStates /\ t \in deps[u]}

FailedDependents(t) ==
  {u \in Tasks : \A S \in SUBSET Tasks : CascadeClosed(t, S) => u \in S}

\* State, cascade and ownership rows that one transition writes.
Write(t, to) ==
  LET doomed == IF to \in DeadStates THEN FailedDependents(t) ELSE {}
      released == doomed \cup (IF to \in TerminalStates THEN {t} ELSE {})
  IN  /\ state' = [u \in Tasks |-> IF u = t THEN to
                                   ELSE IF u \in doomed THEN "failed"
                                   ELSE state[u]]
      /\ owners' = [p \in Paths |-> owners[p] \ released]
      /\ UNCHANGED <<deps, edit>>

\* Faulty variant: any existing task may take any state.
PermitsAny(t, to) == state[t] \in TaskStates

\* What the guard layer checks of the current state.
Permits(t, to) ==
  /\ state[t] \in TaskStates
  /\ to = state[t] \/ to \in AllowedTransitions[state[t]]

\* The guarded transition, which takes the guard's lock.
Transition(t, to) == edit = Free /\ Permits(t, to) /\ Write(t, to)

\* What some caller asks for.  Recovery is not asked for: it is a raw write.
Request(t) == \E to \in TaskStates \ {"recovering"} : Transition(t, to)

-----------------------------------------------------------------------------
(* Creating, editing and claiming *)

\* Faulty variant: trusts that the dependencies exist.
CheckNothing(t, D) ==
  /\ edit = Free
  /\ state[t] = "absent"
  /\ edit' = [op |-> "create", task |-> t, on |-> D \ {t}]
  /\ UNCHANGED <<state, deps, owners>>

\* The guard takes its lock and looks the dependencies up.
CheckCreate(t, D) ==
  /\ edit = Free
  /\ state[t] = "absent"
  /\ D \subseteq Existing \ {t}
  /\ edit' = [op |-> "create", task |-> t, on |-> D]
  /\ UNCHANGED <<state, deps, owners>>

\* An edit of dependencies is checked for cycles as well.
CheckUpdate(t, D) ==
  /\ edit = Free
  /\ t \in Existing
  /\ D \subseteq Existing \ {t}
  /\ \A d \in D : ~DependsOn(deps, d, t)
  /\ edit' = [op |-> "update", task |-> t, on |-> D]
  /\ UNCHANGED <<state, deps, owners>>

\* The transaction of create_task.
Insert(t, D) ==
  /\ state' = [state EXCEPT ![t] = IF D = {} THEN "queued" ELSE "blocked"]
  /\ deps' = [deps EXCEPT ![t] = D]
  /\ UNCHANGED owners

CreateTask ==
  /\ edit.op = "create"
  /\ Insert(edit.task, edit.on)
  /\ edit' = Free

\* The transaction of update_task writes what was checked, in whatever state
\* the task is by then; it refuses (KeyError) a task that is gone.
UpdateDependencies ==
  /\ edit.op = "update"
  /\ LET t == edit.task
         D == edit.on
     IN  IF t \in Existing
         THEN /\ deps' = [deps EXCEPT ![t] = D]
              /\ state' = [state EXCEPT ![t] = IF @ \notin PendingStates THEN @
                                               ELSE IF D = {} THEN "queued"
                                               ELSE "blocked"]
         ELSE UNCHANGED <<state, deps>>
  /\ edit' = Free
  /\ UNCHANGED owners

\* Faulty variant: this raw UPDATE passes no check of TASK_STATES.
ClaimWaiting(t) ==
  /\ state[t] = "queued"
  /\ ~Ready(t)
  /\ state' = [state EXCEPT ![t] = "waiting"]
  /\ UNCHANGED <<deps, owners, edit>>

\* claim_dispatch refuses a task with an open dependency and blocks it.
ClaimBlocked(t) ==
  /\ state[t] = "queued"
  /\ ~Ready(t)
  /\ state' = [state EXCEPT ![t] = "blocked"]
  /\ UNCHANGED <<deps, owners, edit>>

Occupied(t) == \E u \in Tasks \ {t} : /\ SessionOf[u] = SessionOf[t]
                                      /\ state[u] \in ExecutionStates

\* Faulty variant: serializes the task row but not its session.
ClaimTaskOnly(t) ==
  /\ state[t] \in PendingStates
  /\ Ready(t)
  /\ state' = [state EXCEPT ![t] = "submitted"]
  /\ UNCHANGED <<deps, owners, edit>>

\* claim_dispatch takes a ready task of a session that executes nothing.
ClaimDispatch(t) ==
  /\ state[t] \in PendingStates
  /\ Ready(t)
  /\ ~Occupied(t)
  /\ state' = [state EXCEPT ![t] = "submitted"]
  /\ UNCHANGED <<deps, owners, edit>>

\* A new lease holder marks everything that was in flight.
RecoverInflight ==
  /\ state' = [t \in Tasks |-> IF state[t] \in ExecutionStates
                               THEN "recovering" ELSE state[t]]
  /\ UNCHANGED <<deps, owners, edit>>

-----------------------------------------------------------------------------
(* Patch ownership and retention *)

LiveOwners(p) == {t \in owners[p] : Live(t)}

\* Faulty variant: records the ownership in spite of a conflict.
OwnershipTaken(t, P) ==
  /\ owners' = [p \in Paths |-> IF p \in P THEN owners[p] \cup {t} ELSE owners[p] \ {t}]
  /\ UNCHANGED <<state, deps, edit>>

\* An empty request releases; a request for a path that another live task
\* owns takes nothing; a granted request adds to what t already owns.
OwnershipReplace(t, P) ==
  /\ owners' = IF P = {} THEN [p \in Paths |-> owners[p] \ {t}]
               ELSE IF \E p \in P : LiveOwners(p) \ {t} # {} THEN owners
               ELSE [p \in Paths |-> IF p \in P THEN owners[p] \cup {t}
                                     ELSE owners[p]]
  /\ UNCHANGED <<state, deps, edit>>

\* Terminal tasks that no dependency row names; how old they are is free.
Prunable == {t \in Tasks : /\ state[t] \in TerminalStates
                           /\ \A u \in Tasks : t \notin deps[u]}
Prune(S) ==
  /\ S # {} /\ S \subseteq Prunable
  /\ state' = [t \in Tasks |-> IF t \in S THEN "removed" ELSE state[t]]
  /\ deps' = [t \in Tasks |-> IF t \in S THEN {} ELSE deps[t] \ S]
  /\ owners' = [p \in Paths |-> owners[p] \ S]
  /\ UNCHANGED edit

-----------------------------------------------------------------------------

Init ==
  /\ state = [t \in Tasks |-> "absent"]
  /\ deps = [t \in Tasks |-> {}]
  /\ owners = [p \in Paths |-> {}]
  /\ edit = Free

TaskStep(t) ==
  \/ \E D \in SUBSET Tasks : CheckCreate(t, D) \/ CheckUpdate(t, D)
  \/ Request(t) \/ ClaimBlocked(t) \/ ClaimDispatch(t)
  \/ \E P \in SUBSET Paths : state[t] # "absent" /\ OwnershipReplace(t, P)

Next ==
  \/ \E t \in Tasks : TaskStep(t)
  \/ CreateTask \/ UpdateDependencies
  \/ RecoverInflight
  \/ \E S \in SUBSET Tasks : Prune(S)

Spec == Init /\ [][Next]_vars

-----------------------------------------------------------------------------
(* Properties *)

\* Every column holds a value the schema and TASK_STATES allow.
TypeOK ==
  /\ state \in [Tasks -> TaskStates \cup NoRow]
  /\ deps \in [Tasks -> SUBSET Tasks]
  /\ owners \in [Paths -> SUBSET Tasks]
  /\ edit \in {Free} \cup [op : {"create", "update"}, task : Tasks, on : SUBSET Tasks]

\* What the comment in claim_dispatch says, "a claim must serialize the
\* session": a session never executes two tasks.  TaskRuntime refutes it.
SessionExclusive ==
  \A t, u \in Tasks : /\ state[t] \in ExecutionStates
                      /\ state[u] \in ExecutionStates
                      /\ SessionOf[t] = SessionOf[u]
                      => t = u

\* No sequence of creations, edits and prunes closes a dependency cycle, on
\* which next_ready would wait forever.
AcyclicDependencies ==
  \A S \in SUBSET Tasks : S # {} => \E t \in S : deps[t] \cap S = {}

\* Retention never leaves a dependency row without its task, and an edit adds
\* such a row only when retention has removed the task since the edit's check:
\* no row ever names a task that has not been there.
DependenciesExist ==
  [][\A t \in Tasks : \A d \in deps'[t] \ Existing' :
       \/ d \in deps[t] \ Existing
       \/ edit # Free /\ edit.task = t /\ d \in edit.on /\ state[d] = "removed"]_vars

\* No step makes two live tasks the owners of one path, whatever is released,
\* cancelled or pruned in between; a late resume that brings a failed task back
\* is the exception, since the path may have been given away meanwhile.
OwnershipDisjoint ==
  [][\A p \in Paths : \A t, u \in LiveOwners(p)' :
       \/ t = u \/ {t, u} \subseteq LiveOwners(p)
       \/ "failed" \in {state[t], state[u]}]_vars

\* A step that fails or cancels a task leaves no task waiting on it, directly
\* or through another task of the same cascade.
FailureCascades ==
  [][\A t, u \in Tasks : /\ state[t] \notin DeadStates
                         /\ state'[t] \in DeadStates
                         /\ t \in deps'[u]
                         => state'[u] \notin QueueStates]_vars

\* Retention never changes what a remaining task waits for: a task is ready
\* after a prune exactly when it was ready before.
PruneKeepsReadiness ==
  [][\A S \in SUBSET Tasks : Prune(S)
       => \A t \in Tasks \ S : Ready(t)' = Ready(t)]_vars

\* What the docstring of _fail_dependents_db says of the whole program: no
\* task is left waiting on a dependency that can no longer complete.
NoWaitOnDeadDependency ==
  \A t \in Tasks : state[t] \in QueueStates
                   => \A d \in deps[t] : state[d] \notin DeadStates
=============================================================================
