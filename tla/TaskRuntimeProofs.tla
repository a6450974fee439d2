-------------------------- MODULE TaskRuntimeProofs --------------------------
(***************************************************************************)
(* Proofs about TaskStore and TaskRuntime, for every set of tasks,         *)
(* sessions, paths and request threads and any number of restarts.         *)
(*                                                                         *)
(* The store: WriteFacts says what a guarded write may do to the other      *)
(* tasks through the cascade.  An edit that has been checked and not been  *)
(* written yet must stay harmless whatever happens meanwhile: EditSafe.    *)
(* IInv is inductive; the properties follow from it step by step.          *)
(*                                                                         *)
(* The runtime: the store changes by a creation, a claim, a guarded        *)
(* transition (never to "recovering", and to "completed" by a verdict      *)
(* only) or the recovery of a new leader; and a leader waits only while    *)
(* there are no finalizers.                                                *)
(***************************************************************************)
EXTENDS TaskRuntime, TLAPS

-----------------------------------------------------------------------------
(* The store *)

Unborn == {t \in Tasks : state[t] = "absent"}

\* No row names a task that has never been there.
NamesKnown ==
  /\ \A t \in Tasks : deps[t] \cap Unborn = {}
  /\ \A p \in Paths : owners[p] \cap Unborn = {}

\* What an edit under way is about to write would close no cycle.
EditSafe ==
  edit # Free =>
    /\ edit.on \cap Unborn = {}
    /\ edit.op = "create" => edit.task \in Unborn
    /\ edit.op = "update" =>
         /\ edit.task \notin Unborn
         /\ \E C \in SUBSET Tasks : /\ ClosedUnder(deps, C) /\ edit.on \subseteq C
                                   /\ edit.task \notin C

IInv == TypeOK /\ AcyclicDependencies /\ NamesKnown /\ EditSafe

Checks(t) == \E D \in SUBSET Tasks : CheckCreate(t, D) \/ CheckUpdate(t, D)
OwnStep(t) == \E P \in SUBSET Paths : state[t] # "absent" /\ OwnershipReplace(t, P)

\* A write the guard lets through.
PlainMove(t, to) == to \in TaskStates \ {"recovering"} /\ Transition(t, to)

-----------------------------------------------------------------------------
(* The cascade *)

\* A cascade only takes other tasks, and only waiting ones.
LEMMA CascadeWaiting ==
  ASSUME NEW t \in Tasks, TypeOK
  PROVE  FailedDependents(t) \subseteq {u \in Tasks \ {t} : state[u] \in QueueStates}
<1> DEFINE W == {u \in Tasks \ {t} : state[u] \in QueueStates}
<1>1. W \in SUBSET Tasks
  OBVIOUS
<1>2. CascadeClosed(t, W)
  BY DEF CascadeClosed
<1>3. QED
  BY <1>1, <1>2 DEF FailedDependents

\* A cascade leaves out no waiting task that depends on t or on a member.
LEMMA CascadeComplete ==
  ASSUME NEW t \in Tasks
  PROVE  CascadeClosed(t, FailedDependents(t))
<1> SUFFICES ASSUME NEW u \in Tasks, u # t, state[u] \in QueueStates,
                    deps[u] \cap (FailedDependents(t) \cup {t}) # {}
             PROVE  u \in FailedDependents(t)
  BY DEF CascadeClosed
<1> SUFFICES ASSUME NEW S \in SUBSET Tasks, CascadeClosed(t, S)
             PROVE  u \in S
  BY DEF FailedDependents
<1>1. FailedDependents(t) \subseteq S
  BY DEF FailedDependents
<1>2. deps[u] \cap (S \cup {t}) # {}
  BY <1>1
<1>3. QED
  BY <1>2 DEF CascadeClosed

\* What one write does to the three tables.
LEMMA WriteFacts ==
  ASSUME TypeOK, NEW t \in Tasks, NEW to \in TaskStates, Write(t, to)
  PROVE  /\ state' \in [Tasks -> TaskStates \cup NoRow]
         /\ owners' \in [Paths -> SUBSET Tasks]
         /\ deps' = deps /\ edit' = edit
         /\ state'[t] = to
         /\ \A u \in Tasks \ {t} : \/ state'[u] = state[u]
                                   \/ /\ state[u] \in QueueStates
                                      /\ state'[u] = "failed"
                                      /\ to \in DeadStates
         /\ \A p \in Paths : owners'[p] \subseteq owners[p]
<1> DEFINE doomed == IF to \in DeadStates THEN FailedDependents(t) ELSE {}
           released == doomed \cup (IF to \in TerminalStates THEN {t} ELSE {})
<1>1. /\ doomed \subseteq {u \in Tasks \ {t} : state[u] \in QueueStates}
      /\ doomed # {} => to \in DeadStates
  BY CascadeWaiting
<1>2. /\ state' = [u \in Tasks |-> IF u = t THEN to
                                   ELSE IF u \in doomed THEN "failed"
                                   ELSE state[u]]
      /\ owners' = [p \in Paths |-> owners[p] \ released]
      /\ deps' = deps /\ edit' = edit
  BY DEF Write
<1> HIDE DEF doomed, released
<1>3. "failed" \in TaskStates
  BY DEF TaskStates
<1>4. QED
  BY <1>1, <1>2, <1>3 DEF TypeOK

-----------------------------------------------------------------------------
(* The kinds of steps *)

\* A step of the store, whoever asks for it.
LEMMA StepKinds ==
  ASSUME [Next]_vars
  PROVE  \/ \E t \in Tasks : \/ Checks(t) \/ OwnStep(t)
                            \/ ClaimBlocked(t) \/ ClaimDispatch(t)
                            \/ \E to \in TaskStates : PlainMove(t, to)
         \/ CreateTask \/ UpdateDependencies \/ RecoverInflight
         \/ \E S \in SUBSET Tasks : Prune(S)
         \/ UNCHANGED vars
BY DEF Next, TaskStep, Request, Checks, OwnStep, PlainMove

\* What the edit under way looks like.
LEMMA EditForm ==
  ASSUME TypeOK, edit.op \in {"create", "update"}
  PROVE  /\ edit # Free
         /\ edit \in [op : {"create", "update"}, task : Tasks, on : SUBSET Tasks]
         /\ edit.task \in Tasks /\ edit.on \in SUBSET Tasks
<1>1. edit # Free
  BY DEF Free
<1>2. QED
  BY <1>1 DEF TypeOK

-----------------------------------------------------------------------------
(* Types *)

\* The empty tables have their types.
LEMMA InitType == Init => TypeOK
BY DEF Init, TypeOK, NoRow

\* Every step keeps the types.
LEMMA TypeStep == TypeOK /\ [Next]_vars => TypeOK'
<1> SUFFICES ASSUME TypeOK, [Next]_vars
             PROVE  TypeOK'
  OBVIOUS
<1>1. ASSUME NEW t \in Tasks, Checks(t)
      PROVE  TypeOK'
  BY <1>1 DEF Checks, CheckCreate, CheckUpdate, TypeOK
<1>2. CASE CreateTask
  BY <1>2, EditForm DEF CreateTask, Insert, TypeOK, TaskStates
<1>3. CASE UpdateDependencies
  <2>1. edit.task \in Tasks /\ edit.on \in SUBSET Tasks
    BY <1>3, EditForm DEF UpdateDependencies
  <2>2. QED
    BY <1>3, <2>1 DEF UpdateDependencies, TypeOK, TaskStates
<1>4. ASSUME NEW t \in Tasks, ClaimBlocked(t) \/ ClaimDispatch(t)
      PROVE  TypeOK'
  BY <1>4 DEF ClaimBlocked, ClaimDispatch, TypeOK, TaskStates
<1>5. ASSUME NEW t \in Tasks, OwnStep(t)
      PROVE  TypeOK'
  BY <1>5 DEF OwnStep, OwnershipReplace, TypeOK
<1>6. ASSUME NEW t \in Tasks, NEW to \in TaskStates, PlainMove(t, to)
      PROVE  TypeOK'
  BY <1>6, WriteFacts DEF PlainMove, Transition, TypeOK
<1>7. CASE RecoverInflight
  BY <1>7 DEF RecoverInflight, TypeOK, TaskStates
<1>8. ASSUME NEW S \in SUBSET Tasks, Prune(S)
      PROVE  TypeOK'
  BY <1>8 DEF Prune, TypeOK, NoRow
<1>9. CASE UNCHANGED vars
  BY <1>9 DEF vars, TypeOK
<1>10. QED
  BY <1>1, <1>2, <1>3, <1>4, <1>5, <1>6, <1>7, <1>8, <1>9, StepKinds

\* The tables always hold values of their types.
THEOREM TypeCorrect == Spec => []TypeOK
<1>1. QED
  BY InitType, TypeStep, PTL DEF Spec

-----------------------------------------------------------------------------
(* Dependencies *)

\* Removing dependency rows cannot close a cycle.
LEMMA AcyclicShrinks ==
  ASSUME AcyclicDependencies, \A t \in Tasks : deps'[t] \subseteq deps[t]
  PROVE  AcyclicDependencies'
BY DEF AcyclicDependencies

\* Giving t the dependencies D keeps the graph acyclic when some closed set
\* holds D and leaves t out.
LEMMA AcyclicExtends ==
  ASSUME TypeOK, AcyclicDependencies,
         NEW t \in Tasks, NEW D \in SUBSET Tasks, NEW C \in SUBSET Tasks,
         ClosedUnder(deps, C), D \subseteq C, t \notin C,
         deps' = [deps EXCEPT ![t] = D]
  PROVE  AcyclicDependencies'
<1> SUFFICES ASSUME NEW S \in SUBSET Tasks, S # {}
             PROVE  \E u \in S : deps'[u] \cap S = {}
  BY DEF AcyclicDependencies
<1>1. deps'[t] = D /\ \A u \in Tasks \ {t} : deps'[u] = deps[u]
  BY DEF TypeOK
<1>2. CASE S \cap C # {}
  <2>1. PICK u \in S \cap C : deps[u] \cap (S \cap C) = {}
    BY <1>2 DEF AcyclicDependencies
  <2>2. deps[u] \subseteq C /\ u # t
    BY <2>1 DEF ClosedUnder
  <2>3. QED
    BY <1>1, <2>1, <2>2
<1>3. CASE S \cap C = {} /\ t \in S
  BY <1>1, <1>3
<1>4. CASE S \cap C = {} /\ t \notin S
  <2>1. PICK u \in S : deps[u] \cap S = {}
    BY DEF AcyclicDependencies
  <2>2. QED
    BY <1>1, <1>4, <2>1
<1>5. QED
  BY <1>2, <1>3, <1>4

\* The cycle check yields such a closed set: the union of the closed sets
\* without t.
LEMMA CycleCheck ==
  ASSUME NEW t \in Tasks, NEW D \in SUBSET Tasks,
         \A d \in D : ~DependsOn(deps, d, t)
  PROVE  \E C \in SUBSET Tasks : ClosedUnder(deps, C) /\ D \subseteq C /\ t \notin C
<1> DEFINE C == UNION {S \in SUBSET Tasks : ClosedUnder(deps, S) /\ t \notin S}
<1>1. C \in SUBSET Tasks /\ t \notin C
  OBVIOUS
<1>2. ClosedUnder(deps, C)
  BY DEF ClosedUnder
<1>3. D \subseteq C
  BY DEF DependsOn
<1>4. QED
  BY <1>1, <1>2, <1>3

\* Removing dependency rows opens no closed set.
LEMMA ClosedShrinks ==
  ASSUME NEW C \in SUBSET Tasks, ClosedUnder(deps, C),
         \A t \in Tasks : deps'[t] \subseteq deps[t]
  PROVE  ClosedUnder(deps', C)
BY DEF ClosedUnder

\* A step that adds no rows, brings no task back to before its creation and
\* leaves the edit under way alone keeps what is known of names and edits.
LEMMA QuietStep ==
  ASSUME IInv, edit' = edit,
         \A t \in Tasks : deps'[t] \subseteq deps[t],
         \A p \in Paths : owners'[p] \subseteq owners[p] \cup (Tasks \ Unborn),
         \A t \in Tasks : state'[t] = "absent" <=> state[t] = "absent"
  PROVE  AcyclicDependencies' /\ NamesKnown' /\ EditSafe'
<1>1. AcyclicDependencies'
  BY AcyclicShrinks DEF IInv
<1>2. Unborn' = Unborn
  BY DEF Unborn
<1>3. NamesKnown'
  BY <1>2 DEF IInv, NamesKnown
<1>4. EditSafe'
  BY <1>2, ClosedShrinks DEF IInv, EditSafe
<1>5. QED
  BY <1>1, <1>3, <1>4

\* The check of an edit makes it safe: a creation names tasks that exist and
\* is named by none, an update passes the cycle check.
LEMMA CheckStep ==
  ASSUME IInv, NEW t \in Tasks, Checks(t)
  PROVE  AcyclicDependencies' /\ NamesKnown' /\ EditSafe'
<1>1. PICK D \in SUBSET Tasks : CheckCreate(t, D) \/ CheckUpdate(t, D)
  BY DEF Checks
<1>2. UNCHANGED <<state, deps, owners>>
  BY <1>1 DEF CheckCreate, CheckUpdate
<1>3. AcyclicDependencies' /\ NamesKnown'
  BY <1>2 DEF IInv, AcyclicDependencies, NamesKnown, Unborn
<1>4. D \cap Unborn = {}
  BY <1>1 DEF CheckCreate, CheckUpdate, Existing, Unborn, NoRow
<1>5. CASE CheckCreate(t, D)
  <2>1. /\ edit'.op = "create" /\ edit'.task = t /\ edit'.on = D
        /\ state[t] = "absent"
    BY <1>5 DEF CheckCreate
  <2>2. QED
    BY <1>2, <1>3, <1>4, <2>1 DEF EditSafe, Unborn
<1>6. CASE CheckUpdate(t, D)
  <2>1. PICK C \in SUBSET Tasks : ClosedUnder(deps, C) /\ D \subseteq C /\ t \notin C
    BY <1>6, CycleCheck DEF CheckUpdate
  <2>2. /\ edit'.op = "update" /\ edit'.task = t /\ edit'.on = D
        /\ t \notin Unborn
    BY <1>6 DEF CheckUpdate, Existing, Unborn, NoRow
  <2>3. Unborn' = Unborn /\ ClosedUnder(deps', C)
    BY <1>2, <2>1 DEF Unborn
  <2>4. QED
    BY <1>3, <1>4, <2>1, <2>2, <2>3 DEF EditSafe
<1>7. QED
  BY <1>1, <1>3, <1>5, <1>6

\* The insertion of a task that nobody names closes no cycle.
LEMMA CreateStep ==
  ASSUME IInv, CreateTask
  PROVE  AcyclicDependencies' /\ NamesKnown' /\ EditSafe'
<1> DEFINE t == edit.task
           C == Tasks \ {t}
<1>1. TypeOK /\ NamesKnown /\ AcyclicDependencies
  BY DEF IInv
<1>2. t \in Unborn /\ edit.on \in SUBSET Tasks /\ edit.on \cap Unborn = {}
  BY <1>1, EditForm DEF CreateTask, IInv, EditSafe
<1>3. /\ state' = [state EXCEPT ![t] = IF edit.on = {} THEN "queued" ELSE "blocked"]
      /\ deps' = [deps EXCEPT ![t] = edit.on]
      /\ owners' = owners /\ edit' = Free
  BY DEF CreateTask, Insert
<1>4. t \in Tasks /\ state[t] = "absent"
  BY <1>2 DEF Unborn
<1>5. ClosedUnder(deps, C) /\ edit.on \subseteq C
  BY <1>1, <1>2 DEF ClosedUnder, NamesKnown, TypeOK
<1> HIDE DEF t
<1>6. AcyclicDependencies'
  BY <1>1, <1>2, <1>3, <1>4, <1>5, AcyclicExtends
<1>7. Unborn' \subseteq Unborn
  BY <1>1, <1>3, <1>4 DEF Unborn, TypeOK
<1>8. NamesKnown'
  BY <1>1, <1>2, <1>3, <1>4, <1>7 DEF NamesKnown, TypeOK
<1>9. QED
  BY <1>3, <1>6, <1>8 DEF EditSafe

\* So does the write of an update that has stayed safe since its check.
LEMMA UpdateStep ==
  ASSUME IInv, UpdateDependencies
  PROVE  AcyclicDependencies' /\ NamesKnown' /\ EditSafe'
<1> DEFINE t == edit.task
<1>1. TypeOK /\ NamesKnown /\ AcyclicDependencies
  BY DEF IInv
<1>2. /\ t \in Tasks /\ edit.on \in SUBSET Tasks /\ edit.on \cap Unborn = {}
      /\ t \notin Unborn
      /\ \E C \in SUBSET Tasks : ClosedUnder(deps, C) /\ edit.on \subseteq C /\ t \notin C
  BY <1>1, EditForm DEF UpdateDependencies, IInv, EditSafe
<1>3. owners' = owners /\ edit' = Free
  BY DEF UpdateDependencies
<1>4. CASE t \in Existing
  <2>1. /\ deps' = [deps EXCEPT ![t] = edit.on]
        /\ state' = [state EXCEPT ![t] = IF @ \notin PendingStates THEN @
                                         ELSE IF edit.on = {} THEN "queued"
                                         ELSE "blocked"]
    BY <1>4 DEF UpdateDependencies
  <2> HIDE DEF t
  <2>2. AcyclicDependencies'
    BY <1>1, <1>2, <2>1, AcyclicExtends
  <2>3. Unborn' = Unborn
    BY <1>1, <1>2, <2>1 DEF Unborn, TypeOK
  <2>4. NamesKnown'
    BY <1>1, <1>2, <1>3, <2>1, <2>3 DEF NamesKnown, TypeOK
  <2>5. QED
    BY <1>3, <2>2, <2>4 DEF EditSafe
<1>5. CASE t \notin Existing
  <2>1. UNCHANGED <<state, deps>>
    BY <1>5 DEF UpdateDependencies
  <2>2. AcyclicDependencies' /\ NamesKnown'
    BY <1>1, <1>3, <2>1 DEF AcyclicDependencies, NamesKnown, Unborn
  <2>3. QED
    BY <1>3, <2>2 DEF EditSafe
<1>6. QED
  BY <1>4, <1>5

-----------------------------------------------------------------------------
(* The inductive invariant and the acyclic graph *)

\* The inductive invariant holds of the empty store.
LEMMA InitIInv == Init => IInv
<1> SUFFICES ASSUME Init PROVE IInv
  OBVIOUS
<1>1. TypeOK
  BY InitType
<1>2. AcyclicDependencies /\ NamesKnown
  BY DEF Init, AcyclicDependencies, NamesKnown
<1>3. EditSafe
  BY DEF Init, EditSafe
<1>4. QED
  BY <1>1, <1>2, <1>3 DEF IInv

\* Every step keeps the inductive invariant.
LEMMA StepIInv == IInv /\ [Next]_vars => IInv'
<1> SUFFICES ASSUME IInv, [Next]_vars
             PROVE  AcyclicDependencies' /\ NamesKnown' /\ EditSafe'
  BY TypeStep DEF IInv
<1>1. TypeOK
  BY DEF IInv
<1>2. ASSUME NEW t \in Tasks, OwnStep(t)
      PROVE  AcyclicDependencies' /\ NamesKnown' /\ EditSafe'
  <2>1. /\ UNCHANGED <<state, deps, edit>> /\ t \notin Unborn
        /\ \A p \in Paths : owners'[p] \subseteq owners[p] \cup {t}
    BY <1>1, <1>2 DEF OwnStep, OwnershipReplace, TypeOK, Unborn
  <2>2. QED
    BY <2>1, QuietStep
<1>3. ASSUME NEW t \in Tasks, ClaimBlocked(t) \/ ClaimDispatch(t)
      PROVE  AcyclicDependencies' /\ NamesKnown' /\ EditSafe'
  BY <1>1, <1>3, QuietStep DEF ClaimBlocked, ClaimDispatch, TypeOK, PendingStates
<1>4. ASSUME NEW t \in Tasks, NEW to \in TaskStates, PlainMove(t, to)
      PROVE  AcyclicDependencies' /\ NamesKnown' /\ EditSafe'
  <2>1. /\ deps' = deps /\ edit' = edit
        /\ \A p \in Paths : owners'[p] \subseteq owners[p]
        /\ \A u \in Tasks : state'[u] = "absent" <=> state[u] = "absent"
    BY <1>1, <1>4, WriteFacts
       DEF PlainMove, Transition, Permits, TaskStates, QueueStates
  <2>2. QED
    BY <2>1, QuietStep
<1>5. CASE RecoverInflight
  BY <1>1, <1>5, QuietStep DEF RecoverInflight, TypeOK, ExecutionStates
<1>6. ASSUME NEW S \in SUBSET Tasks, Prune(S)
      PROVE  AcyclicDependencies' /\ NamesKnown' /\ EditSafe'
  <2>1. /\ edit' = edit
        /\ \A t \in Tasks : deps'[t] \subseteq deps[t]
        /\ \A p \in Paths : owners'[p] \subseteq owners[p]
        /\ \A t \in Tasks : state'[t] = "absent" <=> state[t] = "absent"
    BY <1>1, <1>6 DEF Prune, Prunable, TerminalStates, TypeOK
  <2>2. QED
    BY <2>1, QuietStep
<1>7. CASE UNCHANGED vars
  <2>1. UNCHANGED <<state, deps, owners, edit>>
    BY <1>7 DEF vars
  <2>2. QED
    BY <2>1, QuietStep
<1>8. QED
  BY <1>2, <1>3, <1>4, <1>5, <1>6, <1>7, CheckStep, CreateStep, UpdateStep, StepKinds

\* The inductive invariant holds of every behaviour of the store.
LEMMA InvariantHolds == Spec => []IInv
BY InitIInv, StepIInv, PTL DEF Spec

\* The dependency graph never has a cycle, whatever claims, recoveries and
\* prunes come between the check of an edit and its write.
THEOREM DependenciesAcyclic == Spec => []AcyclicDependencies
<1>1. IInv => AcyclicDependencies
  BY DEF IInv
<1>2. QED
  BY <1>1, InvariantHolds, PTL

-----------------------------------------------------------------------------
(* Action properties *)

RowsNamed ==
  \A t \in Tasks : \A d \in deps'[t] \ Existing' :
    \/ d \in deps[t] \ Existing
    \/ edit # Free /\ edit.task = t /\ d \in edit.on /\ state[d] = "removed"
OwnersApart ==
  \A p \in Paths : \A t, u \in LiveOwners(p)' :
    \/ t = u \/ {t, u} \subseteq LiveOwners(p)
    \/ "failed" \in {state[t], state[u]}
CascadeDone == \A t, u \in Tasks : /\ state[t] \notin DeadStates
                                   /\ state'[t] \in DeadStates
                                   /\ t \in deps'[u]
                                   => state'[u] \notin QueueStates
ReadinessKept == \A S \in SUBSET Tasks : Prune(S)
                   => \A t \in Tasks \ S : Ready(t)' = Ready(t)

\* Only the write of an edit adds rows, and what it names has been there.
LEMMA RowsStep == IInv /\ [Next]_vars => RowsNamed
<1> SUFFICES ASSUME IInv, [Next]_vars
             PROVE  RowsNamed
  OBVIOUS
<1>1. TypeOK
  BY DEF IInv
<1>2. ASSUME \A t \in Tasks : deps'[t] \subseteq deps[t],
             \A t \in Tasks : \A d \in deps'[t] : d \in Existing => d \in Existing'
      PROVE  RowsNamed
  BY <1>2 DEF RowsNamed
<1>3. ASSUME NEW t \in Tasks, t = edit.task, edit # Free,
             edit.on \subseteq Tasks, edit.on \cap Unborn = {},
             Existing \subseteq Existing',
             deps' = [deps EXCEPT ![t] = edit.on]
      PROVE  RowsNamed
  <2>1. \A d \in edit.on \ Existing : state[d] = "removed"
    BY <1>1, <1>3 DEF Existing, Unborn, NoRow, TypeOK
  <2>2. \A u \in Tasks : deps'[u] = IF u = t THEN edit.on ELSE deps[u]
    BY <1>1, <1>3 DEF TypeOK
  <2>3. QED
    BY <1>3, <2>1, <2>2 DEF RowsNamed
<1>4. ASSUME NEW t \in Tasks, Checks(t) \/ OwnStep(t)
      PROVE  RowsNamed
  <2>1. UNCHANGED <<state, deps>>
    BY <1>4 DEF Checks, CheckCreate, CheckUpdate, OwnStep, OwnershipReplace
  <2>2. QED
    BY <1>2, <2>1 DEF Existing
<1>5. CASE CreateTask
  <2>1. /\ edit.task \in Tasks /\ edit # Free /\ edit.on \subseteq Tasks
        /\ edit.on \cap Unborn = {}
    BY <1>1, <1>5, EditForm DEF CreateTask, IInv, EditSafe
  <2>2. /\ state' = [state EXCEPT ![edit.task] = IF edit.on = {} THEN "queued" ELSE "blocked"]
        /\ deps' = [deps EXCEPT ![edit.task] = edit.on]
    BY <1>5 DEF CreateTask, Insert
  <2>3. Existing \subseteq Existing'
    BY <1>1, <2>1, <2>2 DEF Existing, NoRow, TypeOK
  <2>4. QED
    BY <1>3, <2>1, <2>2, <2>3
<1>6. CASE UpdateDependencies
  <2>1. /\ edit.task \in Tasks /\ edit # Free /\ edit.on \subseteq Tasks
        /\ edit.on \cap Unborn = {}
    BY <1>1, <1>6, EditForm DEF UpdateDependencies, IInv, EditSafe
  <2>2. CASE edit.task \in Existing
    <3>1. /\ deps' = [deps EXCEPT ![edit.task] = edit.on]
          /\ state' = [state EXCEPT ![edit.task] =
                         IF @ \notin PendingStates THEN @
                         ELSE IF edit.on = {} THEN "queued" ELSE "blocked"]
      BY <1>6, <2>2 DEF UpdateDependencies
    <3>2. Existing \subseteq Existing'
      BY <1>1, <2>1, <3>1 DEF Existing, NoRow, TypeOK
    <3>3. QED
      BY <1>3, <2>1, <3>1, <3>2
  <2>3. CASE edit.task \notin Existing
    BY <1>2, <1>6, <2>3 DEF UpdateDependencies, Existing
  <2>4. QED
    BY <2>2, <2>3
<1>7. ASSUME NEW t \in Tasks, ClaimBlocked(t) \/ ClaimDispatch(t)
      PROVE  RowsNamed
  BY <1>1, <1>2, <1>7 DEF ClaimBlocked, ClaimDispatch, Existing, NoRow, TypeOK
<1>8. ASSUME NEW t \in Tasks, NEW to \in TaskStates, PlainMove(t, to)
      PROVE  RowsNamed
  <2>1. deps' = deps /\ Existing \subseteq Existing'
    BY <1>1, <1>8, WriteFacts DEF PlainMove, Transition, Existing, NoRow, TaskStates, QueueStates
  <2>2. QED
    BY <1>2, <2>1
<1>9. CASE RecoverInflight
  BY <1>1, <1>2, <1>9 DEF RecoverInflight, Existing, NoRow, TypeOK
<1>10. ASSUME NEW S \in SUBSET Tasks, Prune(S)
       PROVE  RowsNamed
  BY <1>1, <1>2, <1>10 DEF Prune, Existing, NoRow, TypeOK
<1>11. CASE UNCHANGED vars
  BY <1>2, <1>11 DEF vars, Existing
<1>12. QED
  BY <1>4, <1>5, <1>6, <1>7, <1>8, <1>9, <1>10, <1>11, StepKinds

\* A dependency row without its task comes from an edit that a prune overtook.
THEOREM DependenciesStay == Spec => DependenciesExist
<1>1. IInv /\ [Next]_vars => [RowsNamed]_vars
  BY RowsStep
<1>2. Spec => [][RowsNamed]_vars
  BY <1>1, InvariantHolds, PTL DEF Spec
<1>3. QED
  BY <1>2 DEF DependenciesExist, RowsNamed

\* A completed or cancelled task, or one without a row, is given no other state.
LEMMA TableEnds ==
  /\ AllowedTransitions["completed"] = {} /\ AllowedTransitions["cancelled"] = {}
  /\ \A s \in TaskStates : "completed" \in AllowedTransitions[s]
                           => s \in {"verifying", "recovering"}
BY DEF AllowedTransitions, TaskStates

\* A step without a grant adds no live owner but a task that had failed.
LEMMA ApartShrinks ==
  ASSUME \A p \in Paths : \A t \in LiveOwners(p)' : t \in LiveOwners(p) \/ state[t] = "failed"
  PROVE  OwnersApart
BY DEF OwnersApart

\* A grant looks at the other live owners of its paths.
LEMMA GrantStep ==
  ASSUME TypeOK, NEW t \in Tasks, OwnStep(t)
  PROVE  OwnersApart
<1>1. PICK P \in SUBSET Paths : OwnershipReplace(t, P)
  BY DEF OwnStep
<1>2. state' = state
  BY <1>1 DEF OwnershipReplace
<1> SUFFICES ASSUME NEW p \in Paths, NEW u \in LiveOwners(p)', NEW v \in LiveOwners(p)'
             PROVE  u = v \/ {u, v} \subseteq LiveOwners(p)
  BY DEF OwnersApart
<1>3. Live(u) /\ Live(v) /\ u \in owners'[p] /\ v \in owners'[p] /\ u \in Tasks /\ v \in Tasks
  BY <1>1, <1>2 DEF LiveOwners, Live, OwnershipReplace, TypeOK
<1>4. CASE p \in P /\ \A q \in P : LiveOwners(q) \ {t} = {}
  BY <1>1, <1>3, <1>4 DEF OwnershipReplace, LiveOwners, TypeOK
<1>5. CASE ~(p \in P /\ \A q \in P : LiveOwners(q) \ {t} = {})
  <2>1. owners'[p] \subseteq owners[p]
    BY <1>1, <1>5 DEF OwnershipReplace, TypeOK
  <2>2. QED
    BY <1>3, <2>1 DEF LiveOwners
<1>6. QED
  BY <1>4, <1>5

\* Every step keeps live owners apart, but for a failed task that returns.
LEMMA OwnersStep == IInv /\ [Next]_vars => OwnersApart
<1> SUFFICES ASSUME IInv, [Next]_vars
             PROVE  OwnersApart
  OBVIOUS
<1>1. TypeOK /\ NamesKnown
  BY DEF IInv
<1> USE DEF Live, TerminalStates, NoRow
<1>2. ASSUME \A p \in Paths : owners'[p] \subseteq owners[p],
             \A t \in Tasks : /\ state[t] \in TerminalStates \cup {"removed"}
                              /\ state[t] # "failed"
                              => ~Live(t)'
      PROVE  OwnersApart
  <2>1. \A p \in Paths : \A t \in owners[p] : t \in Tasks /\ state[t] # "absent"
    BY <1>1 DEF NamesKnown, Unborn, TypeOK
  <2>2. QED
    BY <1>2, <2>1, ApartShrinks DEF LiveOwners
<1>3. ASSUME NEW t \in Tasks, Checks(t)
      PROVE  OwnersApart
  <2>1. UNCHANGED <<state, owners>>
    BY <1>3 DEF Checks, CheckCreate, CheckUpdate
  <2>2. QED
    BY <1>2, <2>1
<1>4. CASE CreateTask
  <2>1. edit.task \in Tasks /\ state[edit.task] = "absent"
    BY <1>1, <1>4, EditForm DEF CreateTask, IInv, EditSafe, Unborn
  <2>2. QED
    BY <1>1, <1>2, <1>4, <2>1 DEF CreateTask, Insert, TypeOK
<1>5. CASE UpdateDependencies
  <2>1. edit.task \in Tasks
    BY <1>1, <1>5, EditForm DEF UpdateDependencies
  <2>2. QED
    BY <1>1, <1>2, <1>5, <2>1 DEF UpdateDependencies, TypeOK, PendingStates
<1>6. ASSUME NEW t \in Tasks, ClaimBlocked(t) \/ ClaimDispatch(t)
      PROVE  OwnersApart
  BY <1>1, <1>2, <1>6 DEF ClaimBlocked, ClaimDispatch, TypeOK, PendingStates
<1>7. ASSUME NEW t \in Tasks, NEW to \in TaskStates, PlainMove(t, to)
      PROVE  OwnersApart
  <2>1. /\ \A p \in Paths : owners'[p] \subseteq owners[p]
        /\ state'[t] = to
        /\ \A u \in Tasks \ {t} : \/ state'[u] = state[u]
                                   \/ state[u] \in QueueStates
        /\ state[t] \in TaskStates
        /\ to = state[t] \/ to \in AllowedTransitions[state[t]]
    BY <1>1, <1>7, WriteFacts DEF PlainMove, Transition, Permits
  <2>2. "removed" \notin TaskStates
    BY DEF TaskStates
  <2>3. QED
    BY <1>2, <2>1, <2>2, TableEnds DEF QueueStates
<1>8. CASE RecoverInflight
  BY <1>1, <1>2, <1>8 DEF RecoverInflight, TypeOK, ExecutionStates
<1>9. ASSUME NEW S \in SUBSET Tasks, Prune(S)
      PROVE  OwnersApart
  BY <1>1, <1>2, <1>9 DEF Prune, TypeOK
<1>10. CASE UNCHANGED vars
  BY <1>2, <1>10 DEF vars
<1>11. QED
  BY <1>1, <1>3, <1>4, <1>5, <1>6, <1>7, <1>8, <1>9, <1>10, GrantStep, StepKinds

\* No path gets a second live owner, but by a failed task that returns.
THEOREM OwnersDisjoint == Spec => OwnershipDisjoint
<1>1. IInv /\ [Next]_vars => [OwnersApart]_vars
  BY OwnersStep
<1>2. Spec => [][OwnersApart]_vars
  BY <1>1, InvariantHolds, PTL DEF Spec
<1>3. QED
  BY <1>2 DEF OwnershipDisjoint, OwnersApart

\* A step that makes a task dead leaves none of its dependents waiting.
LEMMA CascadeStep == TypeOK /\ [Next]_vars => CascadeDone
<1> SUFFICES ASSUME TypeOK, [Next]_vars
             PROVE  CascadeDone
  OBVIOUS
<1>1. ASSUME \A t \in Tasks : state'[t] \in DeadStates => state[t] \in DeadStates
      PROVE  CascadeDone
  BY <1>1 DEF CascadeDone
<1> USE DEF DeadStates
<1>2. CASE CreateTask \/ UpdateDependencies
  <2>1. edit.task \in Tasks
    BY <1>2, EditForm DEF CreateTask, UpdateDependencies
  <2>2. QED
    BY <1>1, <1>2, <2>1 DEF CreateTask, Insert, UpdateDependencies, TypeOK
<1>3. ASSUME NEW t \in Tasks,
             Checks(t) \/ ClaimBlocked(t) \/ ClaimDispatch(t) \/ OwnStep(t)
      PROVE  CascadeDone
  BY <1>1, <1>3 DEF Checks, CheckCreate, CheckUpdate, ClaimBlocked, ClaimDispatch,
                    OwnStep, OwnershipReplace, TypeOK
<1>4. ASSUME NEW t \in Tasks, NEW to \in TaskStates, PlainMove(t, to)
      PROVE  CascadeDone
  <2>0. Write(t, to)
    BY <1>4 DEF PlainMove, Transition
  <2>1. CASE to \notin DeadStates
    BY <1>1, <2>0, <2>1, WriteFacts
  <2>2. CASE to \in DeadStates
    <3> DEFINE doomed == FailedDependents(t)
    <3>1. /\ \A u \in Tasks : state'[u] = IF u = t THEN to
                                         ELSE IF u \in doomed THEN "failed"
                                         ELSE state[u]
          /\ deps' = deps
      BY <2>0, <2>2 DEF Write, TypeOK
    <3>2. \A u \in Tasks : /\ u # t
                           /\ state[u] \in QueueStates
                           /\ deps[u] \cap (doomed \cup {t}) # {}
                           => u \in doomed
      BY CascadeComplete DEF CascadeClosed
    <3> HIDE DEF doomed
    <3>3. ASSUME NEW v \in Tasks, NEW u \in Tasks, state[v] \notin DeadStates,
                 state'[v] \in DeadStates, v \in deps'[u], state'[u] \in QueueStates
          PROVE  FALSE
      <4>1. v \in doomed \cup {t} /\ v \in deps[u]
        BY <3>1, <3>3
      <4>2. u # t /\ u \notin doomed /\ state[u] \in QueueStates
        BY <2>2, <3>1, <3>3 DEF QueueStates
      <4>3. QED
        BY <3>2, <4>1, <4>2
    <3>4. QED
      BY <3>3 DEF CascadeDone
  <2>3. QED
    BY <2>1, <2>2
<1>5. CASE RecoverInflight
  BY <1>1, <1>5 DEF RecoverInflight, TypeOK
<1>6. ASSUME NEW S \in SUBSET Tasks, Prune(S)
      PROVE  CascadeDone
  BY <1>1, <1>6 DEF Prune, TypeOK
<1>7. CASE UNCHANGED vars
  BY <1>1, <1>7 DEF vars
<1>8. QED
  BY <1>2, <1>3, <1>4, <1>5, <1>6, <1>7, StepKinds

\* A failure or a cancellation takes every task waiting on it along.
THEOREM FailureReachesDependents == Spec => FailureCascades
<1>1. TypeOK /\ [Next]_vars => [CascadeDone]_vars
  BY CascadeStep
<1>2. Spec => [][CascadeDone]_vars
  BY <1>1, TypeCorrect, PTL DEF Spec
<1>3. QED
  BY <1>2 DEF FailureCascades, CascadeDone

\* A prune leaves the dependencies of the remaining tasks as they were.
LEMMA ReadinessStep == TypeOK => ReadinessKept
<1> SUFFICES ASSUME TypeOK, NEW S \in SUBSET Tasks, Prune(S), NEW t \in Tasks \ S
             PROVE  Ready(t)' = Ready(t)
  BY DEF ReadinessKept
<1>1. deps'[t] = deps[t] /\ deps[t] \cap S = {} /\ deps[t] \subseteq Tasks
  BY DEF Prune, Prunable, TypeOK
<1>2. \A d \in deps[t] : state'[d] = state[d]
  BY <1>1 DEF Prune, TypeOK
<1>3. QED
  BY <1>1, <1>2 DEF Ready

\* Retention never makes a task ready or unready.
THEOREM RetentionKeepsReadiness == Spec => PruneKeepsReadiness
<1>1. TypeOK /\ [Next]_vars => [ReadinessKept]_vars
  BY ReadinessStep
<1>2. Spec => [][ReadinessKept]_vars
  BY <1>1, TypeCorrect, PTL DEF Spec
<1>3. QED
  BY <1>2 DEF PruneKeepsReadiness, ReadinessKept

-----------------------------------------------------------------------------
(* The runtime *)

\* Who claims or sends knows for which task, and so does every request.
HoldersKnown ==
  /\ worker.at \in {"claim", "send"} => worker.pick \in Tasks
  /\ \A h \in Handlers : handler[h].op # "none" => handler[h].task \in Tasks

\* A finalizer is registered, it is the only one of its task, and its task is
\* not in recovery while it judges.
FinalizersKept ==
  \A t \in Tasks : /\ Finalizers(t) <= 1
                   /\ Finalizers(t) = 1 => t \in verifying
                   /\ final[t].judging > 0 => state[t] # "recovering"

\* There is no finalizer while the lease is free.
NoneWhileWaiting == At("waiting") => verifying = {}

RuntimeIInv == RuntimeTypeOK /\ HoldersKnown /\ FinalizersKept /\ NoneWhileWaiting

-----------------------------------------------------------------------------
(* What a step does to the store *)

\* A guarded transition some thread asks for.
Asks(t, to) ==
  /\ to \in TaskStates \ {"recovering"}
  /\ to = "completed" => final[t].judging > 0
  /\ to = "submitted" => Seen(t, {"waiting_permission"})
  /\ Permits(t, to) /\ Write(t, to)

Creates(t) == \E D \in SUBSET Tasks : NewTask(t, D)
Claims(t) == ClaimDispatch(t) \/ ClaimBlocked(t)
Changes(t) == Creates(t) \/ Claims(t) \/ \E to \in TaskStates : Asks(t, to)
StoreKept == UNCHANGED vars

\* An attempt asks for its state or leaves the store alone.
LEMMA AttemptKinds ==
  ASSUME NEW t \in Tasks, NEW to \in TaskStates \ {"recovering", "completed", "submitted"},
         Attempt(t, to)
  PROVE  StoreKept \/ Changes(t)
BY DEF Attempt, Asks, Changes, StoreKept

\* Every step but the recovery of a new leader is of these kinds.
LEMMA StoreKinds ==
  ASSUME RuntimeTypeOK, HoldersKnown, [RuntimeNext]_runtimeVars, ~Lead
  PROVE  StoreKept \/ \E t \in Tasks : Changes(t)
<1> USE DEF TaskStates
<1>1. ASSUME NEW t \in Tasks, MonitorTask(t)
      PROVE  StoreKept \/ Changes(t)
  <2>1. CASE \/ MonitorRecovering(t) \/ MonitorAsking(t) \/ MonitorStarted(t)
             \/ MonitorPause(t)
    BY <2>1, AttemptKinds
       DEF MonitorRecovering, MonitorAsking, MonitorStarted, MonitorPause
  <2>2. CASE MonitorUnchanged(t) \/ MonitorStuck(t)
    BY <2>2 DEF MonitorUnchanged, MonitorStuck, StoreKept, vars
  <2>3. CASE MonitorIdle(t)
    BY <2>3 DEF MonitorIdle, Asks, Changes, StoreKept, vars
  <2>4. CASE MonitorResolved(t)
    BY <2>4 DEF MonitorResolved, Attempt, Asks, Changes, StoreKept
  <2>5. QED
    BY <1>1, <2>1, <2>2, <2>3, <2>4 DEF MonitorTask
<1>2. ASSUME NEW t \in Tasks, ScanTask(t)
      PROVE  StoreKept \/ Changes(t)
  BY <1>2, AttemptKinds DEF ScanTask, StoreKept
<1>3. ASSUME NEW t \in Tasks, NEW won \in BOOLEAN, Claim(t, won)
      PROVE  StoreKept \/ Changes(t)
  BY <1>3 DEF Claim, Claims, Changes, StoreKept, vars
<1>4. ASSUME NEW t \in Tasks, Send(t)
      PROVE  StoreKept \/ Changes(t)
  BY <1>4, AttemptKinds DEF Send, StoreKept
<1>5. ASSUME NEW t \in Tasks, Judge(t) \/ ReportFailure(t)
      PROVE  StoreKept \/ Changes(t)
  <2>1. CASE Judge(t)
    BY <2>1 DEF Judge, Verdicts, Asks, Changes
  <2>2. CASE ReportFailure(t)
    BY <2>2, AttemptKinds DEF ReportFailure
  <2>3. QED
    BY <1>5, <2>1, <2>2
<1>6. CASE WorkerStep
  <2>1. CASE Poll \/ ListActive \/ MonitorDone \/ ScanDone \/ TickDone \/ Release
    BY <2>1 DEF Poll, ListActive, MonitorDone, ScanDone, TickDone, Release, StoreKept, vars
  <2>2. CASE WorkerClaim
    BY <2>2, <1>3 DEF WorkerClaim, At, HoldersKnown
  <2>3. CASE WorkerSend
    BY <2>3, <1>4 DEF WorkerSend, At, HoldersKnown
  <2>4. CASE \E s \in Sessions : ScanSession(s)
    BY <2>4 DEF ScanSession, StoreKept, vars
  <2>5. QED
    BY <1>6, <1>1, <1>2, <2>1, <2>2, <2>3, <2>4 DEF WorkerStep
<1>7. ASSUME NEW h \in Handlers, HandlerStep(h)
      PROVE  StoreKept \/ \E t \in Tasks : Changes(t)
  <2>1. ASSUME NEW t \in Tasks, Dispatch(h, t)
        PROVE  Changes(t)
    BY <2>1 DEF Dispatch, Creates, Changes
  <2>2. ASSUME NEW t \in Tasks, NEW op \in DOMAIN Target, Control(h, t, op)
        PROVE  StoreKept
    BY <2>2 DEF Control, StoreKept, vars
  <2>3. CASE HandlerClaim(h)
    BY <2>3, <1>3 DEF HandlerClaim, Serving, HoldersKnown
  <2>4. CASE HandlerSend(h)
    BY <2>4, <1>4 DEF HandlerSend, Serving, HoldersKnown
  <2>5. CASE ControlInterrupt(h)
    BY <2>5 DEF ControlInterrupt, StoreKept, vars
  <2>6. CASE ControlWrite(h)
    <3>1. handler[h].task \in Tasks
      BY <2>6 DEF ControlWrite, HoldersKnown, Target
    <3>2. Target[handler[h].op] \in {"paused", "queued", "cancelled"}
      BY <2>6 DEF ControlWrite, Target
    <3>3. QED
      BY <2>6, <3>1, <3>2, AttemptKinds DEF ControlWrite
  <2>7. QED
    BY <1>7, <2>1, <2>2, <2>3, <2>4, <2>5, <2>6 DEF HandlerStep
<1>8. CASE Stop \/ Crash \/ NativeStep \/ UNCHANGED runtimeVars
  BY <1>8 DEF Stop, Crash, NativeStep, AgentFinish, Ask, Answer, runtimeVars,
              StoreKept, vars
<1>9. ASSUME NEW t \in Tasks, Close(t)
      PROVE  StoreKept
  BY <1>9 DEF Close, StoreKept, vars
<1>10. ASSUME NEW t \in Tasks, NEW D \in SUBSET Tasks, Enqueue(t, D)
       PROVE  Changes(t)
  BY <1>10 DEF Enqueue, Creates, Changes
<1>11. QED
  BY <1>5, <1>6, <1>7, <1>8, <1>9, <1>10 DEF RuntimeNext, FinalizerStep

-----------------------------------------------------------------------------
(* Types *)

\* The store keeps its types under each kind of change.
LEMMA ChangeTypes ==
  ASSUME TypeOK, NEW t \in Tasks, Changes(t)
  PROVE  TypeOK'
<1>1. CASE Creates(t)
  BY <1>1 DEF Creates, NewTask, Insert, TypeOK, TaskStates
<1>2. CASE Claims(t)
  BY <1>2 DEF Claims, ClaimDispatch, ClaimBlocked, TypeOK, TaskStates
<1>3. ASSUME NEW to \in TaskStates, Asks(t, to)
      PROVE  TypeOK'
  BY <1>3, WriteFacts DEF Asks, TypeOK
<1>4. QED
  BY <1>1, <1>2, <1>3 DEF Changes

\* So the store has its types after every step.
LEMMA StoreTypes ==
  ASSUME RuntimeTypeOK, HoldersKnown, [RuntimeNext]_runtimeVars
  PROVE  TypeOK'
<1>1. TypeOK
  BY DEF RuntimeTypeOK
<1>2. CASE Lead
  BY <1>1, <1>2 DEF Lead, RecoverInflight, TypeOK, TaskStates
<1>3. CASE StoreKept
  BY <1>1, <1>3 DEF StoreKept, TypeOK, vars
<1>4. QED
  BY <1>1, <1>2, <1>3, StoreKinds, ChangeTypes

\* What the threads hold and the service does, without the store.
NativeTypeOK ==
  /\ agent \in [Tasks -> {"none", "working", "done"}]
  /\ asking \in [Sessions -> BOOLEAN]
WorkerTypeOK ==
  /\ worker \in [at : {"waiting", "poll", "list", "monitor", "dispatch", "scan",
                       "claim", "send", "stopping"},
                 skip : SUBSET Sessions, pick : Tasks \cup {None},
                 seen : [Tasks -> TaskStates \cup {"absent", "resolved", "stuck"}]]
  /\ worker.at \in {"claim", "send"} => worker.pick \in Tasks
HandlerTypeOK ==
  /\ handler \in [Handlers -> [op : {"none", "claim", "send"} \cup DOMAIN Target,
                               task : Tasks \cup {None}, interrupt : BOOLEAN]]
  /\ \A h \in Handlers : handler[h].op # "none" => handler[h].task \in Tasks
FinalizerTypeOK ==
  /\ verifying \in SUBSET Tasks
  /\ final \in [Tasks -> [judging : Nat, closing : Nat, leaving : Nat]]
  /\ restarts \in 0 .. MaxRestarts

\* The agents and the pending permissions.
LEMMA NativeTypes ==
  ASSUME RuntimeTypeOK, [RuntimeNext]_runtimeVars
  PROVE  NativeTypeOK'
<1>1. NativeTypeOK
  BY DEF RuntimeTypeOK, NativeTypeOK
<1>2. ASSUME native' = native
      PROVE  NativeTypeOK'
  BY <1>1, <1>2 DEF native, NativeTypeOK
<1>3. ASSUME NEW s, Interrupted(s)
      PROVE  NativeTypeOK'
  BY <1>1, <1>3 DEF Interrupted, NativeTypeOK, In
<1>4. ASSUME NEW t, NEW won, Claim(t, won), asking' = asking
      PROVE  NativeTypeOK'
  BY <1>1, <1>4 DEF Claim, NativeTypeOK
<1>5. ASSUME NEW t, Send(t), asking' = asking
      PROVE  NativeTypeOK'
  BY <1>1, <1>5 DEF Send, NativeTypeOK
<1>6. ASSUME NEW t \in Tasks, MonitorTask(t)
      PROVE  NativeTypeOK'
  BY <1>2, <1>3, <1>6
     DEF MonitorTask, MonitorRecovering, MonitorAsking, MonitorResolved,
         MonitorUnchanged, MonitorStarted, MonitorStuck, MonitorPause, MonitorIdle
<1>7. CASE WorkerStep
  BY <1>2, <1>4, <1>5, <1>6, <1>7
     DEF WorkerStep, Lead, Poll, ListActive, MonitorDone, ScanDone, TickDone, Release,
         ScanTask, ScanSession, WorkerClaim, WorkerSend
<1>8. ASSUME NEW h \in Handlers, HandlerStep(h)
      PROVE  NativeTypeOK'
  BY <1>2, <1>3, <1>4, <1>5, <1>8
     DEF HandlerStep, Dispatch, Control, HandlerClaim, HandlerSend, ControlInterrupt,
         ControlWrite
<1>9. CASE NativeStep
  BY <1>1, <1>9 DEF NativeStep, AgentFinish, Ask, Answer, NativeTypeOK
<1>10. CASE Stop \/ Crash \/ UNCHANGED runtimeVars
  BY <1>2, <1>10 DEF Stop, Crash, runtimeVars
<1>11. ASSUME NEW t \in Tasks,
              FinalizerStep(t) \/ \E D \in SUBSET Tasks : Enqueue(t, D)
       PROVE  NativeTypeOK'
  BY <1>2, <1>11 DEF FinalizerStep, Judge, ReportFailure, Close, Enqueue
<1>12. QED
  BY <1>7, <1>8, <1>9, <1>10, <1>11 DEF RuntimeNext

\* The worker's place and what it has read.
LEMMA WorkerTypes ==
  ASSUME RuntimeTypeOK, HoldersKnown, [RuntimeNext]_runtimeVars
  PROVE  WorkerTypeOK'
<1>1. WorkerTypeOK /\ TypeOK
  BY DEF RuntimeTypeOK, WorkerTypeOK, HoldersKnown
<1>2. ASSUME worker' = worker
      PROVE  WorkerTypeOK'
  BY <1>1, <1>2 DEF WorkerTypeOK
<1>3. ASSUME NEW place \in {"waiting", "poll", "list", "monitor", "dispatch", "stopping"},
             Go(place)
      PROVE  WorkerTypeOK'
  BY <1>1, <1>3 DEF Go, WorkerTypeOK
<1>4. NothingSeen \in [Tasks -> TaskStates \cup {"absent", "resolved", "stuck"}]
  BY DEF NothingSeen
<1>5. ASSUME NEW t \in Tasks, NEW place \in {"absent", "resolved", "stuck"}, SeenAs(t, place)
      PROVE  WorkerTypeOK'
  BY <1>1, <1>5 DEF SeenAs, WorkerTypeOK
<1>6. ASSUME NEW t \in Tasks, MonitorTask(t)
      PROVE  WorkerTypeOK'
  BY <1>5, <1>6
     DEF MonitorTask, MonitorRecovering, MonitorAsking, MonitorResolved, Drop,
         MonitorUnchanged, MonitorStarted, MonitorStuck, MonitorPause, MonitorIdle
<1>7. ASSUME NEW t \in Tasks, ScanTask(t)
      PROVE  WorkerTypeOK'
  <2>1. CASE Drop(t)
    BY <1>5, <2>1 DEF Drop
  <2>2. CASE Pick(t) \/ Abort
    BY <1>1, <1>4, <2>2 DEF Pick, Abort, WorkerTypeOK
  <2>3. QED
    BY <1>7, <2>1, <2>2 DEF ScanTask
<1>8. CASE WorkerStep
  <2>1. CASE Lead \/ MonitorDone \/ ScanDone \/ TickDone \/ Release
    BY <1>3, <2>1 DEF Lead, MonitorDone, ScanDone, TickDone, Release
  <2>2. CASE Poll
    BY <1>1, <2>2 DEF Poll, BusySessions, WorkerTypeOK
  <2>3. CASE ListActive
    BY <1>1, <2>3 DEF ListActive, WorkerTypeOK, TypeOK, ExecutionStates, TaskStates
  <2>4. ASSUME NEW s \in Sessions, ScanSession(s)
        PROVE  WorkerTypeOK'
    BY <1>1, <2>4 DEF ScanSession, WorkerTypeOK, TypeOK, PendingStates, TaskStates
  <2>5. CASE WorkerClaim
    BY <1>1, <2>5 DEF WorkerClaim, At, Go, WorkerTypeOK
  <2>6. CASE WorkerSend
    BY <1>3, <2>6 DEF WorkerSend
  <2>7. QED
    BY <1>8, <1>6, <1>7, <2>1, <2>2, <2>3, <2>4, <2>5, <2>6 DEF WorkerStep
<1>9. ASSUME NEW h \in Handlers, HandlerStep(h)
      PROVE  worker' = worker
  BY <1>9 DEF HandlerStep, Dispatch, Control, HandlerClaim, HandlerSend,
              ControlInterrupt, ControlWrite
<1>10. CASE Stop
  BY <1>3, <1>10 DEF Stop
<1>11. CASE Crash
  BY <1>1, <1>4, <1>11 DEF Crash, WorkerTypeOK
<1>12. CASE NativeStep \/ UNCHANGED runtimeVars
  BY <1>2, <1>12 DEF NativeStep, AgentFinish, Ask, Answer, runtimeVars
<1>13. ASSUME NEW t \in Tasks,
              FinalizerStep(t) \/ \E D \in SUBSET Tasks : Enqueue(t, D)
       PROVE  WorkerTypeOK'
  BY <1>2, <1>13 DEF FinalizerStep, Judge, ReportFailure, Close, Enqueue
<1>14. QED
  BY <1>2, <1>8, <1>9, <1>10, <1>11, <1>12, <1>13 DEF RuntimeNext

\* The request threads and the tasks they act on.
LEMMA HandlerTypes ==
  ASSUME RuntimeTypeOK, HoldersKnown, [RuntimeNext]_runtimeVars
  PROVE  HandlerTypeOK'
<1>1. HandlerTypeOK
  BY DEF RuntimeTypeOK, HandlerTypeOK, HoldersKnown
<1>2. ASSUME handler' = handler
      PROVE  HandlerTypeOK'
  BY <1>1, <1>2 DEF HandlerTypeOK
<1>3. ASSUME NEW h \in Handlers, Reply(h)
      PROVE  HandlerTypeOK'
  BY <1>1, <1>3 DEF Reply, Idle, HandlerTypeOK
<1>4. ASSUME NEW h \in Handlers, HandlerStep(h)
      PROVE  HandlerTypeOK'
  <2>1. ASSUME NEW t \in Tasks, Dispatch(h, t)
        PROVE  HandlerTypeOK'
    BY <1>1, <2>1 DEF Dispatch, HandlerTypeOK
  <2>2. ASSUME NEW t \in Tasks, NEW op \in DOMAIN Target, Control(h, t, op)
        PROVE  HandlerTypeOK'
    BY <1>1, <2>2 DEF Control, HandlerTypeOK
  <2>3. CASE HandlerClaim(h)
    BY <1>1, <1>3, <2>3 DEF HandlerClaim, Serving, HandlerTypeOK
  <2>4. CASE HandlerSend(h) \/ ControlWrite(h)
    BY <1>3, <2>4 DEF HandlerSend, ControlWrite
  <2>5. ASSUME handler' = [handler EXCEPT ![h].interrupt = FALSE]
        PROVE  HandlerTypeOK'
    BY <1>1, <2>5 DEF HandlerTypeOK
  <2>6. CASE ControlInterrupt(h)
    BY <1>3, <2>5, <2>6 DEF ControlInterrupt
  <2>7. QED
    BY <1>4, <2>1, <2>2, <2>3, <2>4, <2>6 DEF HandlerStep
<1>5. CASE Crash
  BY <1>1, <1>5 DEF Crash, Idle, HandlerTypeOK
<1>6. CASE WorkerStep
  BY <1>2, <1>6
     DEF WorkerStep, Lead, Poll, ListActive, MonitorDone, ScanDone, TickDone, Release,
         ScanTask, ScanSession, WorkerClaim, WorkerSend, MonitorTask, MonitorRecovering,
         MonitorAsking, MonitorResolved, MonitorUnchanged, MonitorStarted, MonitorStuck,
         MonitorPause, MonitorIdle
<1>7. CASE Stop \/ NativeStep \/ UNCHANGED runtimeVars
  BY <1>2, <1>7 DEF Stop, NativeStep, AgentFinish, Ask, Answer, runtimeVars
<1>8. ASSUME NEW t \in Tasks,
             FinalizerStep(t) \/ \E D \in SUBSET Tasks : Enqueue(t, D)
      PROVE  HandlerTypeOK'
  BY <1>2, <1>8 DEF FinalizerStep, Judge, ReportFailure, Close, Enqueue
<1>9. QED
  BY <1>4, <1>5, <1>6, <1>7, <1>8 DEF RuntimeNext

-----------------------------------------------------------------------------
(* What a step does to the finalizers *)

Begins(t) == At("monitor") /\ Write(t, "verifying") /\ StartFinalizer(t)
Lost == verifying' = {} /\ final' = [t \in Tasks |-> NoFinalizer]

\* A finalizer goes from one phase to a later one.
Moves(t) ==
  /\ \E from, to \in {"judging", "closing", "leaving"} :
       /\ final[t][from] > 0
       /\ from # to /\ to # "judging"
       /\ final' = [final EXCEPT ![t][from] = @ - 1, ![t][to] = @ + 1]
  /\ verifying' = verifying

\* A finalizer begins, goes on, ends or dies with its process.
LEMMA FinalizerKinds ==
  ASSUME [RuntimeNext]_runtimeVars
  PROVE  \/ UNCHANGED finalizers
         \/ \E t \in Tasks : Begins(t) \/ Moves(t) \/ Close(t)
         \/ Lost
<1>1. ASSUME NEW t \in Tasks, MonitorTask(t)
      PROVE  UNCHANGED finalizers \/ Begins(t)
  <2>1. CASE MonitorIdle(t)
    BY <2>1 DEF MonitorIdle, Begins, Seen, finalizers
  <2>2. CASE ~MonitorIdle(t)
    BY <1>1, <2>2
       DEF MonitorTask, MonitorRecovering, MonitorAsking, MonitorResolved,
           MonitorUnchanged, MonitorStarted, MonitorStuck, MonitorPause, finalizers
  <2>3. QED
    BY <2>1, <2>2
<1>2. CASE WorkerStep
  BY <1>1, <1>2
     DEF WorkerStep, Lead, Poll, ListActive, MonitorDone, ScanDone, TickDone, Release,
         ScanTask, ScanSession, WorkerClaim, WorkerSend
<1>3. ASSUME NEW h \in Handlers, HandlerStep(h)
      PROVE  UNCHANGED finalizers
  BY <1>3 DEF HandlerStep, Dispatch, Control, HandlerClaim, HandlerSend,
              ControlInterrupt, ControlWrite, finalizers
<1>4. CASE Crash
  BY <1>4 DEF Crash, Lost
<1>5. CASE Stop \/ NativeStep \/ UNCHANGED runtimeVars
  BY <1>5 DEF Stop, NativeStep, AgentFinish, Ask, Answer, runtimeVars, finalizers
<1>6. ASSUME NEW t \in Tasks, NEW D \in SUBSET Tasks, Enqueue(t, D)
      PROVE  UNCHANGED finalizers
  BY <1>6 DEF Enqueue, finalizers
<1>7. ASSUME NEW t \in Tasks, Judge(t) \/ ReportFailure(t)
      PROVE  Moves(t)
  BY <1>7 DEF Judge, ReportFailure, Moves
<1>8. QED
  BY <1>2, <1>3, <1>4, <1>5, <1>6, <1>7 DEF RuntimeNext, FinalizerStep

\* Their registrations and counts, and the restarts.
LEMMA FinalizerTypes ==
  ASSUME RuntimeTypeOK, [RuntimeNext]_runtimeVars
  PROVE  FinalizerTypeOK'
<1>1. FinalizerTypeOK /\ MaxRestarts \in Nat
  BY RuntimeAssumption DEF RuntimeTypeOK, FinalizerTypeOK
<1>2. restarts' \in 0 .. MaxRestarts
  <2>1. CASE Stop \/ Crash
    BY <1>1, <2>1 DEF Stop, Crash, FinalizerTypeOK
  <2>2. CASE ~(Stop \/ Crash)
    <3>1. restarts' = restarts
      <4>1. CASE WorkerStep
        BY <4>1
           DEF WorkerStep, Lead, Poll, ListActive, MonitorDone, ScanDone, TickDone, Release,
               ScanTask, ScanSession, WorkerClaim, WorkerSend, MonitorTask,
               MonitorRecovering, MonitorAsking, MonitorResolved, MonitorUnchanged,
               MonitorStarted, MonitorStuck, MonitorPause, MonitorIdle
      <4>2. ASSUME NEW h \in Handlers, HandlerStep(h)
            PROVE  restarts' = restarts
        BY <4>2 DEF HandlerStep, Dispatch, Control, HandlerClaim, HandlerSend,
                    ControlInterrupt, ControlWrite
      <4>3. QED
        BY <2>2, <4>1, <4>2
           DEF RuntimeNext, NativeStep, AgentFinish, Ask, Answer, FinalizerStep, Judge,
               ReportFailure, Close, Enqueue, runtimeVars
    <3>2. QED
      BY <1>1, <3>1 DEF FinalizerTypeOK
  <2>3. QED
    BY <2>1, <2>2
<1>3. CASE UNCHANGED finalizers
  BY <1>1, <1>2, <1>3 DEF finalizers, FinalizerTypeOK
<1>4. CASE Lost
  BY <1>1, <1>2, <1>4 DEF Lost, NoFinalizer, FinalizerTypeOK
<1>5. ASSUME NEW t \in Tasks, Begins(t)
      PROVE  FinalizerTypeOK'
  BY <1>1, <1>2, <1>5 DEF Begins, StartFinalizer, finalizers, FinalizerTypeOK
<1>6. ASSUME NEW t \in Tasks, Moves(t)
      PROVE  FinalizerTypeOK'
  BY <1>1, <1>2, <1>6 DEF Moves, FinalizerTypeOK
<1>7. ASSUME NEW t \in Tasks, Close(t)
      PROVE  FinalizerTypeOK'
  BY <1>1, <1>2, <1>7 DEF Close, FinalizerTypeOK
<1>8. QED
  BY <1>3, <1>4, <1>5, <1>6, <1>7, FinalizerKinds

\* Every step keeps the types, and what the threads hold.
LEMMA RuntimeTypeStep ==
  ASSUME RuntimeTypeOK, HoldersKnown, [RuntimeNext]_runtimeVars
  PROVE  RuntimeTypeOK' /\ HoldersKnown'
<1>1. TypeOK' /\ NativeTypeOK' /\ WorkerTypeOK' /\ HandlerTypeOK' /\ FinalizerTypeOK'
  BY StoreTypes, NativeTypes, WorkerTypes, HandlerTypes, FinalizerTypes
<1>2. QED
  BY <1>1 DEF NativeTypeOK, WorkerTypeOK, HandlerTypeOK, FinalizerTypeOK, RuntimeTypeOK,
              HoldersKnown

-----------------------------------------------------------------------------
(* The invariant *)

\* Only the recovery of a new leader puts tasks into recovery.
LEMMA RecoveryOnlyByLead ==
  ASSUME RuntimeTypeOK, HoldersKnown, [RuntimeNext]_runtimeVars, ~Lead,
         NEW t \in Tasks, state'[t] = "recovering"
  PROVE  state[t] = "recovering"
<1>1. TypeOK
  BY DEF RuntimeTypeOK
<1>2. CASE StoreKept
  BY <1>2 DEF StoreKept, vars
<1>3. ASSUME NEW u \in Tasks, Changes(u)
      PROVE  state[t] = "recovering"
  <2>1. CASE Creates(u) \/ Claims(u)
    BY <1>1, <2>1 DEF Creates, NewTask, Insert, Claims, ClaimDispatch, ClaimBlocked, TypeOK
  <2>2. ASSUME NEW to \in TaskStates, Asks(u, to)
        PROVE  state[t] = "recovering"
    <3>1. to # "recovering" /\ Write(u, to)
      BY <2>2 DEF Asks
    <3>2. QED
      BY <1>1, <3>1, WriteFacts
  <2>3. QED
    BY <1>3, <2>1, <2>2 DEF Changes
<1>4. QED
  BY <1>2, <1>3, StoreKinds

\* A new leader finds no finalizers, and adds none.
LEMMA LeadFacts ==
  ASSUME RuntimeIInv, Lead
  PROVE  /\ UNCHANGED finalizers
         /\ \A t \in Tasks : Finalizers(t) = 0 /\ final[t].judging = 0
<1>1. verifying = {} /\ UNCHANGED finalizers
  BY DEF Lead, RuntimeIInv, NoneWhileWaiting
<1>2. \A t \in Tasks : final[t] \in [judging : Nat, closing : Nat, leaving : Nat]
  BY DEF RuntimeIInv, RuntimeTypeOK
<1>3. \A t \in Tasks : Finalizers(t) # 1 /\ Finalizers(t) <= 1
  BY <1>1 DEF RuntimeIInv, FinalizersKept
<1>4. ASSUME NEW t \in Tasks
      PROVE  Finalizers(t) = 0 /\ final[t].judging = 0
  <2>1. /\ final[t].judging \in Nat /\ final[t].closing \in Nat
        /\ final[t].leaving \in Nat
    BY <1>2
  <2>2. Finalizers(t) \in Nat
    BY <2>1 DEF Finalizers
  <2>3. Finalizers(t) = 0
    BY <1>3, <2>2
  <2>4. QED
    BY <2>1, <2>3 DEF Finalizers
<1>5. QED
  BY <1>1, <1>4

\* Every step keeps one registered finalizer for a task at most, and none
\* that judges a task in recovery.
LEMMA FinalizersStep ==
  ASSUME RuntimeIInv, [RuntimeNext]_runtimeVars
  PROVE  FinalizersKept'
<1>1. /\ RuntimeTypeOK /\ HoldersKnown /\ FinalizersKept
      /\ final \in [Tasks -> [judging : Nat, closing : Nat, leaving : Nat]]
  BY DEF RuntimeIInv, RuntimeTypeOK
<1>2. CASE Lead
  BY <1>2, LeadFacts DEF FinalizersKept, Finalizers, finalizers
<1>3. CASE ~Lead /\ UNCHANGED finalizers
  BY <1>1, <1>3, RecoveryOnlyByLead DEF FinalizersKept, Finalizers, finalizers
<1>4. CASE Lost
  BY <1>4 DEF Lost, NoFinalizer, FinalizersKept, Finalizers
<1>5. ASSUME ~Lead, NEW t \in Tasks, Begins(t)
      PROVE  FinalizersKept'
  <2>1. state'[t] = "verifying"
    BY <1>5 DEF Begins, Write
  <2>2. \A u \in Tasks : state'[u] = "recovering" => state[u] = "recovering"
    BY <1>1, <1>5, RecoveryOnlyByLead
  <2>3. CASE UNCHANGED finalizers
    BY <1>1, <2>2, <2>3 DEF FinalizersKept, Finalizers, finalizers
  <2>4. CASE /\ t \notin verifying
             /\ verifying' = verifying \cup {t}
             /\ final' = [final EXCEPT ![t].judging = @ + 1]
    <3>1. Finalizers(t) = 0
      BY <1>1, <2>4 DEF FinalizersKept, Finalizers
    <3>2. Finalizers(t)' = 1 /\ \A u \in Tasks \ {t} : final'[u] = final[u]
      BY <1>1, <2>4, <3>1 DEF Finalizers
    <3>3. QED
      BY <1>1, <2>1, <2>2, <2>4, <3>2 DEF FinalizersKept, Finalizers
  <2>5. QED
    BY <1>5, <2>3, <2>4 DEF Begins, StartFinalizer
<1>6. ASSUME ~Lead, NEW t \in Tasks, Moves(t)
      PROVE  FinalizersKept'
  <2>1. /\ Finalizers(t)' = Finalizers(t) /\ final'[t].judging <= final[t].judging
        /\ \A u \in Tasks \ {t} : final'[u] = final[u]
        /\ verifying' = verifying
    BY <1>1, <1>6 DEF Moves, Finalizers
  <2>2. final[t] \in [judging : Nat, closing : Nat, leaving : Nat]
    BY <1>1
  <2>3. final'[t].judging > 0 => final[t].judging > 0
    BY <1>1, <1>6 DEF Moves
  <2>4. \A u \in Tasks : state'[u] = "recovering" => state[u] = "recovering"
    BY <1>1, <1>6, RecoveryOnlyByLead
  <2>5. QED
    BY <1>1, <2>1, <2>3, <2>4 DEF FinalizersKept, Finalizers
<1>7. ASSUME ~Lead, NEW t \in Tasks, Close(t)
      PROVE  FinalizersKept'
  <2>1. /\ Finalizers(t) > 0 /\ Finalizers(t)' = Finalizers(t) - 1
        /\ \A u \in Tasks \ {t} : final'[u] = final[u]
        /\ verifying' = verifying \ {t}
        /\ state' = state
    BY <1>1, <1>7 DEF Close, vars, Finalizers
  <2>2. final'[t].judging = final[t].judging
    BY <1>1, <1>7 DEF Close
  <2>3. Finalizers(t)' = 0
    <3>1. /\ final[t].judging \in Nat /\ final[t].closing \in Nat
          /\ final[t].leaving \in Nat
      BY <1>1
    <3>2. Finalizers(t) \in Nat /\ Finalizers(t) <= 1
      BY <1>1, <3>1 DEF FinalizersKept, Finalizers
    <3>3. QED
      BY <2>1, <3>2
  <2>4. ASSUME NEW u \in Tasks \ {t}
        PROVE  Finalizers(u)' = Finalizers(u)
    BY <2>1 DEF Finalizers
  <2>5. QED
    BY <1>1, <2>1, <2>2, <2>3, <2>4 DEF FinalizersKept
<1>8. QED
  BY <1>2, <1>3, <1>4, <1>5, <1>6, <1>7, FinalizerKinds

\* The lease becomes free by a stop whose finalizers are gone or by a crash,
\* and stays so until the next leader.
LEMMA WaitingStep ==
  ASSUME RuntimeIInv, [RuntimeNext]_runtimeVars
  PROVE  NoneWhileWaiting'
<1>1. /\ RuntimeTypeOK
      /\ NoneWhileWaiting
  BY DEF RuntimeIInv
<1> SUFFICES ASSUME worker'.at = "waiting"
             PROVE  verifying' = {}
  BY DEF NoneWhileWaiting, At
<1>2. worker \in [at : {"waiting", "poll", "list", "monitor", "dispatch", "scan",
                        "claim", "send", "stopping"},
                  skip : SUBSET Sessions, pick : Tasks \cup {None},
                  seen : [Tasks -> TaskStates \cup {"absent", "resolved", "stuck"}]]
  BY <1>1 DEF RuntimeTypeOK
<1>3. CASE Release \/ Crash
  BY <1>3 DEF Release, Crash, finalizers
<1>4. CASE worker' = worker
  <2>1. verifying = {}
    BY <1>1, <1>4 DEF NoneWhileWaiting, At
  <2>2. ~\E t \in Tasks : Begins(t)
    BY <1>4 DEF Begins, At
  <2>3. \A t \in Tasks : Moves(t) \/ Close(t) => verifying' = {}
    BY <2>1 DEF Moves, Close
  <2>4. QED
    BY <2>1, <2>2, <2>3, FinalizerKinds DEF finalizers, Lost
<1>5. CASE worker' # worker /\ ~Release /\ ~Crash
  <2>1. ASSUME NEW place \in {"poll", "dispatch", "send", "stopping"}, Go(place)
        PROVE  FALSE
    BY <1>2, <2>1 DEF Go
  <2>2. ASSUME NEW t \in Tasks, NEW place, SeenAs(t, place)
        PROVE  worker'.at = worker.at
    BY <1>2, <2>2 DEF SeenAs
  <2>3. ASSUME NEW t \in Tasks, MonitorTask(t)
        PROVE  FALSE
    <3>1. worker'.at = worker.at
      BY <2>2, <2>3 DEF MonitorTask, MonitorRecovering, MonitorAsking, MonitorResolved,
           MonitorUnchanged, MonitorStarted, MonitorStuck, MonitorPause, MonitorIdle, Drop
    <3>2. worker.at = "monitor"
      BY <2>3 DEF MonitorTask, MonitorRecovering, MonitorAsking, MonitorResolved,
           MonitorUnchanged, MonitorStarted, MonitorStuck, MonitorPause, MonitorIdle, Seen, At
    <3>3. QED
      BY <3>1, <3>2
  <2>4. ASSUME NEW t \in Tasks, ScanTask(t)
        PROVE  FALSE
    <3>1. CASE Drop(t)
      BY <2>2, <2>4, <3>1 DEF Drop, ScanTask, At
    <3>2. CASE Pick(t) \/ Abort
      BY <1>2, <3>2 DEF Pick, Abort
    <3>3. QED
      BY <2>4, <3>1, <3>2 DEF ScanTask
  <2>5. CASE WorkerStep
    <3>1. CASE Lead \/ MonitorDone \/ ScanDone \/ TickDone \/ WorkerClaim \/ WorkerSend
      BY <2>1, <3>1 DEF Lead, MonitorDone, ScanDone, TickDone, WorkerClaim, WorkerSend
    <3>2. CASE Poll \/ ListActive \/ \E s \in Sessions : ScanSession(s)
      BY <1>2, <3>2 DEF Poll, ListActive, ScanSession, At
    <3>3. QED
      BY <1>5, <2>3, <2>4, <2>5, <3>1, <3>2 DEF WorkerStep
  <2>6. ASSUME NEW h \in Handlers, HandlerStep(h)
        PROVE  worker' = worker
    BY <2>6 DEF HandlerStep, Dispatch, Control, HandlerClaim, HandlerSend,
                ControlInterrupt, ControlWrite
  <2>7. CASE Stop
    BY <2>1, <2>7 DEF Stop
  <2>8. QED
    BY <1>5, <2>5, <2>6, <2>7
       DEF RuntimeNext, NativeStep, AgentFinish, Ask, Answer, FinalizerStep, Judge,
           ReportFailure, Close, Enqueue, runtimeVars
<1>6. QED
  BY <1>3, <1>4, <1>5

\* The invariant holds initially: nothing runs.
LEMMA RuntimeInitIInv == RuntimeInit => RuntimeIInv
<1> SUFFICES ASSUME RuntimeInit PROVE RuntimeIInv
  OBVIOUS
<1>1. TypeOK
  BY InitType DEF RuntimeInit
<1>2. RuntimeTypeOK
  BY <1>1, RuntimeAssumption DEF RuntimeInit, RuntimeTypeOK, NothingSeen, Idle, NoFinalizer
<1>3. HoldersKnown /\ FinalizersKept /\ NoneWhileWaiting
  BY DEF RuntimeInit, HoldersKnown, FinalizersKept, NoneWhileWaiting, Idle,
         NoFinalizer, Finalizers
<1>4. QED
  BY <1>2, <1>3 DEF RuntimeIInv

\* Every step keeps it.
LEMMA RuntimeStepIInv == RuntimeIInv /\ [RuntimeNext]_runtimeVars => RuntimeIInv'
<1> SUFFICES ASSUME RuntimeIInv, [RuntimeNext]_runtimeVars
             PROVE  RuntimeIInv'
  OBVIOUS
<1>1. RuntimeTypeOK /\ HoldersKnown
  BY DEF RuntimeIInv
<1>2. QED
  BY <1>1, RuntimeTypeStep, FinalizersStep, WaitingStep DEF RuntimeIInv

\* So it always holds.
LEMMA RuntimeInvariant == RuntimeSpec => []RuntimeIInv
BY RuntimeInitIInv, RuntimeStepIInv, PTL DEF RuntimeSpec

-----------------------------------------------------------------------------
(* The theorems *)

\* The store, the threads and the service always hold values of their types.
THEOREM RuntimeTypes == RuntimeSpec => []RuntimeTypeOK
<1>1. RuntimeIInv => RuntimeTypeOK
  BY DEF RuntimeIInv
<1>2. QED
  BY <1>1, RuntimeInvariant, PTL

\* _finish_async never gives a task a second finalizer.
THEOREM FinalizersExclude == RuntimeSpec => []OneFinalizer
<1>1. RuntimeIInv => OneFinalizer
  BY DEF RuntimeIInv, FinalizersKept, OneFinalizer
<1>2. QED
  BY <1>1, RuntimeInvariant, PTL

RecoveryWaits ==
  \A t \in Tasks : /\ state[t] = "verifying"
                   /\ state'[t] = "recovering"
                   => Finalizers(t) = 0

\* No step recovers a task that has a finalizer.
LEMMA RecoveryStep == RuntimeIInv /\ [RuntimeNext]_runtimeVars => RecoveryWaits
<1> SUFFICES ASSUME RuntimeIInv, [RuntimeNext]_runtimeVars
             PROVE  RecoveryWaits
  OBVIOUS
<1>1. RuntimeTypeOK /\ HoldersKnown
  BY DEF RuntimeIInv
<1>2. CASE Lead
  BY <1>2, LeadFacts DEF RecoveryWaits
<1>3. CASE ~Lead
  BY <1>1, <1>3, RecoveryOnlyByLead DEF RecoveryWaits
<1>4. QED
  BY <1>2, <1>3

\* A graceful handover never recovers a task its finalizer still owns.
THEOREM HandoverWaits == RuntimeSpec => NoRecoveryWhileFinalizing
<1>1. RuntimeIInv /\ [RuntimeNext]_runtimeVars => [RecoveryWaits]_runtimeVars
  BY RecoveryStep
<1>2. QED
  BY <1>1, RuntimeInvariant, PTL DEF RuntimeSpec, NoRecoveryWhileFinalizing, RecoveryWaits

EndsKept ==
  \A t \in Tasks : state[t] \in {"completed", "cancelled"} => state'[t] = state[t]
VerdictsVerified ==
  \A t \in Tasks : /\ state'[t] = "completed"
                   /\ state[t] # "completed"
                   => state[t] = "verifying"

\* No step undoes a completion or cancellation, and a step that completes a
\* task finds it verifying.
LEMMA EndsStep ==
  RuntimeIInv /\ [RuntimeNext]_runtimeVars => EndsKept /\ VerdictsVerified
<1> SUFFICES ASSUME RuntimeIInv, [RuntimeNext]_runtimeVars, NEW t \in Tasks
             PROVE  /\ state[t] \in {"completed", "cancelled"} => state'[t] = state[t]
                    /\ state'[t] = "completed" /\ state[t] # "completed"
                       => state[t] = "verifying"
  BY DEF EndsKept, VerdictsVerified
<1>1. RuntimeTypeOK /\ HoldersKnown /\ FinalizersKept /\ TypeOK
  BY DEF RuntimeIInv, RuntimeTypeOK
<1>2. CASE Lead
  BY <1>1, <1>2 DEF Lead, RecoverInflight, TypeOK, ExecutionStates
<1>3. CASE StoreKept
  BY <1>3 DEF StoreKept, vars
<1>4. ASSUME NEW u \in Tasks, Creates(u) \/ Claims(u)
      PROVE  /\ state[t] \in {"completed", "cancelled"} => state'[t] = state[t]
             /\ state'[t] = "completed" => state[t] = "completed"
  BY <1>1, <1>4
     DEF Creates, NewTask, Insert, Claims, ClaimDispatch, ClaimBlocked, PendingStates, TypeOK
<1>5. ASSUME NEW u \in Tasks, NEW to \in TaskStates, Asks(u, to)
      PROVE  /\ state[t] \in {"completed", "cancelled"} => state'[t] = state[t]
             /\ state'[t] = "completed" /\ state[t] # "completed"
                => state[t] = "verifying"
  <2>1. /\ state[u] \in TaskStates
        /\ to = state[u] \/ to \in AllowedTransitions[state[u]]
        /\ Write(u, to)
        /\ to = "completed" => final[u].judging > 0
    BY <1>5 DEF Asks, Permits
  <2>2. CASE t # u
    BY <1>1, <2>1, <2>2, WriteFacts DEF QueueStates
  <2>3. CASE t = u
    <3>1. state'[t] = to
      BY <1>1, <2>1, <2>3, WriteFacts
    <3>2. to = "completed" => state[u] # "recovering"
      BY <1>1, <2>1 DEF FinalizersKept
    <3>3. QED
      BY <2>1, <2>3, <3>1, <3>2, TableEnds
  <2>4. QED
    BY <2>2, <2>3
<1>6. QED
  BY <1>1, <1>2, <1>3, <1>4, <1>5, StoreKinds DEF Changes

\* A completed or cancelled task stays so, whatever a thread has read before.
THEOREM EndsStick == RuntimeSpec => FinishedSticks
<1>1. RuntimeIInv /\ [RuntimeNext]_runtimeVars => [EndsKept]_runtimeVars
  BY EndsStep
<1>2. QED
  BY <1>1, RuntimeInvariant, PTL DEF RuntimeSpec, FinishedSticks, EndsKept

\* A task is completed from its verification alone.
THEOREM VerdictsNeedVerification == RuntimeSpec => VerdictFromVerifying
<1>1. RuntimeIInv /\ [RuntimeNext]_runtimeVars => [VerdictsVerified]_runtimeVars
  BY EndsStep
<1>2. QED
  BY <1>1, RuntimeInvariant, PTL DEF RuntimeSpec, VerdictFromVerifying, VerdictsVerified

EntriesAlone ==
  \A t \in Tasks : /\ state[t] \notin ExecutionStates
                   /\ state'[t] \in ExecutionStates
                   /\ Occupied(t)
                   => Seen(t, {"waiting_permission"})

\* The table lets a task into the execution states as submitted or recovering.
LEMMA TableEntries ==
  \A s \in TaskStates \ ExecutionStates :
    AllowedTransitions[s] \cap ExecutionStates \subseteq {"submitted", "recovering"}
BY DEF AllowedTransitions, TaskStates, ExecutionStates

\* A task that enters the execution states beside another one was seen waiting
\* for a permission.
LEMMA EntryStep == RuntimeIInv /\ [RuntimeNext]_runtimeVars => EntriesAlone
<1> SUFFICES ASSUME RuntimeIInv, [RuntimeNext]_runtimeVars, NEW t \in Tasks,
                    state[t] \notin ExecutionStates, state'[t] \in ExecutionStates,
                    Occupied(t)
             PROVE  Seen(t, {"waiting_permission"})
  BY DEF EntriesAlone
<1>1. RuntimeTypeOK /\ HoldersKnown /\ TypeOK
  BY DEF RuntimeIInv, RuntimeTypeOK
<1>2. CASE Lead
  BY <1>1, <1>2 DEF Lead, RecoverInflight, TypeOK
<1>3. CASE StoreKept
  BY <1>3 DEF StoreKept, vars
<1>4. ASSUME NEW u \in Tasks, Creates(u) \/ Claims(u)
      PROVE  FALSE
  BY <1>1, <1>4
     DEF Creates, NewTask, Insert, Claims, ClaimDispatch, ClaimBlocked, ExecutionStates,
         TypeOK
<1>5. ASSUME NEW u \in Tasks, NEW to \in TaskStates, Asks(u, to)
      PROVE  Seen(t, {"waiting_permission"})
  <2>1. /\ state[u] \in TaskStates
        /\ to = state[u] \/ to \in AllowedTransitions[state[u]]
        /\ Write(u, to) /\ to # "recovering"
        /\ to = "submitted" => Seen(u, {"waiting_permission"})
    BY <1>5 DEF Asks, Permits
  <2>2. t = u
    BY <1>1, <2>1, WriteFacts DEF ExecutionStates
  <2>3. state'[t] = to
    BY <1>1, <2>1, <2>2, WriteFacts
  <2>4. QED
    BY <2>1, <2>2, <2>3, TableEntries
<1>6. QED
  BY <1>1, <1>2, <1>3, <1>4, <1>5, StoreKinds DEF Changes

\* Claims, recovery and control never put a second task of a session into the
\* execution states.
THEOREM EntriesExclude == RuntimeSpec => EntryExclusive
<1>1. RuntimeIInv /\ [RuntimeNext]_runtimeVars => [EntriesAlone]_runtimeVars
  BY EntryStep
<1>2. QED
  BY <1>1, RuntimeInvariant, PTL DEF RuntimeSpec, EntryExclusive, EntriesAlone

PausesKept ==
  \A t \in Tasks : /\ state[t] = "paused"
                   /\ worker.at = "monitor" /\ worker' # worker
                   => state'[t] = "paused" \/ worker'.at = "waiting"

\* What the monitor asks for is no way out of a pause.
LEMMA TableOfPaused ==
  /\ AllowedTransitions["paused"] \cap {"running", "waiting_permission", "submitted",
                                        "verifying", "paused"} = {}
  /\ "paused" \in TaskStates
BY DEF AllowedTransitions, TaskStates

\* An attempt of the monitor leaves paused tasks alone.
LEMMA MonitorAttempt ==
  ASSUME TypeOK, NEW t \in Tasks, NEW u \in Tasks, state[t] = "paused",
         NEW to \in {"running", "waiting_permission", "submitted", "verifying", "paused"},
         Attempt(u, to)
  PROVE  state'[t] = "paused"
<1>1. CASE UNCHANGED vars
  BY <1>1 DEF vars
<1>2. CASE Permits(u, to) /\ Write(u, to)
  <2>1. to \in TaskStates /\ to \notin DeadStates
    BY DEF TaskStates, DeadStates
  <2>2. t # u => state'[t] = state[t]
    BY <1>2, <2>1, WriteFacts
  <2>3. t = u => to = "paused"
    BY <1>2, TableOfPaused DEF Permits
  <2>4. QED
    BY <1>2, <2>1, <2>2, <2>3, WriteFacts
<1>3. QED
  BY <1>1, <1>2 DEF Attempt

\* A step of the worker while it monitors leaves paused tasks alone.
LEMMA PauseStep == RuntimeIInv /\ [RuntimeNext]_runtimeVars => PausesKept
<1> SUFFICES ASSUME RuntimeIInv, [RuntimeNext]_runtimeVars, NEW t \in Tasks,
                    state[t] = "paused", worker.at = "monitor", worker' # worker
             PROVE  state'[t] = "paused" \/ worker'.at = "waiting"
  BY DEF PausesKept
<1>1. /\ TypeOK
      /\ worker \in [at : {"waiting", "poll", "list", "monitor", "dispatch", "scan",
                           "claim", "send", "stopping"},
                     skip : SUBSET Sessions, pick : Tasks \cup {None},
                     seen : [Tasks -> TaskStates \cup {"absent", "resolved", "stuck"}]]
  BY DEF RuntimeIInv, RuntimeTypeOK
<1>2. ASSUME NEW u \in Tasks, MonitorTask(u)
      PROVE  state'[t] = "paused"
  <2>1. CASE MonitorIdle(u)
    <3>1. CASE Permits(u, "verifying") /\ Write(u, "verifying")
      BY <1>1, <3>1, MonitorAttempt DEF Attempt
    <3>2. CASE UNCHANGED vars
      BY <3>2 DEF vars
    <3>3. QED
      BY <2>1, <3>1, <3>2 DEF MonitorIdle
  <2>2. CASE MonitorUnchanged(u) \/ MonitorStuck(u)
    BY <2>2 DEF MonitorUnchanged, MonitorStuck, vars
  <2>3. CASE MonitorRecovering(u) \/ MonitorAsking(u) \/ MonitorResolved(u)
    BY <1>1, <2>3, MonitorAttempt DEF MonitorRecovering, MonitorAsking, MonitorResolved
  <2>4. CASE MonitorStarted(u) \/ MonitorPause(u)
    BY <1>1, <2>4, MonitorAttempt DEF MonitorStarted, MonitorPause
  <2>5. QED
    BY <1>2, <2>1, <2>2, <2>3, <2>4 DEF MonitorTask
<1>3. CASE WorkerStep
  BY <1>2, <1>3
     DEF WorkerStep, Lead, Poll, ListActive, MonitorDone, ScanDone, TickDone, Release,
         ScanTask, ScanSession, WorkerClaim, WorkerSend, At, vars
<1>4. CASE Stop
  BY <1>4 DEF Stop, At
<1>5. CASE Crash
  BY <1>5 DEF Crash, vars
<1>6. ASSUME NEW h \in Handlers, HandlerStep(h)
      PROVE  FALSE
  BY <1>6 DEF HandlerStep, Dispatch, Control, HandlerClaim, HandlerSend,
              ControlInterrupt, ControlWrite
<1>7. QED
  BY <1>3, <1>4, <1>5, <1>6
     DEF RuntimeNext, NativeStep, AgentFinish, Ask, Answer, FinalizerStep, Judge,
         ReportFailure, Close, Enqueue, runtimeVars

\* A pause that comes between the worker's read and its transition stands.
THEOREM PausesSurviveMonitor == RuntimeSpec => PauseSurvivesMonitor
<1>1. RuntimeIInv /\ [RuntimeNext]_runtimeVars => [PausesKept]_runtimeVars
  BY PauseStep
<1>2. QED
  BY <1>1, RuntimeInvariant, PTL DEF RuntimeSpec, PauseSurvivesMonitor, PausesKept
==============================================================================
