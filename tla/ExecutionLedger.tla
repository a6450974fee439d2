--------------------------- MODULE ExecutionLedger ---------------------------
(***************************************************************************)
(* Root budgets shared by a native turn and its subagents: the tables      *)
(* execution_roots, execution_bindings and execution_requests of           *)
(* app/execution_ledger.py, composed with the approvals that extend a root *)
(* (BudgetApproval).  The composition implements ApprovalProtocol and the  *)
(* account of each root (RootAccount).                                     *)
(*                                                                         *)
(* One action is one SQLite transaction.  A refused reservation or tool    *)
(* writes only a checkpoint for the user and is no step here; so is the    *)
(* replay of a known request id.  Whether a root's deadline has passed is  *)
(* a flag that time may raise at any moment.                               *)
(***************************************************************************)
EXTENDS Integers, BudgetApproval, FiniteSetsExt

CONSTANTS Sessions,    \* native sessions
          ParentOf,    \* their parents, which never change
          Turns,       \* user turns
          NoTurn,      \* the empty turn id of an auxiliary request
          TaskRoots,   \* roots that durable tasks name
          NativeRoot,  \* the root hashed from a session and a turn id
          Requests,    \* provider request ids
          Outputs,     \* output limits asked for and outputs reported
          Limits,      \* OPENCODE_ROOT_BUDGET_JSON: calls, tools, output
          Increment,   \* what one extension adds to each of them
          FinishTokens \* output kept back for the completion request

Budgets == [calls : Nat \ {0}, tools : Nat \ {0}, output : Nat \ {0}]

ASSUME LedgerAssumption ==
  /\ None \notin Sessions
  /\ NoTurn \notin Turns
  /\ TaskRoots \subseteq Roots
  /\ ParentOf \in [Sessions -> Sessions \cup {None}]
  /\ NativeRoot \in [Sessions \X (Turns \cup {NoTurn}) -> Roots]
  /\ IsFiniteSet(Requests)
  /\ Outputs \subseteq Nat
  /\ Limits \in Budgets /\ Increment \in Budgets
  /\ FinishTokens \in 1 .. Limits.output - 1

VARIABLES binding,    \* binding[s]: the root and turn session s is bound to
          owner,      \* owner[r]: the session that created root r, or None
          limit,      \* limit[r]: column limits_json
          calls, tools, reserved, finishUsed,  \* the counters of a root
          late,       \* late[r]: the root's deadline has passed
          request     \* request[q]: a row of execution_requests

rootVars == <<owner, limit, calls, tools, reserved, finishUsed, late>>
ledgerVars == <<approvalVars, binding, rootVars, request>>

-----------------------------------------------------------------------------
(* bind *)

Bound(s) == binding[s].root # None

\* An auxiliary request has no turn id and belongs to the turn in progress.
SameTurn(s, turn) ==
  Bound(s) /\ (turn = NoTurn \/ binding[s].turn \in {NoTurn, turn})

\* Faulty variant: a child always follows its parent.
RootOfParent(s, turn, task) ==
  IF ParentOf[s] # None THEN binding[ParentOf[s]].root
  ELSE IF task # None THEN task
  ELSE IF SameTurn(s, turn) THEN binding[s].root
  ELSE NativeRoot[<<s, turn>>]

\* A child keeps its root for the turn in progress and otherwise joins its
\* parent's; a top-level session takes its task's root, keeps its own for the
\* turn in progress, or starts a root.
RootFor(s, turn, task) ==
  IF ParentOf[s] # None
  THEN IF SameTurn(s, turn) THEN binding[s].root ELSE binding[ParentOf[s]].root
  ELSE IF task # None THEN task
  ELSE IF SameTurn(s, turn) THEN binding[s].root
  ELSE NativeRoot[<<s, turn>>]

\* task: the root of the session's active task, if it has one.
Bind(s, turn, task) ==
  /\ ParentOf[s] # None => Bound(ParentOf[s])
  /\ LET r == RootFor(s, turn, task)
     IN  /\ binding' = [binding EXCEPT
              ![s] = [root |-> r, turn |-> IF turn = NoTurn THEN @.turn ELSE turn]]
         /\ owner' = [owner EXCEPT ![r] = IF @ = None THEN s ELSE @]
  /\ UNCHANGED <<approvalVars, limit, calls, tools, reserved, finishUsed, late,
                 request>>

-----------------------------------------------------------------------------
(* reserve, tool, finish *)

\* Faulty variant: normal requests may use the completion reserve.
AllowedToTheEnd(r, output, finish) ==
  LET wanted == IF output = 0 THEN 1 ELSE output
      remaining == limit[r].output - reserved[r]
  IN  IF finish THEN Min({wanted, FinishTokens, remaining}) ELSE Min({wanted, remaining})

\* The output a request may be granted; none is granted below 1.
Allowed(r, output, finish) ==
  LET wanted == IF output = 0 THEN 1 ELSE output
      remaining == limit[r].output - reserved[r]
  IN  IF finish THEN Min({wanted, FinishTokens, remaining})
      ELSE Min({wanted, remaining - FinishTokens})

\* Faulty variants: a replayed request id is reserved again; a second
\* completion request is served.
ReserveAgain(s, q, output, finish) ==
  LET r == binding[s].root
      granted == Allowed(r, output, finish)
  IN  /\ Bound(s)
      /\ granted >= 1
      /\ IF finish THEN ~finishUsed[r]
                   ELSE calls[r] < limit[r].calls /\ ~late[r]
      /\ calls' = [calls EXCEPT ![r] = @ + 1]
      /\ reserved' = [reserved EXCEPT ![r] = @ + granted]
      /\ finishUsed' = [finishUsed EXCEPT ![r] = @ \/ finish]
      /\ request' = [request EXCEPT ![q] = [root |-> r, finish |-> finish,
                                            held |-> granted, charge |-> granted,
                                            done |-> FALSE]]
      /\ UNCHANGED <<approvalVars, binding, owner, limit, tools, late>>
ReserveFinishAgain(s, q, output, finish) ==
  LET r == binding[s].root
      granted == Allowed(r, output, finish)
  IN  /\ Bound(s)
      /\ request[q].root = None
      /\ granted >= 1
      /\ finish \/ (calls[r] < limit[r].calls /\ ~late[r])
      /\ calls' = [calls EXCEPT ![r] = @ + 1]
      /\ reserved' = [reserved EXCEPT ![r] = @ + granted]
      /\ finishUsed' = [finishUsed EXCEPT ![r] = @ \/ finish]
      /\ request' = [request EXCEPT ![q] = [root |-> r, finish |-> finish,
                                            held |-> granted, charge |-> granted,
                                            done |-> FALSE]]
      /\ UNCHANGED <<approvalVars, binding, owner, limit, tools, late>>

\* A completion request ignores calls and time, but is granted once.
Reserve(s, q, output, finish) ==
  LET r == binding[s].root
      granted == Allowed(r, output, finish)
  IN  /\ Bound(s)
      /\ request[q].root = None
      /\ granted >= 1
      /\ IF finish THEN ~finishUsed[r]
                   ELSE calls[r] < limit[r].calls /\ ~late[r]
      /\ calls' = [calls EXCEPT ![r] = @ + 1]
      /\ reserved' = [reserved EXCEPT ![r] = @ + granted]
      /\ finishUsed' = [finishUsed EXCEPT ![r] = @ \/ finish]
      /\ request' = [request EXCEPT ![q] = [root |-> r, finish |-> finish,
                                            held |-> granted, charge |-> granted,
                                            done |-> FALSE]]
      /\ UNCHANGED <<approvalVars, binding, owner, limit, tools, late>>

Tool(s) ==
  LET r == binding[s].root
  IN  /\ Bound(s)
      /\ ~finishUsed[r]
      /\ tools[r] < limit[r].tools
      /\ ~late[r]
      /\ tools' = [tools EXCEPT ![r] = @ + 1]
      /\ UNCHANGED <<approvalVars, binding, owner, limit, calls, reserved, finishUsed,
                     late, request>>

\* Faulty variants: a repeated outcome is settled again; the difference is
\* stored in place of the charge.
FinishAgain(q) ==
  /\ request[q].root # None
  /\ \E charge \in Outputs \cup {request[q].held} :
       /\ request' = [request EXCEPT ![q] = [root |-> @.root, finish |-> @.finish,
                                             held |-> @.held, charge |-> charge,
                                             done |-> TRUE]]
       /\ reserved' = [reserved EXCEPT ![request[q].root] = @ + charge - request[q].held]
  /\ UNCHANGED <<approvalVars, binding, owner, limit, calls, tools, finishUsed, late>>
FinishDelta(q) ==
  /\ request[q].root # None /\ ~request[q].done
  /\ \E charge \in Outputs \cup {request[q].held} :
       /\ request' = [request EXCEPT ![q] = [root |-> @.root, finish |-> @.finish,
                                             held |-> @.held, charge |-> charge - @.held,
                                             done |-> TRUE]]
       /\ reserved' = [reserved EXCEPT ![request[q].root] = @ + charge - request[q].held]
  /\ UNCHANGED <<approvalVars, binding, owner, limit, calls, tools, finishUsed, late>>

\* The outcome of a request, once: a reported output replaces its reservation,
\* an unknown one leaves it.  It settles with the root it was reserved from.
Finish(q) ==
  /\ request[q].root # None /\ ~request[q].done
  /\ \E charge \in Outputs \cup {request[q].held} :
       /\ request' = [request EXCEPT ![q] = [root |-> @.root, finish |-> @.finish,
                                             held |-> @.held, charge |-> charge,
                                             done |-> TRUE]]
       /\ reserved' = [reserved EXCEPT ![request[q].root] = @ + charge - request[q].held]
  /\ UNCHANGED <<approvalVars, binding, owner, limit, calls, tools, finishUsed, late>>

-----------------------------------------------------------------------------
(* Extensions *)

\* The session that created the root is still bound to it.
Current(r) == owner[r] # None /\ binding[owner[r]].root = r

ExtensionRequest(s, q, explicit) ==
  /\ Bound(s) /\ Current(binding[s].root)
  /\ Ask(binding[s].root, q, explicit)
  /\ UNCHANGED <<binding, rootVars, request>>

\* Approval handlers may be slow: one that has passed the checks of its
\* request runs whatever happens to the bindings.
ApprovalStep ==
  /\ \/ \E q \in Ids : HandlerStep(q)
     \/ \E p \in Proposals : CreatorStep(p)
     \/ WorldStep
  /\ UNCHANGED <<binding, rootVars, request>>

\* One increment on every limit.  The deadline moves ahead of the time elapsed
\* and the completion reserve is free again.
RaiseLimits(r) ==
  /\ limit' = [limit EXCEPT ![r] = [calls |-> @.calls + Increment.calls,
                                    tools |-> @.tools + Increment.tools,
                                    output |-> @.output + Increment.output]]
  /\ finishUsed' = [finishUsed EXCEPT ![r] = FALSE]
  /\ late' = [late EXCEPT ![r] = FALSE]

\* Faulty variant: the approval is not used up.
ApplyAgain(s, q) ==
  LET r == binding[s].root
  IN  /\ Bound(s) /\ asked[q].subject = r /\ Current(r)
      /\ row[Proposal(q)] = "approved"
      /\ RaiseLimits(r)
      /\ UNCHANGED <<approvalVars, binding, owner, calls, tools, reserved, request>>

\* An approval is consumed together with the raise it grants.
ExtensionApply(s, q) ==
  LET r == binding[s].root
  IN  /\ Bound(s) /\ asked[q].subject = r /\ Current(r)
      /\ Consume(Proposal(q))
      /\ RaiseLimits(r)
      /\ UNCHANGED <<binding, owner, calls, tools, reserved, request>>

\* The deadline of a root passes.
DeadlinePasses(r) ==
  /\ owner[r] # None /\ ~late[r]
  /\ late' = [late EXCEPT ![r] = TRUE]
  /\ UNCHANGED <<approvalVars, binding, owner, limit, calls, tools, reserved,
                 finishUsed, request>>

-----------------------------------------------------------------------------

Init ==
  /\ ApprovalInit
  /\ binding = [s \in Sessions |-> [root |-> None, turn |-> NoTurn]]
  /\ owner = [r \in Roots |-> None]
  /\ limit = [r \in Roots |-> Limits]
  /\ calls = [r \in Roots |-> 0]
  /\ tools = [r \in Roots |-> 0]
  /\ reserved = [r \in Roots |-> 0]
  /\ finishUsed = [r \in Roots |-> FALSE]
  /\ late = [r \in Roots |-> FALSE]
  /\ request = [q \in Requests |-> [root |-> None, finish |-> FALSE, held |-> 0,
                                    charge |-> 0, done |-> FALSE]]

Next ==
  \/ \E s \in Sessions :
       \/ \E turn \in Turns \cup {NoTurn}, task \in TaskRoots \cup {None} :
            Bind(s, turn, task)
       \/ \E q \in Requests, output \in Outputs, finish \in BOOLEAN :
            Reserve(s, q, output, finish)
       \/ Tool(s)
       \/ \E q \in Ids, explicit \in BOOLEAN : ExtensionRequest(s, q, explicit)
       \/ \E q \in Ids : ExtensionApply(s, q)
  \/ \E q \in Requests : Finish(q)
  \/ \E r \in Roots : DeadlinePasses(r)
  \/ ApprovalStep

Spec == Init /\ [][Next]_ledgerVars

-----------------------------------------------------------------------------
(* Properties *)

RequestsOf(r) == {q \in Requests : request[q].root = r}
ChargesOf(rows, T) == MapThenSumSet(LAMBDA q : rows[q].charge, T)
Grants(r) == Cardinality({n \in Revisions : row[<<r, n>>] = "consumed"})

\* Bindings, roots and requests hold values of their types.
LedgerTypeOK ==
  /\ ApprovalTypeOK
  /\ binding \in [Sessions -> [root : Roots \cup {None}, turn : Turns \cup {NoTurn}]]
  /\ owner \in [Roots -> Sessions \cup {None}]
  /\ limit \in [Roots -> Budgets]
  /\ calls \in [Roots -> Nat] /\ tools \in [Roots -> Nat]
  /\ reserved \in [Roots -> Int]
  /\ finishUsed \in [Roots -> BOOLEAN] /\ late \in [Roots -> BOOLEAN]
  /\ request \in [Requests -> [root : Roots \cup {None}, finish : BOOLEAN,
                               held : Nat, charge : Nat, done : BOOLEAN]]

\* Replays, retries and rebinding never lose or double a call: a root has
\* counted each of its requests once.
CallsMatchRequests == \A r \in Roots : calls[r] = Cardinality(RequestsOf(r))

\* The output a root holds is what its requests hold or were charged, however
\* their outcomes are reported, repeated or lost.
ReservationsMatchCharges ==
  \A r \in Roots : reserved[r] = ChargesOf(request, RequestsOf(r))

\* docs/audit-remediation-2026-09-11.md: a root serves its limit of normal
\* requests and one completion request, and each grant adds one more.
CallBudget ==
  \A r \in Roots :
    /\ Cardinality({q \in RequestsOf(r) : ~request[q].finish}) <= limit[r].calls
    /\ Cardinality({q \in RequestsOf(r) : request[q].finish}) <= Grants(r) + 1

\* While no provider has reported more output than was reserved, a root whose
\* completion request is unused can always serve it: sibling sessions cannot
\* spend the reserve.  A grant refills it by at most its output increment.
CompletionReserveKept ==
  \A r \in Roots :
    /\ ~finishUsed[r]
    /\ \A q \in RequestsOf(r) : request[q].charge <= request[q].held
    => limit[r].output - reserved[r] >= Min({FinishTokens, Increment.output})

\* The limits of a root are those it started with plus one increment for each
\* consumed approval, whoever applied it and however often.
LimitsMatchGrants ==
  \A r \in Roots : limit[r] =
    [calls |-> Limits.calls + Grants(r) * Increment.calls,
     tools |-> Limits.tools + Grants(r) * Increment.tools,
     output |-> Limits.output + Grants(r) * Increment.output]

\* However sessions bind, retry and race, the ledger keeps the account of every
\* root: each request and outcome entered once, each limit as the grants so far
\* allow, one completion request for each grant and one more.
Account == INSTANCE RootAccount WITH
  Base <- Limits, Step <- Increment, Kept <- FinishTokens,
  account <- request, used <- tools,
  grants <- [r \in Roots |-> Grants(r)],
  spare <- [r \in Roots |-> ~finishUsed[r]]
AccountKept == Account!Spec

\* A child that goes on with its turn after the completion request gains no
\* unspent root by binding again; only a grant frees it (the comment in
\* scripts/execution-ledger-regression.py, "must not borrow a newer parent
\* budget or bypass the finish reserve").
ContinuingTurnStaysSpent ==
  [][\A s \in Sessions :
       /\ ParentOf[s] # None /\ Bound(s)
       /\ finishUsed[binding[s].root]
       /\ binding'[s].turn = binding[s].turn
       => \/ finishUsed'[binding'[s].root]
          \/ limit' # limit]_ledgerVars
=============================================================================
