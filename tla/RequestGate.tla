---------------------------- MODULE RequestGate ----------------------------
(***************************************************************************)
(* The client of the execution ledger inside OpenCode: the http.request,  *)
(* http.response and execute.before hooks of                              *)
(* config/plugins/server-runtime-guard.js.                                 *)
(*                                                                         *)
(* One action runs from one await to the next, so hooks of concurrent      *)
(* requests interleave where JavaScript lets them.  All sessions of the    *)
(* model are children of one execution root.  The counters of the root    *)
(* are abstracted to the model calls and the completion reserve; a human   *)
(* answers proposals at any time, or never.  The execution_budget tool,    *)
(* which may propose again after a denial, is left out.                    *)
(***************************************************************************)
EXTENDS Naturals, FiniteSets

CONSTANTS GateSessions,
          GateRequests,   \* each is a record [session, primary, id]
          CallLimit,      \* calls the root starts with
          MaxGrants,      \* bound: extensions a human approves
          MaxArrived      \* bound: requests that are sent

ASSUME GateAssumption ==
  /\ CallLimit \in Nat /\ MaxGrants \in Nat /\ MaxArrived \in Nat
  /\ \A r \in GateRequests : r.session \in GateSessions /\ r.primary \in BOOLEAN

VARIABLES gateRoot,    \* the ledger's counters: calls, finish reserve, grants
          proposal,    \* the newest budget proposal of the root that is not
                       \* consumed, if any; each grant consumes one
          snapshot,    \* nativeBindings: what a session last saw of the root
          gate,        \* gate[r]: where request r is and what its hook holds
          unsettled,   \* pendingBySession: trackings without a response
          reportedBy,  \* reportedBy[r]: responses that took r's reservation
          reports,     \* reports[r]: request-after calls made for r's reservation
          gateTool     \* the execute.before hook of one tool call of the root

gateVars == <<gateRoot, proposal, snapshot, gate, unsettled, reportedBy, reports,
              gateTool>>

Snapshots == [bound : BOOLEAN, full : BOOLEAN, spent : BOOLEAN]
NoSnapshot == [bound |-> FALSE, full |-> FALSE, spent |-> FALSE]
GateStages == {"idle", "bind", "gate", "poll", "apply", "reserve", "body",
               "sent", "streaming", "failed", "answered"}

RootFull == gateRoot.calls >= CallLimit + gateRoot.grants
RootSeen == [bound |-> TRUE, full |-> RootFull, spent |-> gateRoot.finish]
Exhausted(view) == view.full \/ view.spent

\* Only a primary request looks at the budget.
Viewing(g, r, view) ==
  [g EXCEPT !.stage = "gate", !.view = IF r.primary THEN view ELSE NoSnapshot]

\* The decision of gate(): the view is not used again.
Decided(g, finishOnly) ==
  [g EXCEPT !.stage = "reserve", !.view = NoSnapshot, !.finishOnly = finishOnly,
            !.asked = 0]
Failed(g) ==
  [g EXCEPT !.stage = "failed", !.view = NoSnapshot, !.finishOnly = FALSE, !.round = 1,
            !.asked = 0]
Asking(g, stage) == [g EXCEPT !.stage = stage, !.asked = gateRoot.grants]

\* The sidecar's answer about the proposal that was the newest when the given
\* number of proposals had been consumed.
AnswerTo(asked) == IF asked < gateRoot.grants THEN "consumed" ELSE proposal
Granted(answer) == answer \in {"approved", "consumed"}

GateGoto(r, stage) == gate' = [gate EXCEPT ![r].stage = stage]

-----------------------------------------------------------------------------
(* http.request *)

\* requestBinding: an auxiliary request reuses any snapshot, a primary one only
\* for STEP_BINDING_TTL_MS, which may be over at any time.
GateArrive(r) ==
  /\ gate[r].stage = "idle"
  /\ Cardinality({x \in GateRequests : gate[x].stage # "idle"}) < MaxArrived
  /\ \/ /\ snapshot[r.session].bound
        /\ gate' = [gate EXCEPT ![r] = Viewing(@, r, snapshot[r.session])]
     \/ /\ r.primary \/ ~snapshot[r.session].bound
        /\ GateGoto(r, "bind")
  /\ UNCHANGED <<gateRoot, proposal, snapshot, unsettled, reportedBy, reports,
                 gateTool>>

\* bindNative answers, or the sidecar refuses: the second bind of a request,
\* and any bind of a primary one, then fails the step; an auxiliary request
\* runs untracked.
GateBind(r) ==
  /\ gate[r].stage = "bind"
  /\ \/ /\ snapshot' = [snapshot EXCEPT ![r.session] = RootSeen]
        /\ gate' = [gate EXCEPT ![r] = Viewing(@, r, RootSeen)]
     \/ /\ GateGoto(r, IF r.primary THEN "failed" ELSE "sent")
        /\ UNCHANGED snapshot
  /\ UNCHANGED <<gateRoot, proposal, unsettled, reportedBy, reports, gateTool>>

\* gate() until its first server call.  An automatic request for a proposal
\* answers the newest one, or opens the next after a consumed one.  When the
\* reserve is spent only a grant that is there already is used.
GateDecide(r) ==
  /\ gate[r].stage = "gate"
  /\ IF ~r.primary \/ ~Exhausted(gate[r].view)
     THEN /\ gate' = [gate EXCEPT ![r] = Decided(@, FALSE)]
          /\ UNCHANGED proposal
     ELSE /\ proposal' = IF proposal = "none" THEN "pending" ELSE proposal
          /\ gate' = [gate EXCEPT ![r] =
               CASE proposal = "approved" -> Asking(@, "apply")
                 [] proposal # "approved" /\ @.view.spent -> Failed(@)
                 [] proposal = "denied" /\ ~@.view.spent -> Decided(@, TRUE)
                 [] OTHER -> Asking(@, "poll")]
  /\ UNCHANGED <<gateRoot, snapshot, unsettled, reportedBy, reports, gateTool>>

\* The 400 ms poll of recoverExecutionBudget: an answer ends it, and so does
\* APPROVAL_WAIT_MS.  "check" takes a proposal that somebody else has consumed
\* for granted.
GatePoll(r) ==
  /\ gate[r].stage = "poll"
  /\ gate' = [gate EXCEPT ![r] =
       IF Granted(AnswerTo(@.asked)) THEN [@ EXCEPT !.stage = "apply"] ELSE Decided(@, TRUE)]
  /\ UNCHANGED <<gateRoot, proposal, snapshot, unsettled, reportedBy, reports,
                 gateTool>>

\* The ledger's part of "apply": an approved proposal is consumed and extends
\* the root, a consumed one does not extend it again.
Extend(answer) ==
  IF answer = "approved"
  THEN /\ proposal' = "none"
       /\ gateRoot' = [gateRoot EXCEPT !.grants = @ + 1, !.finish = FALSE]
  ELSE UNCHANGED <<gateRoot, proposal>>

\* "apply" answers that the extension is granted in both cases, and the cached
\* snapshot of the step is dropped.
GateApply(r) ==
  /\ gate[r].stage = "apply"
  /\ Extend(AnswerTo(gate[r].asked))
  /\ IF Granted(AnswerTo(gate[r].asked))
     THEN /\ snapshot' = [snapshot EXCEPT ![r.session] = NoSnapshot]
          /\ gate' = [gate EXCEPT ![r] = Decided(@, FALSE)]
     ELSE /\ gate' = [gate EXCEPT ![r] =
               IF @.view.spent THEN Failed(@) ELSE Decided(@, TRUE)]
          /\ UNCHANGED snapshot
  /\ UNCHANGED <<unsettled, reportedBy, reports, gateTool>>

\* The ledger refuses a call past the limit, or a second completion.
BudgetRefuses(finishOnly) == IF finishOnly THEN gateRoot.finish ELSE RootFull

\* request-before, where a completion counts as a call too.  A refused budget lets an auxiliary request run untracked,
\* sends a primary one once more through a forced bind and gate, and fails it
\* the second time or when it was the completion; any other error fails it.
GateReserve(r) ==
  /\ gate[r].stage = "reserve"
  /\ IF BudgetRefuses(gate[r].finishOnly)
     THEN /\ gate' = [gate EXCEPT ![r] =
               CASE ~r.primary -> [@ EXCEPT !.stage = "sent"]
                 [] r.primary /\ ~@.finishOnly /\ @.round = 1 ->
                      [@ EXCEPT !.stage = "bind", !.round = 2]
                 [] OTHER -> Failed(@)]
          /\ UNCHANGED gateRoot
     ELSE \/ /\ gate' = [gate EXCEPT ![r].stage = "body", ![r].reserved = TRUE]
             /\ gateRoot' = [gateRoot EXCEPT !.calls = @ + 1,
                                             !.finish = @ \/ gate[r].finishOnly]
          \/ gate' = [gate EXCEPT ![r] = Failed(@)] /\ UNCHANGED gateRoot
  /\ UNCHANGED <<proposal, snapshot, unsettled, reportedBy, reports, gateTool>>

\* The body is read, capped and the tracking recorded.  A body that cannot be
\* capped fails the step and leaves its reservation charged.
GateSend(r) ==
  /\ gate[r].stage = "body"
  /\ \/ /\ unsettled' = unsettled \cup {r}
        /\ gate' = [gate EXCEPT ![r] = [@ EXCEPT !.stage = "sent", !.tracked = TRUE,
                                                 !.finishOnly = FALSE, !.round = 1]]
     \/ gate' = [gate EXCEPT ![r] = Failed(@)] /\ UNCHANGED unsettled
  /\ UNCHANGED <<gateRoot, proposal, snapshot, reportedBy, reports, gateTool>>

\* A budget call of recoverExecutionBudget throws: only the step fails.
GateCallFails(r) ==
  /\ \/ gate[r].stage \in {"poll", "apply"}
     \/ gate[r].stage = "gate" /\ r.primary /\ Exhausted(gate[r].view)
  /\ gate' = [gate EXCEPT ![r] = Failed(@)]
  /\ UNCHANGED <<gateRoot, proposal, snapshot, unsettled, reportedBy, reports,
                 gateTool>>

-----------------------------------------------------------------------------
(* http.response: a later hook of http.request may have sent another Request *)
(* object, in which case the response is not recognised (lost).              *)

Candidates(r) == {c \in unsettled : c.session = r.session}

\* Faulty variant: a response without identity settles any open tracking.
SettlesAny(r, lost, c) ==
  IF lost THEN c \in Candidates(r)
  ELSE gate[r].tracked /\ c = r /\ r \in unsettled

\* The tracking a response settles: its own by the identity of its Request,
\* otherwise the only open one of its session; a settled one is never reused.
Settles(r, lost, c) ==
  IF lost THEN Candidates(r) = {c}
  ELSE gate[r].tracked /\ c = r /\ r \in unsettled

\* The response settles its tracking and is streamed through observeUsage.
GateRespond(r) ==
  /\ gate[r].stage = "sent"
  /\ \E lost \in BOOLEAN :
     \/ \E c \in unsettled :
          /\ Settles(r, lost, c)
          /\ unsettled' = unsettled \ {c}
          /\ reportedBy' = [reportedBy EXCEPT ![c] = @ \cup {r}]
          /\ GateGoto(r, "streaming")
     \/ /\ \A c \in unsettled : ~Settles(r, lost, c)
        /\ GateGoto(r, "answered")
        /\ UNCHANGED <<unsettled, reportedBy>>
  /\ UNCHANGED <<gateRoot, proposal, snapshot, reports, gateTool>>

Observed(r) == {c \in GateRequests : r \in reportedBy[c]}
Report(r) == reports' = [c \in GateRequests |->
                          reports[c] + IF c \in Observed(r) THEN 1 ELSE 0]

\* The terminal event of the stream reports its usage, fire-and-forget.
GateTerminal(r) ==
  /\ gate[r].stage = "streaming" /\ ~gate[r].notified
  /\ gate' = [gate EXCEPT ![r].notified = TRUE]
  /\ Report(r)
  /\ UNCHANGED <<gateRoot, proposal, snapshot, unsettled, reportedBy, gateTool>>

\* Faulty variant: the end of the stream reports again.
GateCloseAgain(r) ==
  /\ gate[r].stage = "streaming"
  /\ gate' = [gate EXCEPT ![r].stage = "answered", ![r].notified = FALSE]
  /\ Report(r)
  /\ UNCHANGED <<gateRoot, proposal, snapshot, unsettled, reportedBy, gateTool>>

\* The stream ends, fails or is cancelled: reported unless it was.
GateClose(r) ==
  /\ gate[r].stage = "streaming"
  /\ gate' = [gate EXCEPT ![r].stage = "answered", ![r].notified = FALSE]
  /\ IF gate[r].notified THEN UNCHANGED reports ELSE Report(r)
  /\ UNCHANGED <<gateRoot, proposal, snapshot, unsettled, reportedBy, gateTool>>

-----------------------------------------------------------------------------
(* execute.before, the context hook, and the world *)

ToolGoes(at) == gateTool' = [gateTool EXCEPT !.at = at]

\* A tool attempt the ledger refuses is recovered once, by a human's grant.
GateToolStart ==
  /\ gateTool.at = "idle"
  /\ IF RootFull \/ gateRoot.finish
     THEN /\ proposal' = IF proposal = "none" THEN "pending" ELSE proposal
          /\ IF gateRoot.finish /\ proposal # "approved" THEN ToolGoes("denied")
             ELSE gateTool' = [at |-> "poll", asked |-> gateRoot.grants]
     ELSE ToolGoes("allowed") /\ UNCHANGED proposal
  /\ UNCHANGED <<gateRoot, snapshot, gate, unsettled, reportedBy, reports>>

GateToolRecover ==
  /\ gateTool.at = "poll"
  /\ Extend(AnswerTo(gateTool.asked))
  /\ ToolGoes(IF Granted(AnswerTo(gateTool.asked)) THEN "again" ELSE "denied")
  /\ UNCHANGED <<snapshot, gate, unsettled, reportedBy, reports>>

\* The second tool-before may meet a budget that siblings have spent again.
GateToolAgain ==
  /\ gateTool.at = "again"
  /\ ToolGoes(IF RootFull \/ gateRoot.finish THEN "denied" ELSE "allowed")
  /\ UNCHANGED <<gateRoot, proposal, snapshot, gate, unsettled, reportedBy, reports>>

\* The context hook binds the step before its request.
GateContextBind(s) ==
  /\ \E r \in GateRequests : r.session = s /\ r.primary /\ gate[r].stage = "idle"
  /\ snapshot' = [snapshot EXCEPT ![s] = RootSeen]
  /\ UNCHANGED <<gateRoot, proposal, gate, unsettled, reportedBy, reports, gateTool>>

GateHuman ==
  /\ proposal = "pending" /\ gateRoot.grants < MaxGrants
  /\ proposal' \in {"approved", "denied"}
  /\ UNCHANGED <<gateRoot, snapshot, gate, unsettled, reportedBy, reports, gateTool>>

\* An approval that nobody applies within APPROVAL_TTL_MS is as good as none.
GateExpire ==
  /\ proposal = "approved"
  /\ proposal' = "denied"
  /\ UNCHANGED <<gateRoot, snapshot, gate, unsettled, reportedBy, reports, gateTool>>

GateInit ==
  /\ gateRoot = [calls |-> 0, finish |-> FALSE, grants |-> 0]
  /\ proposal = "none"
  /\ snapshot = [s \in GateSessions |-> NoSnapshot]
  /\ gate = [r \in GateRequests |->
               [stage |-> "idle", view |-> NoSnapshot, finishOnly |-> FALSE,
                round |-> 1, asked |-> 0, reserved |-> FALSE, tracked |-> FALSE, notified |-> FALSE]]
  /\ unsettled = {}
  /\ reportedBy = [r \in GateRequests |-> {}]
  /\ reports = [r \in GateRequests |-> 0]
  /\ gateTool = [at |-> "idle", asked |-> 0]

\* What the hook of one request does by itself.
GateStep(r) ==
  \/ GateArrive(r) \/ GateBind(r) \/ GateDecide(r) \/ GatePoll(r)
  \/ GateApply(r) \/ GateReserve(r) \/ GateSend(r) \/ GateCallFails(r)

GateNext ==
  \/ \E r \in GateRequests :
       \/ GateStep(r) \/ GateRespond(r) \/ GateTerminal(r) \/ GateClose(r)
  \/ \E s \in GateSessions : GateContextBind(s)
  \/ GateToolStart \/ GateToolRecover \/ GateToolAgain
  \/ GateHuman \/ GateExpire

GateSpec == GateInit /\ [][GateNext]_gateVars

-----------------------------------------------------------------------------
(* Properties *)

\* The hooks keep values of their types.
GateTypeOK ==
  /\ gateRoot \in [calls : Nat, finish : BOOLEAN, grants : Nat]
  /\ proposal \in {"none", "pending", "approved", "denied"}
  /\ snapshot \in [GateSessions -> Snapshots]
  /\ gate \in [GateRequests ->
                [stage : GateStages, view : Snapshots, finishOnly : BOOLEAN,
                 round : {1, 2}, asked : Nat, reserved : BOOLEAN, tracked : BOOLEAN, notified : BOOLEAN]]
  /\ unsettled \subseteq GateRequests
  /\ reportedBy \in [GateRequests -> SUBSET GateRequests]
  /\ reports \in [GateRequests -> Nat]
  /\ gateTool \in [at : {"idle", "poll", "again", "allowed", "denied"}, asked : Nat]

\* A reservation is reported at most once, and a tracked response reports its
\* own, whatever Request objects later hooks put in its place: usage lands on
\* another request only after a response that was never tracked took one.
UsageIsAttributed ==
  \A r \in GateRequests : \A x \in reportedBy[r] :
    /\ reportedBy[r] = {x}
    /\ gate[r].reserved /\ reports[r] <= 1
    /\ x # r => \E u, t \in GateRequests : u \in reportedBy[t] /\ ~gate[u].tracked
=============================================================================
