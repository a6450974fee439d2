--------------------------- MODULE BudgetApproval ---------------------------
(***************************************************************************)
(* One-time approvals of execution-budget extensions: the budget_approvals *)
(* and budget_approval_requests tables of app/execution_ledger.py and the  *)
(* native form a human answers.                                            *)
(*                                                                         *)
(* One action is one SQLite transaction, one HTTP exchange with the native *)
(* service, or the human.  approval() is several of them: the transaction  *)
(* that records the row, the POST of the form, the transaction that        *)
(* records its outcome, and the poll.  Handlers of several requests and    *)
(* of several sessions run them concurrently, and the process may die      *)
(* between any two.                                                        *)
(*                                                                         *)
(* A proposal is its subject (the root) and its revision; the increment it *)
(* carries is always the same.  Whether it is older than APPROVAL_TTL_MS   *)
(* is a flag that time may raise at any moment.                            *)
(***************************************************************************)
EXTENDS Naturals, FiniteSets

CONSTANTS Roots,        \* execution roots
          MaxRevision,  \* bound: proposals made for one root
          Ids,          \* client-chosen request ids
          None

ASSUME ApprovalAssumption == MaxRevision \in Nat \ {0} /\ None \notin Roots

VARIABLES row,     \* row[p]: column budget_approvals.state, or "none"
          form,    \* form[p]: the native form, outside the program
          old,     \* old[p]: the row was created more than the TTL ago
          poster,  \* poster[p]: the handler that creates the form, if alive
          asked    \* asked[q]: the budget_approval_requests row of id q

approvalVars == <<row, form, old, poster, asked>>

Revisions == 1 .. MaxRevision
Proposals == Roots \X Revisions
ClosedStates == {"denied", "expired", "unavailable"}
RowStates == {"none", "posting", "pending", "approved", "consumed"} \cup ClosedStates
FormStates == {"none", "open", "approve", "reject", "cancelled"}

-----------------------------------------------------------------------------
(* extension_request: bind a request id to a proposal *)

HasRow(r) == {n \in Revisions : row[<<r, n>>] # "none"}

\* Faulty variants: an explicit request skips an open proposal; an automatic
\* one goes past a refusal.
NextRevisionEager(r, explicit, n) ==
  \/ HasRow(r) = {} /\ n = 1
  \/ \E m \in HasRow(r) :
       /\ \A k \in HasRow(r) : k <= m
       /\ n = IF explicit \/ row[<<r, m>>] = "consumed" THEN m + 1 ELSE m
NextRevisionAfterRefusal(r, explicit, n) ==
  \/ HasRow(r) = {} /\ n = 1
  \/ \E m \in HasRow(r) :
       /\ \A k \in HasRow(r) : k <= m
       /\ n = IF row[<<r, m>>] \in ClosedStates \cup {"consumed"} THEN m + 1 ELSE m

\* The revision _next_execution_proposal answers: the newest one, unless it is
\* consumed, or closed and the model asks explicitly.
NextRevision(r, explicit, n) ==
  \/ HasRow(r) = {} /\ n = 1
  \/ \E m \in HasRow(r) :
       /\ \A k \in HasRow(r) : k <= m
       /\ n = IF \/ row[<<r, m>>] = "consumed"
                 \/ explicit /\ row[<<r, m>>] \in ClosedStates
              THEN m + 1 ELSE m

\* A known id keeps its proposal, and belongs to one root.
Ask(r, q, explicit) ==
  /\ asked[q].subject = None
  /\ \E n \in Revisions :
       /\ NextRevision(r, explicit, n)
       /\ asked' = [asked EXCEPT ![q] = [subject |-> r, revision |-> n,
                                         explicit |-> explicit]]
  /\ UNCHANGED <<row, form, old, poster>>

Asked(q) == asked[q].subject # None
Proposal(q) == <<asked[q].subject, asked[q].revision>>

-----------------------------------------------------------------------------
(* approval, run by extension_request and by every extension_check *)

\* The first caller records the row and becomes the form's only creator.
Open(p) ==
  /\ row[p] = "none"
  /\ row' = [row EXCEPT ![p] = "posting"]
  /\ poster' = [poster EXCEPT ![p] = "posting"]
  /\ UNCHANGED <<form, old, asked>>

\* The creator posts the form.  An error leaves open whether it exists.
PostForm(p) ==
  /\ poster[p] = "posting"
  /\ \/ /\ form' = [form EXCEPT ![p] = "open"]
        /\ \E outcome \in {"posted", "failed"} :
             poster' = [poster EXCEPT ![p] = outcome]
     \/ /\ poster' = [poster EXCEPT ![p] = "failed"]
        /\ UNCHANGED form
  /\ UNCHANGED <<row, old, asked>>

PostDone(p) ==
  /\ poster[p] \in {"posted", "failed"}
  /\ row' = [row EXCEPT ![p] = IF @ # "posting" THEN @
                               ELSE IF poster[p] = "posted" THEN "pending"
                               ELSE "unavailable"]
  /\ poster' = [poster EXCEPT ![p] = "idle"]
  /\ UNCHANGED <<form, old, asked>>

\* Faulty variant: forgets that the row may have been decided.
ExpireAny(p) ==
  /\ old[p]
  /\ row[p] # "none"
  /\ row' = [row EXCEPT ![p] = "expired"]
  /\ UNCHANGED <<form, old, poster, asked>>

\* A row past its TTL expires; a pending form is cancelled as far as possible.
Expire(p) ==
  /\ old[p]
  /\ row[p] \in {"pending", "approved"}
  /\ row' = [row EXCEPT ![p] = "expired"]
  /\ \/ UNCHANGED form
     \/ /\ row[p] = "pending" /\ form[p] = "open"
        /\ form' = [form EXCEPT ![p] = "cancelled"]
  /\ UNCHANGED <<old, poster, asked>>

\* Faulty variants: any answer is an approval; the answer is stored as it is.
PollAnswered(p) ==
  /\ row[p] = "pending"
  /\ form[p] \in {"approve", "reject", "cancelled"}
  /\ row' = [row EXCEPT ![p] = "approved"]
  /\ UNCHANGED <<form, old, poster, asked>>
PollRaw(p) ==
  /\ row[p] = "pending"
  /\ form[p] \in {"approve", "reject", "cancelled"}
  /\ row' = [row EXCEPT ![p] = form[p]]
  /\ UNCHANGED <<form, old, poster, asked>>

\* The answer of the form is written if the row is still pending.  The TTL is
\* checked before the form is fetched, so an answer may land past it.
Poll(p) ==
  /\ row[p] = "pending"
  /\ form[p] \in {"approve", "reject", "cancelled"}
  /\ row' = [row EXCEPT ![p] = IF form[p] = "approve" THEN "approved" ELSE "denied"]
  /\ UNCHANGED <<form, old, poster, asked>>

\* The row update of extension_apply: an approval is used up, once.
Consume(p) ==
  /\ row[p] = "approved"
  /\ ~old[p]
  /\ row' = [row EXCEPT ![p] = "consumed"]
  /\ UNCHANGED <<form, old, poster, asked>>

-----------------------------------------------------------------------------
(* The rest of the world *)

\* The human answers or dismisses an open form.
Answer(p) ==
  /\ form[p] = "open"
  /\ \E answer \in {"approve", "reject", "cancelled"} :
       form' = [form EXCEPT ![p] = answer]
  /\ UNCHANGED <<row, old, poster, asked>>

Age(p) ==
  /\ row[p] # "none"
  /\ ~old[p]
  /\ old' = [old EXCEPT ![p] = TRUE]
  /\ UNCHANGED <<row, form, poster, asked>>

\* The server process dies: every handler is gone, the tables stay.
Crash ==
  /\ \E p \in Proposals : poster[p] # "idle"
  /\ poster' = [p \in Proposals |-> "idle"]
  /\ UNCHANGED <<row, form, old, asked>>

-----------------------------------------------------------------------------

ApprovalInit ==
  /\ row = [p \in Proposals |-> "none"]
  /\ form = [p \in Proposals |-> "none"]
  /\ old = [p \in Proposals |-> FALSE]
  /\ poster = [p \in Proposals |-> "idle"]
  /\ asked = [q \in Ids |-> [subject |-> None, revision |-> 0, explicit |-> FALSE]]

\* What a handler does for one id it knows.
HandlerStep(q) ==
  /\ Asked(q)
  /\ Open(Proposal(q)) \/ Expire(Proposal(q)) \/ Poll(Proposal(q))

CreatorStep(p) == PostForm(p) \/ PostDone(p)

WorldStep ==
  \/ \E p \in Proposals : Answer(p) \/ Age(p)
  \/ Crash

ApprovalNext ==
  \/ \E r \in Roots, q \in Ids, explicit \in BOOLEAN : Ask(r, q, explicit)
  \/ \E q \in Ids : HandlerStep(q) \/ (Asked(q) /\ Consume(Proposal(q)))
  \/ \E p \in Proposals : CreatorStep(p)
  \/ WorldStep

\* What handlers, the human and crashes may do.
ApprovalProtocol == ApprovalInit /\ [][ApprovalNext]_approvalVars

\* The handler that creates a form runs on unless its process dies: the POST
\* has a timeout and both outcomes are recorded.
ApprovalSpec ==
  ApprovalProtocol /\ \A p \in Proposals : WF_approvalVars(CreatorStep(p))

\* Besides, clients keep polling their ids and time passes.
ApprovalPolledSpec ==
  /\ ApprovalSpec
  /\ \A q \in Ids : WF_approvalVars(HandlerStep(q))
  /\ \A p \in Proposals : WF_approvalVars(Age(p))

-----------------------------------------------------------------------------
(* Properties *)

\* Rows, forms and ids hold values of their types.
ApprovalTypeOK ==
  /\ row \in [Proposals -> RowStates]
  /\ form \in [Proposals -> FormStates]
  /\ old \in [Proposals -> BOOLEAN]
  /\ poster \in [Proposals -> {"idle", "posting", "posted", "failed"}]
  /\ asked \in [Ids -> [subject : Roots \cup {None},
                        revision : 0 .. MaxRevision, explicit : BOOLEAN]]
  /\ \A q \in Ids : Asked(q) => asked[q].revision \in Revisions

\* A root has at most one proposal a human could still turn into a grant,
\* although ids are bound to revisions before the rows exist.
OneLiveProposal ==
  \A r \in Roots : \A m, n \in Revisions :
    /\ row[<<r, m>>] \in {"posting", "pending", "approved"}
    /\ row[<<r, n>>] \in {"posting", "pending", "approved"}
    => m = n

\* A grant is used only on a form that a human approved (docs/
\* server-runtime-v3.md: every grant needs a fresh native form).
GrantNeedsHuman ==
  \A p \in Proposals : row[p] \in {"approved", "consumed"} => form[p] = "approve"

\* Automatic recovery never opens another form after a refusal: a revision
\* that follows a closed one was asked for explicitly.
AutomaticNeverReopens ==
  \A r \in Roots : \A n \in Revisions \ {1} :
    /\ row[<<r, n>>] # "none"
    /\ row[<<r, n - 1>>] \in ClosedStates
    => \E q \in Ids : asked[q] = [subject |-> r, revision |-> n, explicit |-> TRUE]

\* Nothing reopens a decision: a closed or consumed row keeps its state, so a
\* late answer, poll or POST outcome changes nothing.
DecisionSticks ==
  [][\A p \in Proposals : row[p] \in ClosedStates \cup {"consumed"}
                          => row'[p] = row[p]]_approvalVars

Stranded(q) == Asked(q) /\ asked[q].explicit /\ row[Proposal(q)] = "posting"

\* What docs/server-runtime-v3.md says: an explicit request may ask again.  It
\* is not left for ever with a proposal that no form will answer.
ExplicitMayAskAgain == \A q \in Ids : Stranded(q) ~> ~Stranded(q)
=============================================================================
