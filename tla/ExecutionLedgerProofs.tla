------------------------ MODULE ExecutionLedgerProofs ------------------------
(***************************************************************************)
(* Proofs about BudgetApproval and ExecutionLedger, for every set of       *)
(* sessions, roots, requests and ids, every budget and every bound on      *)
(* revisions.                                                              *)
(*                                                                         *)
(* The approvals: a step either binds an id to a revision (Ask) and leaves *)
(* the rows, or moves rows and leaves the ids (RowMoves).  The invariant   *)
(* says that both ids and rows only reach a revision whose predecessors    *)
(* are settled; the rest follows because a settled row never changes.      *)
(*                                                                         *)
(* The ledger: every step is one of the approval protocol, so what is      *)
(* proved of BudgetApproval holds here.  Only ExtensionApply consumes an   *)
(* approval, and it raises the limits in the same transaction; the rest    *)
(* counts requests.                                                        *)
(***************************************************************************)
EXTENDS ExecutionLedger, FiniteSetTheorems, WellFoundedInduction, TLAPS

-----------------------------------------------------------------------------
(* The approvals *)

Settled == ClosedStates \cup {"consumed"}
Unsettled == {"posting", "pending", "approved"}

\* Predecessors of a revision that an id or a row has reached are settled.
IdsInOrder ==
  \A q \in Ids : Asked(q) =>
    \A m \in Revisions : m < asked[q].revision
                         => row[<<asked[q].subject, m>>] \in Settled
RowsInOrder ==
  \A r \in Roots : \A m, n \in Revisions :
    row[<<r, n>>] # "none" /\ m < n => row[<<r, m>>] \in Settled

\* A live creator has an unfinished row.
PosterOwnsRow == \A p \in Proposals : poster[p] # "idle" => row[p] = "posting"

AskedExplicitly(r, n) ==
  \E q \in Ids : asked[q] = [subject |-> r, revision |-> n, explicit |-> TRUE]

\* An id that goes past a refusal does so because someone asked explicitly.
IdsNeverReopen ==
  \A q \in Ids : \A r \in Roots : \A n \in Revisions \ {1} :
    /\ asked[q].subject = r /\ asked[q].revision = n
    /\ row[<<r, n - 1>>] \in ClosedStates
    => AskedExplicitly(r, n)

ApprovalIInv ==
  /\ ApprovalTypeOK
  /\ IdsInOrder /\ RowsInOrder
  /\ PosterOwnsRow /\ GrantNeedsHuman
  /\ IdsNeverReopen /\ AutomaticNeverReopens

-----------------------------------------------------------------------------
(* Kinds of steps *)

AskStep == \E r \in Roots, q \in Ids, explicit \in BOOLEAN : Ask(r, q, explicit)

RowMoves ==
  /\ asked' = asked
  /\ \A p \in Proposals :
       \/ row'[p] = row[p]
       \/ /\ row[p] = "none" /\ row'[p] = "posting"
          /\ \E q \in Ids : Asked(q) /\ Proposal(q) = p
       \/ row[p] \in Unsettled /\ row'[p] \in Unsettled \cup Settled

\* The proposal of an id that is bound is a proposal.
LEMMA ProposalOfId ==
  ASSUME ApprovalTypeOK, NEW q \in Ids, Asked(q)
  PROVE  /\ Proposal(q) \in Proposals
         /\ asked[q].subject \in Roots /\ asked[q].revision \in Revisions
BY DEF ApprovalTypeOK, Asked, Proposal, Proposals

\* Every step binds an id or moves rows, and keeps the types.
LEMMA ApprovalStepKinds ==
  ASSUME ApprovalTypeOK, [ApprovalNext]_approvalVars
  PROVE  /\ AskStep \/ RowMoves
         /\ ApprovalTypeOK'
<1> USE DEF Settled, Unsettled, ClosedStates, RowStates, FormStates
<1>1. CASE AskStep
  <2>1. PICK r \in Roots, q \in Ids, explicit \in BOOLEAN : Ask(r, q, explicit)
    BY <1>1 DEF AskStep
  <2>2. PICK n \in Revisions : asked' = [asked EXCEPT ![q] =
                 [subject |-> r, revision |-> n, explicit |-> explicit]]
    BY <2>1 DEF Ask
  <2>3. n \in 0 .. MaxRevision
    BY ApprovalAssumption DEF Revisions
  <2>4. /\ asked' \in [Ids -> [subject : Roots \cup {None},
                               revision : 0 .. MaxRevision, explicit : BOOLEAN]]
        /\ \A x \in Ids : Asked(x)' => asked'[x].revision \in Revisions
    BY <2>2, <2>3 DEF ApprovalTypeOK, Asked
  <2>5. QED
    BY <1>1, <2>1, <2>4 DEF Ask, ApprovalTypeOK
<1>2. ASSUME NEW q \in Ids, HandlerStep(q) \/ (Asked(q) /\ Consume(Proposal(q)))
      PROVE  RowMoves /\ ApprovalTypeOK'
  <2>1. Asked(q) /\ Proposal(q) \in Proposals
    BY <1>2, ProposalOfId DEF HandlerStep
  <2>2. CASE Open(Proposal(q))
    BY <2>1, <2>2 DEF Open, RowMoves, ApprovalTypeOK, Asked
  <2>3. CASE Expire(Proposal(q))
    BY <2>1, <2>3 DEF Expire, RowMoves, ApprovalTypeOK, Asked
  <2>4. CASE Poll(Proposal(q))
    BY <2>1, <2>4 DEF Poll, RowMoves, ApprovalTypeOK, Asked
  <2>5. CASE Consume(Proposal(q))
    BY <2>1, <2>5 DEF Consume, RowMoves, ApprovalTypeOK, Asked
  <2>6. QED
    BY <1>2, <2>2, <2>3, <2>4, <2>5 DEF HandlerStep
<1>3. ASSUME NEW p \in Proposals, CreatorStep(p)
      PROVE  RowMoves /\ ApprovalTypeOK'
  <2>1. CASE PostForm(p)
    BY <2>1 DEF PostForm, RowMoves, ApprovalTypeOK, Asked
  <2>2. CASE PostDone(p)
    BY <2>2 DEF PostDone, RowMoves, ApprovalTypeOK, Asked
  <2>3. QED
    BY <1>3, <2>1, <2>2 DEF CreatorStep
<1>4. CASE WorldStep
  <2>1. ASSUME NEW p \in Proposals, Answer(p) \/ Age(p)
        PROVE  RowMoves /\ ApprovalTypeOK'
    BY ZenonT(40), <2>1 DEF Answer, Age, RowMoves, ApprovalTypeOK, Asked
  <2>2. CASE Crash
    BY <2>2 DEF Crash, RowMoves, ApprovalTypeOK, Asked
  <2>3. QED
    BY <1>4, <2>1, <2>2 DEF WorldStep
<1>5. CASE UNCHANGED approvalVars
  BY <1>5 DEF approvalVars, RowMoves, ApprovalTypeOK, Asked
<1>6. QED
  BY <1>1, <1>2, <1>3, <1>4, <1>5 DEF ApprovalNext, AskStep

-----------------------------------------------------------------------------
(* Order of revisions *)

Order == IdsInOrder /\ RowsInOrder

\* A revision handed out for a root comes after settled ones only, and after a
\* closed one only on an explicit request.
LEMMA NextRevisionInOrder ==
  ASSUME ApprovalTypeOK, RowsInOrder, NEW r \in Roots, NEW explicit \in BOOLEAN,
         NEW n \in Revisions, NextRevision(r, explicit, n)
  PROVE  /\ \A k \in Revisions : k < n => row[<<r, k>>] \in Settled
         /\ \/ n = 1 \/ row[<<r, n>>] # "none"
            \/ row[<<r, n - 1>>] = "consumed" \/ explicit
<1> USE DEF Settled, ClosedStates
<1>0. Revisions \subseteq Nat /\ \A k \in Revisions : k >= 1
  BY ApprovalAssumption DEF Revisions
<1>1. CASE HasRow(r) = {} /\ n = 1
  BY <1>0, <1>1
<1>2. ASSUME NEW m \in HasRow(r),
             n = IF \/ row[<<r, m>>] = "consumed"
                    \/ explicit /\ row[<<r, m>>] \in ClosedStates
                 THEN m + 1 ELSE m
      PROVE  /\ \A k \in Revisions : k < n => row[<<r, k>>] \in Settled
             /\ \/ n = 1 \/ row[<<r, n>>] # "none"
                \/ row[<<r, n - 1>>] = "consumed" \/ explicit
  <2>1. m \in Revisions /\ row[<<r, m>>] # "none"
    BY DEF HasRow
  <2>2. \A k \in Revisions : k < m => row[<<r, k>>] \in Settled
    BY <2>1 DEF RowsInOrder
  <2>3. CASE n = m
    BY <2>1, <2>2, <2>3
  <2>4. CASE n # m
    <3>1. n = m + 1 /\ row[<<r, m>>] \in Settled
      BY <1>2, <2>4
    <3>2. \A k \in Revisions : k < n => k = m \/ k < m
      BY <1>0, <2>1, <3>1
    <3>3. n - 1 = m
      BY <1>0, <2>1, <3>1
    <3>4. QED
      BY <1>2, <2>2, <2>4, <3>1, <3>2, <3>3
  <2>5. QED
    BY <2>3, <2>4
<1>3. QED
  BY <1>1, <1>2 DEF NextRevision

\* A settled row is settled for good, and rows appear only where an id leads.
LEMMA RowMoveFacts ==
  ASSUME ApprovalTypeOK, RowMoves, NEW p \in Proposals
  PROVE  /\ row[p] \in Settled => row'[p] = row[p]
         /\ row'[p] # "none" /\ row[p] = "none" => \E q \in Ids : Asked(q) /\ Proposal(q) = p
         /\ row[p] # "none" => row'[p] # "none"
BY DEF RowMoves, Settled, Unsettled, ClosedStates

\* Every step keeps the order.
LEMMA OrderStep ==
  ASSUME ApprovalTypeOK, Order, [ApprovalNext]_approvalVars
  PROVE  Order'
<1>1. CASE AskStep
  <2>1. PICK r \in Roots, q \in Ids, explicit \in BOOLEAN : Ask(r, q, explicit)
    BY <1>1 DEF AskStep
  <2>2. PICK n \in Revisions : /\ NextRevision(r, explicit, n)
                              /\ asked' = [asked EXCEPT ![q] =
                  [subject |-> r, revision |-> n, explicit |-> explicit]]
    BY <2>1 DEF Ask
  <2>3. row' = row
    BY <2>1 DEF Ask
  <2>4. RowsInOrder'
    BY <2>3 DEF Order, RowsInOrder
  <2>5. IdsInOrder'
    <3> SUFFICES ASSUME NEW x \in Ids, Asked(x)', NEW k \in Revisions,
                        k < asked'[x].revision
                 PROVE  row[<<asked'[x].subject, k>>] \in Settled
      BY <2>3 DEF IdsInOrder
    <3>1. CASE x = q
      BY <2>2, <3>1, NextRevisionInOrder DEF Order, ApprovalTypeOK
    <3>2. CASE x # q
      BY <2>2, <3>2 DEF Order, IdsInOrder, Asked, ApprovalTypeOK
    <3>3. QED
      BY <3>1, <3>2
  <2>6. QED
    BY <2>4, <2>5 DEF Order
<1>2. CASE RowMoves
  <2>1. IdsInOrder'
    <3> SUFFICES ASSUME NEW x \in Ids, Asked(x), NEW k \in Revisions,
                        k < asked[x].revision
                 PROVE  row'[<<asked[x].subject, k>>] \in Settled
      BY <1>2 DEF IdsInOrder, RowMoves, Asked
    <3>1. <<asked[x].subject, k>> \in Proposals
      BY ProposalOfId DEF Proposals
    <3>2. QED
      BY <1>2, <3>1, RowMoveFacts DEF Order, IdsInOrder
  <2>2. RowsInOrder'
    <3> SUFFICES ASSUME NEW r \in Roots, NEW m \in Revisions, NEW n \in Revisions,
                        row'[<<r, n>>] # "none", m < n
                 PROVE  row'[<<r, m>>] \in Settled
      BY DEF RowsInOrder
    <3>1. <<r, m>> \in Proposals /\ <<r, n>> \in Proposals
      BY DEF Proposals
    <3>2. CASE row[<<r, n>>] # "none"
      BY <1>2, <3>1, <3>2, RowMoveFacts DEF Order, RowsInOrder
    <3>3. CASE row[<<r, n>>] = "none"
      <4>1. PICK q \in Ids : Asked(q) /\ Proposal(q) = <<r, n>>
        BY <1>2, <3>1, <3>3, RowMoveFacts
      <4>2. asked[q].subject = r /\ asked[q].revision = n
        BY <4>1 DEF Proposal
      <4>3. row[<<r, m>>] \in Settled
        BY <4>1, <4>2 DEF Order, IdsInOrder
      <4>4. QED
        BY <1>2, <3>1, <4>3, RowMoveFacts
    <3>4. QED
      BY <3>2, <3>3
  <2>3. QED
    BY <2>1, <2>2 DEF Order
<1>3. QED
  BY <1>1, <1>2, ApprovalStepKinds

-----------------------------------------------------------------------------
(* Grants and refusals *)

Human == PosterOwnsRow /\ GrantNeedsHuman

\* A grant keeps its human: answered forms stay answered, and a form is only
\* (re)opened while its row waits for it.
LEMMA HumanStep ==
  ASSUME ApprovalTypeOK, Human, [ApprovalNext]_approvalVars
  PROVE  Human'
<1> USE DEF Human, PosterOwnsRow, GrantNeedsHuman, ApprovalTypeOK
<1>1. CASE AskStep
  BY <1>1 DEF AskStep, Ask
<1>2. ASSUME NEW q \in Ids, HandlerStep(q) \/ (Asked(q) /\ Consume(Proposal(q)))
      PROVE  Human'
  <2>1. Proposal(q) \in Proposals
    BY <1>2, ProposalOfId DEF HandlerStep
  <2>2. ASSUME NEW p \in Proposals, Open(p) \/ Expire(p) \/ Poll(p) \/ Consume(p)
        PROVE  Human'
    BY <2>2 DEF Open, Expire, Poll, Consume
  <2>3. QED
    BY <1>2, <2>1, <2>2 DEF HandlerStep
<1>3. ASSUME NEW p \in Proposals, CreatorStep(p) PROVE Human'
  BY <1>3 DEF CreatorStep, PostForm, PostDone
<1>4. CASE WorldStep
  BY <1>4 DEF WorldStep, Answer, Age, Crash
<1>5. CASE UNCHANGED approvalVars
  BY <1>5 DEF approvalVars
<1>6. QED
  BY <1>1, <1>2, <1>3, <1>4, <1>5 DEF ApprovalNext, AskStep

Reopening == IdsNeverReopen /\ AutomaticNeverReopens

\* Every step keeps an explicit request behind each reopened proposal.
LEMMA ReopeningStep ==
  ASSUME ApprovalTypeOK, Order, Reopening, [ApprovalNext]_approvalVars
  PROVE  Reopening'
<1>0. \A n \in Revisions \ {1} : n - 1 \in Revisions /\ n - 1 < n
  BY ApprovalAssumption DEF Revisions
<1>1. CASE AskStep
  <2>1. PICK s \in Roots, q \in Ids, explicit \in BOOLEAN : Ask(s, q, explicit)
    BY <1>1 DEF AskStep
  <2>2. PICK v \in Revisions : /\ NextRevision(s, explicit, v)
                              /\ asked' = [asked EXCEPT ![q] =
                  [subject |-> s, revision |-> v, explicit |-> explicit]]
    BY <2>1 DEF Ask
  <2>3. row' = row /\ asked[q].subject = None
    BY <2>1 DEF Ask
  <2>4. \A r \in Roots : \A n \in Revisions : AskedExplicitly(r, n) => AskedExplicitly(r, n)'
    <3> SUFFICES ASSUME NEW r \in Roots, NEW n \in Revisions, NEW x \in Ids,
                        asked[x] = [subject |-> r, revision |-> n, explicit |-> TRUE]
                 PROVE  asked'[x] = [subject |-> r, revision |-> n, explicit |-> TRUE]
      BY DEF AskedExplicitly
    <3>1. x # q
      BY <2>3, ApprovalAssumption
    <3>2. QED
      BY <2>2, <3>1 DEF ApprovalTypeOK
  <2>5. AutomaticNeverReopens'
    BY <2>3, <2>4 DEF Reopening, AutomaticNeverReopens, AskedExplicitly
  <2>6. IdsNeverReopen'
    <3> SUFFICES ASSUME NEW x \in Ids, NEW r \in Roots, NEW n \in Revisions \ {1},
                        asked'[x].subject = r, asked'[x].revision = n,
                        row[<<r, n - 1>>] \in ClosedStates
                 PROVE  AskedExplicitly(r, n)'
      BY <2>3 DEF IdsNeverReopen
    <3>1. CASE x # q
      BY <2>2, <2>4, <3>1 DEF Reopening, IdsNeverReopen, ApprovalTypeOK
    <3>2. CASE x = q
      <4>1. r = s /\ n = v
        BY <2>2, <3>2 DEF ApprovalTypeOK
      <4>2. row[<<s, v>>] # "none" \/ explicit
        BY <2>2, <4>1, NextRevisionInOrder DEF Order, ClosedStates
      <4>3. CASE row[<<s, v>>] # "none"
        BY <2>4, <4>1, <4>3 DEF Reopening, AutomaticNeverReopens, AskedExplicitly
      <4>4. CASE explicit
        <5>1. asked'[q] = [subject |-> s, revision |-> v, explicit |-> TRUE]
          BY <2>2, <4>4 DEF ApprovalTypeOK
        <5>2. QED
          BY <4>1, <5>1 DEF AskedExplicitly
      <4>5. QED
        BY <4>2, <4>3, <4>4
    <3>3. QED
      BY <3>1, <3>2
  <2>7. QED
    BY <2>5, <2>6 DEF Reopening
<1>2. CASE RowMoves
  <2>1. \A r \in Roots : \A n \in Revisions : AskedExplicitly(r, n)' = AskedExplicitly(r, n)
    BY <1>2 DEF RowMoves, AskedExplicitly
  <2>2. ASSUME NEW r \in Roots, NEW n \in Revisions \ {1},
               row'[<<r, n - 1>>] \in ClosedStates, row[<<r, n - 1>>] \in Settled
        PROVE  row[<<r, n - 1>>] \in ClosedStates
    BY <1>0, <1>2, <2>2, RowMoveFacts DEF Proposals
  <2>3. IdsNeverReopen'
    <3> SUFFICES ASSUME NEW x \in Ids, NEW r \in Roots, NEW n \in Revisions \ {1},
                        asked[x].subject = r, asked[x].revision = n,
                        row'[<<r, n - 1>>] \in ClosedStates
                 PROVE  AskedExplicitly(r, n)
      BY <1>2, <2>1 DEF IdsNeverReopen, RowMoves
    <3>1. row[<<r, n - 1>>] \in Settled
      BY <1>0, ApprovalAssumption DEF Order, IdsInOrder, Asked
    <3>2. QED
      BY <2>2, <3>1 DEF Reopening, IdsNeverReopen
  <2>4. AutomaticNeverReopens'
    <3> SUFFICES ASSUME NEW r \in Roots, NEW n \in Revisions \ {1},
                        row'[<<r, n>>] # "none", row'[<<r, n - 1>>] \in ClosedStates
                 PROVE  AskedExplicitly(r, n)
      BY <2>1 DEF AutomaticNeverReopens, AskedExplicitly
    <3>1. <<r, n>> \in Proposals
      BY DEF Proposals
    <3>2. CASE row[<<r, n>>] # "none"
      <4>1. row[<<r, n - 1>>] \in Settled
        BY <1>0, <3>2 DEF Order, RowsInOrder
      <4>2. QED
        BY <2>2, <3>2, <4>1 DEF Reopening, AutomaticNeverReopens, AskedExplicitly
    <3>3. CASE row[<<r, n>>] = "none"
      <4>1. PICK q \in Ids : Asked(q) /\ Proposal(q) = <<r, n>>
        BY <1>2, <3>1, <3>3, RowMoveFacts
      <4>2. asked[q].subject = r /\ asked[q].revision = n
        BY <4>1 DEF Proposal
      <4>3. row[<<r, n - 1>>] \in Settled
        BY <1>0, <4>1, <4>2 DEF Order, IdsInOrder
      <4>4. QED
        BY <2>2, <4>2, <4>3 DEF Reopening, IdsNeverReopen
    <3>4. QED
      BY <3>2, <3>3
  <2>5. QED
    BY <2>3, <2>4 DEF Reopening
<1>3. QED
  BY <1>1, <1>2, ApprovalStepKinds

-----------------------------------------------------------------------------
(* Theorems *)

\* The inductive invariant holds initially.
LEMMA ApprovalInitIInv == ApprovalInit => ApprovalIInv
<1> SUFFICES ASSUME ApprovalInit PROVE ApprovalIInv
  OBVIOUS
<1> USE DEF ApprovalInit
<1>1. ApprovalTypeOK
  BY ApprovalAssumption DEF ApprovalTypeOK, RowStates, FormStates, Asked
<1>2. /\ \A r \in Roots : \A n \in Revisions : row[<<r, n>>] = "none"
      /\ \A q \in Ids : ~Asked(q)
  BY DEF Proposals, Asked
<1>3. IdsInOrder /\ RowsInOrder /\ PosterOwnsRow /\ GrantNeedsHuman
  BY <1>2 DEF IdsInOrder, RowsInOrder, PosterOwnsRow, GrantNeedsHuman
<1>4. IdsNeverReopen /\ AutomaticNeverReopens
  BY <1>2, ApprovalAssumption
     DEF IdsNeverReopen, AutomaticNeverReopens, Asked, ClosedStates, Revisions
<1>5. QED
  BY <1>1, <1>3, <1>4 DEF ApprovalIInv

\* The inductive invariant is inductive.
LEMMA ApprovalStepIInv == ApprovalIInv /\ [ApprovalNext]_approvalVars => ApprovalIInv'
<1> SUFFICES ASSUME ApprovalIInv, [ApprovalNext]_approvalVars
             PROVE  ApprovalIInv'
  OBVIOUS
<1>1. ApprovalTypeOK /\ Order /\ Human /\ Reopening
  BY DEF ApprovalIInv, Order, Human, Reopening
<1>2. ApprovalTypeOK' /\ Order' /\ Human' /\ Reopening'
  BY <1>1, ApprovalStepKinds, OrderStep, HumanStep, ReopeningStep
<1>3. QED
  BY <1>2 DEF ApprovalIInv, Order, Human, Reopening

\* The inductive invariant holds of every behaviour of the protocol.
LEMMA ApprovalInvariant == ApprovalProtocol => []ApprovalIInv
BY ApprovalInitIInv, ApprovalStepIInv, PTL DEF ApprovalProtocol

\* Rows, forms and ids always have their types.
THEOREM ApprovalTypes == ApprovalProtocol => []ApprovalTypeOK
<1>1. ApprovalIInv => ApprovalTypeOK
  BY DEF ApprovalIInv
<1>2. QED
  BY <1>1, ApprovalInvariant, PTL

\* A root never has two proposals that a human could still grant.
THEOREM ProposalsExclude == ApprovalProtocol => []OneLiveProposal
<1>1. ApprovalIInv => OneLiveProposal
  <2> SUFFICES ASSUME RowsInOrder, NEW r \in Roots, NEW m \in Revisions, NEW n \in Revisions,
                      row[<<r, m>>] \in Unsettled, row[<<r, n>>] \in Unsettled
               PROVE  m = n
    BY DEF ApprovalIInv, OneLiveProposal, Unsettled
  <2>1. ~(m < n) /\ ~(n < m)
    BY DEF RowsInOrder, Settled, Unsettled, ClosedStates
  <2>2. m \in Nat /\ n \in Nat
    BY ApprovalAssumption DEF Revisions
  <2>3. QED
    BY <2>1, <2>2
<1>2. QED
  BY <1>1, ApprovalInvariant, PTL

\* Every approval and every grant has a form that a human approved.
THEOREM GrantsNeedHumans == ApprovalProtocol => []GrantNeedsHuman
<1>1. ApprovalIInv => GrantNeedsHuman
  BY DEF ApprovalIInv
<1>2. QED
  BY <1>1, ApprovalInvariant, PTL

\* After a refusal only an explicit request leads to another form.
THEOREM RefusalsStand == ApprovalProtocol => []AutomaticNeverReopens
<1>1. ApprovalIInv => AutomaticNeverReopens
  BY DEF ApprovalIInv
<1>2. QED
  BY <1>1, ApprovalInvariant, PTL

DecisionKept == \A p \in Proposals : row[p] \in ClosedStates \cup {"consumed"}
                                     => row'[p] = row[p]

\* A decision is never changed by a late answer, poll, POST or retry.
THEOREM DecisionsStick == ApprovalProtocol => DecisionSticks
<1>1. ApprovalTypeOK /\ [ApprovalNext]_approvalVars => [DecisionKept]_approvalVars
  <2> SUFFICES ASSUME ApprovalTypeOK, [ApprovalNext]_approvalVars, NEW p \in Proposals,
                      row[p] \in Settled
               PROVE  row'[p] = row[p]
    BY DEF DecisionKept, Settled
  <2>1. CASE AskStep
    BY <2>1 DEF AskStep, Ask
  <2>2. CASE RowMoves
    BY <2>2, RowMoveFacts
  <2>3. QED
    BY <2>1, <2>2, ApprovalStepKinds
<1>2. ApprovalProtocol => [][DecisionKept]_approvalVars
  BY <1>1, ApprovalTypes, PTL DEF ApprovalProtocol
<1>3. QED
  BY <1>2 DEF DecisionSticks, DecisionKept

-----------------------------------------------------------------------------
(* Types, and the approvals inside the ledger *)

\* The least of two integers.
LEMMA MinOfTwo ==
  ASSUME NEW a \in Int, NEW b \in Int
  PROVE  Min({a, b}) \in {a, b} /\ Min({a, b}) <= a /\ Min({a, b}) <= b
<1>1. \E x \in {a, b} : \A y \in {a, b} : x <= y
  <2>1. CASE a <= b
    BY <2>1
  <2>2. CASE b <= a
    BY <2>2
  <2>3. QED
    BY <2>1, <2>2
<1>2. QED
  BY <1>1 DEF Min

\* The least of three integers.
LEMMA MinOfThree ==
  ASSUME NEW a \in Int, NEW b \in Int, NEW c \in Int
  PROVE  /\ Min({a, b, c}) \in {a, b, c}
         /\ Min({a, b, c}) <= a /\ Min({a, b, c}) <= b /\ Min({a, b, c}) <= c
<1>1. \E x \in {a, b, c} : \A y \in {a, b, c} : x <= y
  <2>1. CASE a <= b /\ a <= c
    BY <2>1
  <2>2. CASE b <= a /\ b <= c
    BY <2>2
  <2>3. CASE c <= a /\ c <= b
    BY <2>3
  <2>4. QED
    BY <2>1, <2>2, <2>3
<1>2. QED
  BY <1>1 DEF Min

\* What a reservation may be granted, and what it leaves of the output.
LEMMA AllowedFacts ==
  ASSUME LedgerTypeOK, NEW r \in Roots, NEW output \in Outputs, NEW finish \in BOOLEAN
  PROVE  /\ Allowed(r, output, finish) \in Int
         /\ limit[r].output - (reserved[r] + Allowed(r, output, finish))
              >= IF finish THEN 0 ELSE FinishTokens
         /\ finish => Allowed(r, output, finish) <= FinishTokens
<1> DEFINE wanted == IF output = 0 THEN 1 ELSE output
           remaining == limit[r].output - reserved[r]
           granted == Allowed(r, output, finish)
<1>1. /\ wanted \in Int /\ FinishTokens \in Int
      /\ limit[r].output \in Int /\ reserved[r] \in Int
  BY LedgerAssumption DEF LedgerTypeOK, Budgets
<1>2. remaining \in Int
  BY <1>1
<1>3. finish => granted = Min({wanted, FinishTokens, remaining})
  BY DEF Allowed
<1>4. ~finish => granted = Min({wanted, remaining - FinishTokens})
  BY DEF Allowed
<1> HIDE DEF wanted, granted
<1>5. granted \in Int /\ granted <= IF finish THEN remaining ELSE remaining - FinishTokens
  <2> HIDE DEF remaining
  <2>1. CASE finish
    <3> DEFINE least == Min({wanted, FinishTokens, remaining})
    <3>1. least \in {wanted, FinishTokens, remaining} /\ least <= remaining
      BY <1>1, <1>2, MinOfThree
    <3> HIDE DEF least
    <3>2. least \in Int
      BY <1>1, <1>2, <3>1
    <3>3. granted = least
      BY <1>3, <2>1 DEF least
    <3>4. QED
      BY <2>1, <3>1, <3>2, <3>3
  <2>2. CASE ~finish
    <3>1. remaining - FinishTokens \in Int
      BY <1>1, <1>2
    <3>2. QED
      BY <1>1, <1>4, <2>2, <3>1, MinOfTwo
  <2>3. QED
    BY <2>1, <2>2
<1>6. limit[r].output - (reserved[r] + granted) >= IF finish THEN 0 ELSE FinishTokens
  <2> DEFINE l == limit[r].output
             h == reserved[r]
  <2>1. l \in Int /\ h \in Int /\ granted <= IF finish THEN l - h ELSE l - h - FinishTokens
    BY <1>1, <1>5
  <2> HIDE DEF l, h
  <2>2. l - (h + granted) >= IF finish THEN 0 ELSE FinishTokens
    BY <1>1, <1>5, <2>1
  <2>3. QED
    BY <2>2 DEF l, h
<1>7. finish => granted <= FinishTokens
  <2> DEFINE least == Min({wanted, FinishTokens, remaining})
  <2>1. least <= FinishTokens
    <3> HIDE DEF remaining
    <3>1. QED
      BY <1>1, <1>2, MinOfThree
  <2> HIDE DEF least
  <2>2. finish => granted = least
    BY <1>3 DEF least
  <2>3. QED
    BY <2>1, <2>2
<1>8. QED
  BY <1>5, <1>6, <1>7 DEF granted

\* Every step of the ledger is a step of the approvals or leaves them alone.
LEMMA ApprovalRefined ==
  ASSUME LedgerTypeOK, [Next]_ledgerVars
  PROVE  [ApprovalNext]_approvalVars
<1>1. ASSUME NEW s \in Sessions, NEW q \in Ids, NEW explicit \in BOOLEAN,
             ExtensionRequest(s, q, explicit)
      PROVE  ApprovalNext
  <2>1. binding[s].root \in Roots
    BY <1>1 DEF ExtensionRequest, Bound, LedgerTypeOK
  <2>2. QED
    BY <1>1, <2>1 DEF ExtensionRequest, ApprovalNext
<1>2. ASSUME NEW s \in Sessions, NEW q \in Ids, ExtensionApply(s, q)
      PROVE  ApprovalNext
  BY <1>2 DEF ExtensionApply, ApprovalNext, Asked, Bound
<1>3. CASE ApprovalStep
  BY <1>3 DEF ApprovalStep, ApprovalNext
<1>4. QED
  BY <1>1, <1>2, <1>3 DEF Next, Bind, Reserve, Tool, Finish, DeadlinePasses,
                          ledgerVars, approvalVars

\* A bound session's root is a root, and binding picks one.
LEMMA RootForType ==
  ASSUME LedgerTypeOK, NEW s \in Sessions, NEW turn \in Turns \cup {NoTurn},
         NEW task \in TaskRoots \cup {None}, ParentOf[s] # None => Bound(ParentOf[s])
  PROVE  RootFor(s, turn, task) \in Roots
<1>1. \A x \in Sessions : Bound(x) => binding[x].root \in Roots
  BY DEF Bound, LedgerTypeOK
<1>2. ParentOf[s] # None => ParentOf[s] \in Sessions
  BY LedgerAssumption
<1>3. NativeRoot[<<s, turn>>] \in Roots
  BY LedgerAssumption
<1>4. task # None => task \in Roots
  BY LedgerAssumption
<1>5. SameTurn(s, turn) => Bound(s)
  BY DEF SameTurn
<1>6. QED
  BY <1>1, <1>2, <1>3, <1>4, <1>5 DEF RootFor

\* The initial ledger has its types.
LEMMA LedgerInitTypes == Init => LedgerTypeOK
BY ApprovalInitIInv, LedgerAssumption DEF Init, LedgerTypeOK, ApprovalIInv, Budgets

\* Every step keeps the types.
LEMMA LedgerTypeStep == LedgerTypeOK /\ [Next]_ledgerVars => LedgerTypeOK'
<1> SUFFICES ASSUME LedgerTypeOK, [Next]_ledgerVars
             PROVE  LedgerTypeOK'
  OBVIOUS
<1>1. ApprovalTypeOK'
  BY ApprovalRefined, ApprovalStepKinds DEF LedgerTypeOK
<1>2. ASSUME NEW s \in Sessions, NEW turn \in Turns \cup {NoTurn},
             NEW task \in TaskRoots \cup {None}, Bind(s, turn, task)
      PROVE  LedgerTypeOK'
  <2>1. RootFor(s, turn, task) \in Roots
    BY <1>2, RootForType DEF Bind
  <2>2. QED
    BY <1>1, <1>2, <2>1 DEF Bind, LedgerTypeOK
<1>3. ASSUME NEW s \in Sessions, NEW q \in Requests, NEW output \in Outputs,
             NEW finish \in BOOLEAN, Reserve(s, q, output, finish)
      PROVE  LedgerTypeOK'
  <2> DEFINE r == binding[s].root
             granted == Allowed(r, output, finish)
  <2>1. r \in Roots /\ granted \in Int /\ granted >= 1
    BY <1>3, AllowedFacts DEF Reserve, Bound, LedgerTypeOK
  <2>2. granted \in Nat
    BY <2>1
  <2> HIDE DEF granted
  <2>3. /\ calls' = [calls EXCEPT ![r] = @ + 1]
        /\ reserved' = [reserved EXCEPT ![r] = @ + granted]
        /\ finishUsed' = [finishUsed EXCEPT ![r] = @ \/ finish]
        /\ request' = [request EXCEPT ![q] = [root |-> r, finish |-> finish,
                                              held |-> granted, charge |-> granted,
                                              done |-> FALSE]]
        /\ UNCHANGED <<binding, owner, limit, tools, late>>
    BY <1>3 DEF Reserve, granted
  <2>4. finishUsed' \in [Roots -> BOOLEAN]
    BY <2>3 DEF LedgerTypeOK
  <2>5. QED
    BY <1>1, <2>1, <2>2, <2>3, <2>4 DEF LedgerTypeOK
<1>4. ASSUME NEW s \in Sessions, Tool(s)
      PROVE  LedgerTypeOK'
  BY <1>1, <1>4 DEF Tool, Bound, LedgerTypeOK
<1>5. ASSUME NEW q \in Requests, Finish(q)
      PROVE  LedgerTypeOK'
  BY <1>1, <1>5, LedgerAssumption DEF Finish, LedgerTypeOK
<1>6. ASSUME NEW s \in Sessions, NEW q \in Ids, ExtensionApply(s, q)
      PROVE  LedgerTypeOK'
  BY <1>1, <1>6, LedgerAssumption DEF ExtensionApply, RaiseLimits, Bound, LedgerTypeOK, Budgets
<1>7. ASSUME NEW r \in Roots, DeadlinePasses(r)
      PROVE  LedgerTypeOK'
  BY <1>1, <1>7 DEF DeadlinePasses, LedgerTypeOK
<1>8. ASSUME UNCHANGED <<binding, rootVars, request>>
      PROVE  LedgerTypeOK'
  BY <1>1, <1>8 DEF LedgerTypeOK, rootVars
<1>9. QED
  BY <1>2, <1>3, <1>4, <1>5, <1>6, <1>7, <1>8
     DEF Next, ExtensionRequest, ApprovalStep, ledgerVars

\* Bindings, roots and requests always have their types.
THEOREM LedgerTypes == Spec => []LedgerTypeOK
<1>1. QED
  BY LedgerInitTypes, LedgerTypeStep, PTL DEF Spec

\* The ledger uses approvals only as their protocol allows.
THEOREM LedgerImplementsApproval == Spec => ApprovalProtocol
<1>1. Init => ApprovalInit
  BY DEF Init
<1>2. LedgerTypeOK /\ [Next]_ledgerVars => [ApprovalNext]_approvalVars
  BY ApprovalRefined
<1>3. QED
  BY <1>1, <1>2, LedgerTypes, PTL DEF Spec, ApprovalProtocol

-----------------------------------------------------------------------------
(* Kinds of steps *)

ConsumedOf(r) == {n \in Revisions : row[<<r, n>>] = "consumed"}
counterVars == <<limit, calls, reserved, finishUsed, request>>

\* The revisions of a root that are used up are a finite set.
LEMMA ConsumedFinite ==
  ASSUME NEW r \in Roots
  PROVE  /\ IsFiniteSet(ConsumedOf(r)) /\ Cardinality(ConsumedOf(r)) \in Nat
         /\ Grants(r) = Cardinality(ConsumedOf(r))
<1>1. IsFiniteSet(1 .. MaxRevision)
  BY ApprovalAssumption, FS_Interval
<1>2. IsFiniteSet(ConsumedOf(r))
  BY <1>1, FS_Subset DEF ConsumedOf, Revisions
<1>3. QED
  BY <1>2, FS_CardinalityType DEF ConsumedOf, Grants

\* Approval handlers, their creators and the world consume nothing.
LEMMA HandlersConsumeNothing ==
  ASSUME LedgerTypeOK, NEW p \in Proposals,
         ApprovalStep \/ \E r \in Roots, q \in Ids, explicit \in BOOLEAN : Ask(r, q, explicit)
  PROVE  row'[p] = "consumed" <=> row[p] = "consumed"
<1>0. row \in [Proposals -> RowStates]
  BY DEF LedgerTypeOK, ApprovalTypeOK
<1>1. ASSUME NEW x \in Proposals, Open(x) \/ Expire(x) \/ Poll(x) \/ CreatorStep(x)
      PROVE  row'[p] = "consumed" <=> row[p] = "consumed"
  BY <1>0, <1>1 DEF Open, Expire, Poll, CreatorStep, PostForm, PostDone
<1>2. ASSUME NEW q \in Ids, HandlerStep(q)
      PROVE  row'[p] = "consumed" <=> row[p] = "consumed"
  <2>1. Proposal(q) \in Proposals
    BY <1>2, ProposalOfId DEF HandlerStep, LedgerTypeOK
  <2>2. QED
    BY <1>1, <1>2, <2>1 DEF HandlerStep
<1>3. CASE WorldStep
  BY <1>3 DEF WorldStep, Answer, Age, Crash
<1>4. QED
  BY <1>1, <1>2, <1>3 DEF ApprovalStep, Ask

\* A step raises a budget, reserves, settles a request, or counts nothing.
LEMMA LedgerStepKinds ==
  ASSUME LedgerTypeOK, [Next]_ledgerVars
  PROVE  \/ \E s \in Sessions, q \in Ids : ExtensionApply(s, q)
         \/ /\ \A r \in Roots : ConsumedOf(r)' = ConsumedOf(r)
            /\ \/ \E s \in Sessions, q \in Requests, output \in Outputs, finish \in BOOLEAN :
                    Reserve(s, q, output, finish)
               \/ \E q \in Requests : Finish(q)
               \/ UNCHANGED counterVars
<1>1. UNCHANGED approvalVars => \A r \in Roots : ConsumedOf(r)' = ConsumedOf(r)
  BY DEF approvalVars, ConsumedOf
<1>2. ASSUME NEW s \in Sessions, NEW q \in Ids, NEW explicit \in BOOLEAN,
             ExtensionRequest(s, q, explicit)
      PROVE  /\ \A r \in Roots : ConsumedOf(r)' = ConsumedOf(r)
             /\ UNCHANGED counterVars
  BY <1>2 DEF ExtensionRequest, Ask, ConsumedOf, rootVars, counterVars
<1>3. ASSUME ApprovalStep
      PROVE  /\ \A r \in Roots : ConsumedOf(r)' = ConsumedOf(r)
             /\ UNCHANGED counterVars
  <2>1. \A p \in Proposals : row'[p] = "consumed" <=> row[p] = "consumed"
    BY <1>3, HandlersConsumeNothing
  <2>2. \A r \in Roots, n \in Revisions : <<r, n>> \in Proposals
    BY DEF Proposals
  <2>3. \A r \in Roots : ConsumedOf(r)' = ConsumedOf(r)
    BY <2>1, <2>2 DEF ConsumedOf
  <2>4. QED
    BY <1>3, <2>3 DEF ApprovalStep, rootVars, counterVars
<1>4. ASSUME \/ \E s \in Sessions : \/ \E turn \in Turns \cup {NoTurn}, task \in TaskRoots \cup {None} :
                                         Bind(s, turn, task)
                                    \/ Tool(s)
             \/ \E r \in Roots : DeadlinePasses(r)
             \/ UNCHANGED ledgerVars
      PROVE  UNCHANGED approvalVars /\ UNCHANGED counterVars
  BY <1>4 DEF Bind, Tool, DeadlinePasses, ledgerVars, rootVars, counterVars
<1>5. ASSUME \/ \E s \in Sessions, q \in Requests, output \in Outputs, finish \in BOOLEAN :
                    Reserve(s, q, output, finish)
             \/ \E q \in Requests : Finish(q)
      PROVE  UNCHANGED approvalVars
  BY <1>5 DEF Reserve, Finish
<1>6. QED
  BY <1>1, <1>2, <1>3, <1>4, <1>5 DEF Next

\* A granted extension uses up one more revision of its root only.
LEMMA ApplyConsumesOne ==
  ASSUME LedgerTypeOK, NEW s \in Sessions, NEW q \in Ids, ExtensionApply(s, q)
  PROVE  \E root \in Roots :
           /\ root = binding[s].root
           /\ Grants(root)' = Grants(root) + 1
           /\ \A r \in Roots \ {root} : Grants(r)' = Grants(r)
<1>1. PICK root \in Roots : root = binding[s].root /\ root = asked[q].subject
  BY DEF ExtensionApply, Bound, LedgerTypeOK
<1>2. PICK n : n = asked[q].revision
  OBVIOUS
<1>3. n \in Revisions /\ Proposal(q) = <<root, n>> /\ <<root, n>> \in Proposals
  BY <1>1, <1>2, ProposalOfId, ApprovalAssumption DEF LedgerTypeOK, Proposal, Asked
<1>4. /\ row[<<root, n>>] = "approved"
      /\ row' = [row EXCEPT ![<<root, n>>] = "consumed"]
      /\ row \in [Proposals -> RowStates]
  BY <1>3 DEF ExtensionApply, Consume, LedgerTypeOK, ApprovalTypeOK
<1>5. \A r \in Roots, m \in Revisions : <<r, m>> \in Proposals
  BY DEF Proposals
<1>6. ConsumedOf(root)' = ConsumedOf(root) \cup {n} /\ n \notin ConsumedOf(root)
  BY <1>3, <1>4, <1>5 DEF ConsumedOf
<1>7. \A r \in Roots \ {root} : ConsumedOf(r)' = ConsumedOf(r)
  BY <1>4, <1>5 DEF ConsumedOf
<1>8. \A r \in Roots : /\ IsFiniteSet(ConsumedOf(r)) /\ Grants(r) = Cardinality(ConsumedOf(r))
                       /\ Grants(r)' = Cardinality(ConsumedOf(r)')
  BY ConsumedFinite DEF Grants, ConsumedOf
<1>9. Grants(root)' = Grants(root) + 1
  <2>1. Cardinality(ConsumedOf(root) \cup {n}) = Cardinality(ConsumedOf(root)) + 1
    BY <1>6, <1>8, FS_AddElement
  <2>2. QED
    BY <1>6, <1>8, <2>1
<1>10. QED
  BY <1>1, <1>7, <1>8, <1>9

-----------------------------------------------------------------------------
(* Requests and their counts *)

NormalOf(r) == {q \in RequestsOf(r) : ~request[q].finish}
CompletionsOf(r) == {q \in RequestsOf(r) : request[q].finish}

\* The requests of a root, of either kind, are finitely many.
LEMMA RequestsFinite ==
  ASSUME NEW r \in Roots
  PROVE  /\ IsFiniteSet(RequestsOf(r)) /\ Cardinality(RequestsOf(r)) \in Nat
         /\ IsFiniteSet(NormalOf(r)) /\ Cardinality(NormalOf(r)) \in Nat
         /\ IsFiniteSet(CompletionsOf(r)) /\ Cardinality(CompletionsOf(r)) \in Nat
         /\ Cardinality(NormalOf(r)) <= Cardinality(RequestsOf(r))
<1>1. /\ RequestsOf(r) \subseteq Requests
      /\ NormalOf(r) \subseteq RequestsOf(r) /\ CompletionsOf(r) \subseteq RequestsOf(r)
  BY DEF RequestsOf, NormalOf, CompletionsOf
<1>2. IsFiniteSet(RequestsOf(r))
  BY <1>1, FS_Subset, LedgerAssumption
<1>3. QED
  BY <1>1, <1>2, FS_Subset, FS_CardinalityType

\* What a granted reservation does, with its root and its grant as values.
LEMMA ReserveFacts ==
  ASSUME LedgerTypeOK, NEW s \in Sessions, NEW q \in Requests, NEW output \in Outputs,
         NEW finish \in BOOLEAN, Reserve(s, q, output, finish)
  PROVE  \E root \in Roots, granted \in Nat :
           /\ request[q].root = None
           /\ request' = [request EXCEPT ![q] = [root |-> root, finish |-> finish,
                                                 held |-> granted, charge |-> granted,
                                                 done |-> FALSE]]
           /\ calls' = [calls EXCEPT ![root] = @ + 1]
           /\ reserved' = [reserved EXCEPT ![root] = @ + granted]
           /\ finishUsed' = [finishUsed EXCEPT ![root] = @ \/ finish]
           /\ limit' = limit
           /\ finish => ~finishUsed[root]
           /\ ~finish => calls[root] < limit[root].calls
           /\ limit[root].output - (reserved[root] + granted)
                >= IF finish THEN 0 ELSE FinishTokens
           /\ granted >= 1 /\ (finish => granted <= FinishTokens)
<1> DEFINE granted == Allowed(binding[s].root, output, finish)
<1>1. binding[s].root \in Roots
  BY DEF Reserve, Bound, LedgerTypeOK
<1>2. PICK root \in Roots : root = binding[s].root
  BY <1>1
<1>3. /\ granted \in Int
      /\ limit[root].output - (reserved[root] + granted)
              >= IF finish THEN 0 ELSE FinishTokens
      /\ finish => granted <= FinishTokens
  BY <1>2, AllowedFacts
<1>4. granted >= 1
  BY DEF Reserve
<1>5. PICK g \in Nat : g = granted
  BY <1>3, <1>4
<1>6. /\ limit[root].output - (reserved[root] + g) >= IF finish THEN 0 ELSE FinishTokens
      /\ g >= 1 /\ (finish => g <= FinishTokens)
  BY <1>3, <1>4, <1>5
<1>7. /\ request[q].root = None
      /\ request' = [request EXCEPT ![q] = [root |-> root, finish |-> finish,
                                            held |-> g, charge |-> g, done |-> FALSE]]
      /\ calls' = [calls EXCEPT ![root] = @ + 1]
      /\ reserved' = [reserved EXCEPT ![root] = @ + g]
      /\ finishUsed' = [finishUsed EXCEPT ![root] = @ \/ finish]
      /\ limit' = limit
      /\ finish => ~finishUsed[root]
      /\ ~finish => calls[root] < limit[root].calls
  BY <1>2, <1>5 DEF Reserve
<1>8. QED
  BY <1>6, <1>7

\* A reservation adds its request to its root's, and to no other root's.
LEMMA ReserveAddsRequest ==
  ASSUME LedgerTypeOK, NEW q \in Requests, NEW root \in Roots, NEW finish \in BOOLEAN,
         NEW granted, request[q].root = None,
         request' = [request EXCEPT ![q] = [root |-> root, finish |-> finish, held |-> granted,
                                            charge |-> granted, done |-> FALSE]]
  PROVE  /\ \A r \in Roots : q \notin RequestsOf(r)
         /\ \A r \in Roots \ {root} : /\ RequestsOf(r)' = RequestsOf(r)
                                      /\ NormalOf(r)' = NormalOf(r)
                                      /\ CompletionsOf(r)' = CompletionsOf(r)
         /\ RequestsOf(root)' = RequestsOf(root) \cup {q}
         /\ finish => /\ NormalOf(root)' = NormalOf(root)
                      /\ CompletionsOf(root)' = CompletionsOf(root) \cup {q}
         /\ ~finish => /\ NormalOf(root)' = NormalOf(root) \cup {q}
                       /\ CompletionsOf(root)' = CompletionsOf(root)
<1>1. None \notin Roots
  BY ApprovalAssumption
<1>2. /\ request'[q].root = root /\ request'[q].finish = finish
      /\ \A x \in Requests \ {q} : request'[x] = request[x]
  BY DEF LedgerTypeOK
<1>3. \A r \in Roots : q \notin RequestsOf(r)
  BY <1>1 DEF RequestsOf
<1>4. \A r \in Roots \ {root} : RequestsOf(r)' = RequestsOf(r)
  BY <1>1, <1>2 DEF RequestsOf
<1>5. RequestsOf(root)' = RequestsOf(root) \cup {q}
  BY <1>2 DEF RequestsOf
<1>6. \A r \in Roots : \A x \in RequestsOf(r) : request'[x] = request[x]
  BY <1>2, <1>3 DEF RequestsOf
<1>7. \A r \in Roots \ {root} : NormalOf(r)' = NormalOf(r) /\ CompletionsOf(r)' = CompletionsOf(r)
  BY <1>4, <1>6 DEF NormalOf, CompletionsOf
<1>8. finish => /\ NormalOf(root)' = NormalOf(root)
                /\ CompletionsOf(root)' = CompletionsOf(root) \cup {q}
  BY <1>2, <1>5, <1>6 DEF NormalOf, CompletionsOf
<1>9. ~finish => /\ NormalOf(root)' = NormalOf(root) \cup {q}
                 /\ CompletionsOf(root)' = CompletionsOf(root)
  BY <1>2, <1>5, <1>6 DEF NormalOf, CompletionsOf
<1>10. QED
  BY <1>3, <1>4, <1>5, <1>7, <1>8, <1>9

\* A step that leaves roots and kinds of requests alone leaves these sets alone.
LEMMA SameRequests ==
  ASSUME \A q \in Requests : request'[q].root = request[q].root
                             /\ request'[q].finish = request[q].finish,
         NEW r \in Roots
  PROVE  /\ RequestsOf(r)' = RequestsOf(r) /\ NormalOf(r)' = NormalOf(r)
         /\ CompletionsOf(r)' = CompletionsOf(r)
BY DEF RequestsOf, NormalOf, CompletionsOf

\* An outcome leaves the root and the kind of every request alone.
LEMMA FinishKeepsRoots ==
  ASSUME LedgerTypeOK, NEW q \in Requests, Finish(q)
  PROVE  \A x \in Requests : request'[x].root = request[x].root
                             /\ request'[x].finish = request[x].finish
BY DEF Finish, LedgerTypeOK

-----------------------------------------------------------------------------
(* Calls *)

Completing(r) == IF finishUsed[r] THEN 1 ELSE 0
CallsCovered ==
  \A r \in Roots : /\ calls[r] = Cardinality(RequestsOf(r))
                   /\ Cardinality(NormalOf(r)) <= limit[r].calls
                   /\ Cardinality(CompletionsOf(r)) <= Grants(r) + Completing(r)

\* Every step keeps calls and requests in agreement and within the budget.
LEMMA CallsStep ==
  ASSUME LedgerTypeOK, CallsCovered, [Next]_ledgerVars
  PROVE  CallsCovered'
<1>0. \A r \in Roots : /\ Grants(r) \in Nat /\ calls[r] \in Nat /\ limit[r].calls \in Nat
                       /\ Completing(r) \in {0, 1}
  BY ConsumedFinite DEF LedgerTypeOK, Budgets, Completing
<1>1. ASSUME NEW s \in Sessions, NEW q \in Ids, ExtensionApply(s, q)
      PROVE  CallsCovered'
  <2>1. PICK root \in Roots : /\ root = binding[s].root
                              /\ Grants(root)' = Grants(root) + 1
                              /\ \A r \in Roots \ {root} : Grants(r)' = Grants(r)
    BY <1>1, ApplyConsumesOne
  <2>2. request' = request /\ calls' = calls
    BY <1>1 DEF ExtensionApply, RaiseLimits
  <2>3. \A r \in Roots : /\ RequestsOf(r)' = RequestsOf(r) /\ NormalOf(r)' = NormalOf(r)
                         /\ CompletionsOf(r)' = CompletionsOf(r)
    BY <2>2, SameRequests
  <2>4. \A r \in Roots : limit'[r].calls >= limit[r].calls
    BY <1>1, <2>1, LedgerAssumption DEF ExtensionApply, RaiseLimits, LedgerTypeOK, Budgets
  <2>5. \A r \in Roots : Grants(r)' + Completing(r)' >= Grants(r) + Completing(r)
    <3>1. Completing(root)' \in {0, 1}
      BY DEF Completing
    <3>2. \A r \in Roots \ {root} : Completing(r)' = Completing(r)
      BY <1>1, <2>1 DEF ExtensionApply, RaiseLimits, Completing, LedgerTypeOK
    <3>3. Grants(root)' + Completing(root)' >= Grants(root) + Completing(root)
      BY <1>0, <2>1, <3>1
    <3>4. QED
      BY <1>0, <2>1, <3>2, <3>3
  <2>6. \A r \in Roots : Grants(r)' + Completing(r)' \in Nat /\ limit'[r].calls \in Nat
    <3>1. LedgerTypeOK'
      BY LedgerTypeStep
    <3>2. \A r \in Roots : limit'[r].calls \in Nat /\ Completing(r)' \in {0, 1}
      BY <3>1 DEF LedgerTypeOK, Budgets, Completing
    <3>3. \A r \in Roots : Grants(r)' \in Nat
      BY <1>0, <2>1
    <3>4. QED
      BY <3>2, <3>3
  <2>7. QED
    BY <1>0, <2>2, <2>3, <2>4, <2>5, <2>6, RequestsFinite DEF CallsCovered
<1>2. ASSUME NEW s \in Sessions, NEW q \in Requests, NEW output \in Outputs,
             NEW finish \in BOOLEAN, Reserve(s, q, output, finish),
             \A r \in Roots : ConsumedOf(r)' = ConsumedOf(r)
      PROVE  CallsCovered'
  <2>1. PICK root \in Roots, granted \in Nat :
           /\ request[q].root = None
           /\ request' = [request EXCEPT ![q] = [root |-> root, finish |-> finish,
                                                 held |-> granted, charge |-> granted,
                                                 done |-> FALSE]]
           /\ calls' = [calls EXCEPT ![root] = @ + 1]
           /\ finishUsed' = [finishUsed EXCEPT ![root] = @ \/ finish]
           /\ limit' = limit
           /\ finish => ~finishUsed[root]
           /\ ~finish => calls[root] < limit[root].calls
    BY <1>2, ReserveFacts
  <2>2. /\ q \notin RequestsOf(root)
        /\ \A r \in Roots \ {root} : /\ RequestsOf(r)' = RequestsOf(r)
                                     /\ NormalOf(r)' = NormalOf(r)
                                     /\ CompletionsOf(r)' = CompletionsOf(r)
        /\ RequestsOf(root)' = RequestsOf(root) \cup {q}
        /\ finish => /\ NormalOf(root)' = NormalOf(root)
                     /\ CompletionsOf(root)' = CompletionsOf(root) \cup {q}
        /\ ~finish => /\ NormalOf(root)' = NormalOf(root) \cup {q}
                      /\ CompletionsOf(root)' = CompletionsOf(root)
    BY <2>1, ReserveAddsRequest
  <2>3. \A r \in Roots : Grants(r)' = Grants(r)
    BY <1>2 DEF Grants, ConsumedOf
  <2>4. ASSUME NEW r \in Roots \ {root}
        PROVE  /\ calls'[r] = calls[r] /\ limit'[r] = limit[r]
               /\ Completing(r)' = Completing(r)
    BY <2>1 DEF Completing, LedgerTypeOK
  <2>5. calls'[root] = calls[root] + 1 /\ limit'[root] = limit[root]
    BY <2>1 DEF LedgerTypeOK
  <2>6. calls'[root] = Cardinality(RequestsOf(root)')
    <3>1. Cardinality(RequestsOf(root) \cup {q}) = Cardinality(RequestsOf(root)) + 1
      BY <2>2, RequestsFinite, FS_AddElement
    <3>2. QED
      BY <2>2, <2>5, <3>1 DEF CallsCovered
  <2>7. Cardinality(NormalOf(root)') <= limit'[root].calls
    <3>1. CASE finish
      BY <2>2, <2>5, <3>1 DEF CallsCovered
    <3>2. CASE ~finish
      <4>1. Cardinality(NormalOf(root)') = Cardinality(NormalOf(root)) + 1
        BY <2>2, <3>2, RequestsFinite, FS_AddElement DEF NormalOf
      <4>2. Cardinality(NormalOf(root)) <= calls[root]
        BY RequestsFinite DEF CallsCovered
      <4>3. QED
        BY <1>0, <2>1, <2>5, <3>2, <4>1, <4>2, RequestsFinite
    <3>3. QED
      BY <3>1, <3>2
  <2>8. Cardinality(CompletionsOf(root)') <= Grants(root)' + Completing(root)'
    <3>1. CASE finish
      <4>1. Cardinality(CompletionsOf(root)') = Cardinality(CompletionsOf(root)) + 1
        BY <2>2, <3>1, RequestsFinite, FS_AddElement DEF CompletionsOf
      <4>2. Completing(root) = 0 /\ Completing(root)' = 1
        BY <2>1, <3>1 DEF Completing, LedgerTypeOK
      <4>3. QED
        BY <1>0, <2>3, <4>1, <4>2, RequestsFinite DEF CallsCovered
    <3>2. CASE ~finish
      <4>1. finishUsed'[root] = finishUsed[root]
        BY <2>1, <3>2 DEF LedgerTypeOK
      <4>2. QED
        BY <2>2, <2>3, <3>2, <4>1 DEF CallsCovered, Completing
    <3>3. QED
      BY <3>1, <3>2
  <2>9. QED
    BY <2>2, <2>3, <2>4, <2>6, <2>7, <2>8 DEF CallsCovered
<1>3. ASSUME \/ \E q \in Requests : Finish(q)
             \/ UNCHANGED counterVars,
             \A r \in Roots : ConsumedOf(r)' = ConsumedOf(r)
      PROVE  CallsCovered'
  <2>1. \A x \in Requests : request'[x].root = request[x].root
                            /\ request'[x].finish = request[x].finish
    BY <1>3, FinishKeepsRoots DEF counterVars
  <2>2. calls' = calls /\ limit' = limit /\ finishUsed' = finishUsed
    BY <1>3 DEF Finish, counterVars
  <2>3. \A r \in Roots : Grants(r)' = Grants(r) /\ Completing(r)' = Completing(r)
    BY <1>3, <2>2 DEF Grants, ConsumedOf, Completing
  <2>4. \A r \in Roots : /\ RequestsOf(r)' = RequestsOf(r) /\ NormalOf(r)' = NormalOf(r)
                         /\ CompletionsOf(r)' = CompletionsOf(r)
    BY <2>1, SameRequests
  <2>5. QED
    BY <2>2, <2>3, <2>4 DEF CallsCovered
<1>4. QED
  BY <1>1, <1>2, <1>3, LedgerStepKinds

-----------------------------------------------------------------------------
(* Output *)

Refill == Min({FinishTokens, Increment.output})
NoOverrun(r) == \A q \in RequestsOf(r) : request[q].charge <= request[q].held
OutputLeft(r) == limit[r].output - reserved[r]

OutputCovered ==
  /\ \A q \in Requests : request[q].root # None /\ ~request[q].done
                         => request[q].charge = request[q].held
  /\ \A r \in Roots : NoOverrun(r) => OutputLeft(r) >= IF finishUsed[r] THEN 0 ELSE Refill

\* The refill is no larger than the reserve or an extension.
LEMMA RefillFacts ==
  /\ Refill \in Nat /\ Refill <= FinishTokens /\ Refill <= Increment.output
  /\ FinishTokens \in Nat /\ Increment.output \in Nat
<1>1. FinishTokens \in Nat /\ Increment.output \in Nat
  BY LedgerAssumption DEF Budgets
<1>2. FinishTokens \in Int /\ Increment.output \in Int
  BY <1>1
<1>3. /\ Refill \in {FinishTokens, Increment.output}
      /\ Refill <= FinishTokens /\ Refill <= Increment.output
  BY <1>2, MinOfTwo DEF Refill
<1>4. QED
  BY <1>1, <1>3

\* Every step keeps the completion reserve covered.
LEMMA OutputStep ==
  ASSUME LedgerTypeOK, OutputCovered, [Next]_ledgerVars
  PROVE  OutputCovered'
<1>0. \A r \in Roots : limit[r].output \in Nat /\ reserved[r] \in Int /\ finishUsed[r] \in BOOLEAN
  BY DEF LedgerTypeOK, Budgets
<1>1. ASSUME NEW s \in Sessions, NEW q \in Ids, ExtensionApply(s, q)
      PROVE  OutputCovered'
  <2>1. PICK root \in Roots : root = binding[s].root
    BY <1>1, ApplyConsumesOne
  <2>2. request' = request /\ reserved' = reserved
    BY <1>1 DEF ExtensionApply
  <2>3. \A r \in Roots : NoOverrun(r)' = NoOverrun(r)
    BY <2>2 DEF NoOverrun, RequestsOf
  <2>4. ASSUME NEW r \in Roots \ {root}, NoOverrun(r)'
        PROVE  OutputLeft(r)' >= IF finishUsed'[r] THEN 0 ELSE Refill
    <3>1. limit'[r] = limit[r] /\ finishUsed'[r] = finishUsed[r]
      BY <1>1, <2>1 DEF ExtensionApply, RaiseLimits, LedgerTypeOK
    <3>2. QED
      BY <2>2, <2>3, <2>4, <3>1 DEF OutputCovered, OutputLeft
  <2>5. ASSUME NoOverrun(root)'
        PROVE  OutputLeft(root)' >= Refill
    <3>1. limit'[root].output = limit[root].output + Increment.output
      BY <1>1, <2>1 DEF ExtensionApply, RaiseLimits, LedgerTypeOK
    <3>2. OutputLeft(root) >= IF finishUsed[root] THEN 0 ELSE Refill
      BY <2>3, <2>5 DEF OutputCovered
    <3>3. limit[root].output - reserved[root] >= 0
      BY <1>0, <3>2, RefillFacts DEF OutputLeft
    <3>4. limit'[root].output - reserved[root] >= Refill
      BY <1>0, <3>1, <3>3, RefillFacts
    <3>5. QED
      BY <2>2, <3>4 DEF OutputLeft
  <2>6. finishUsed'[root] = FALSE
    BY <1>1, <2>1 DEF ExtensionApply, RaiseLimits, LedgerTypeOK
  <2>7. QED
    BY <2>2, <2>4, <2>5, <2>6 DEF OutputCovered
<1>2. ASSUME NEW s \in Sessions, NEW q \in Requests, NEW output \in Outputs,
             NEW finish \in BOOLEAN, Reserve(s, q, output, finish)
      PROVE  OutputCovered'
  <2>1. PICK root \in Roots, granted \in Nat :
           /\ request[q].root = None
           /\ request' = [request EXCEPT ![q] = [root |-> root, finish |-> finish,
                                                 held |-> granted, charge |-> granted,
                                                 done |-> FALSE]]
           /\ reserved' = [reserved EXCEPT ![root] = @ + granted]
           /\ finishUsed' = [finishUsed EXCEPT ![root] = @ \/ finish]
           /\ limit' = limit
           /\ limit[root].output - (reserved[root] + granted)
                >= IF finish THEN 0 ELSE FinishTokens
    BY <1>2, ReserveFacts
  <2>2. /\ \A r \in Roots : q \notin RequestsOf(r)
        /\ \A r \in Roots \ {root} : RequestsOf(r)' = RequestsOf(r)
    BY <2>1, ReserveAddsRequest
  <2>3. /\ request'[q].charge = request'[q].held
        /\ \A x \in Requests \ {q} : request'[x] = request[x]
    BY <2>1 DEF LedgerTypeOK
  <2>4. ASSUME NEW r \in Roots \ {root}, NoOverrun(r)'
        PROVE  OutputLeft(r)' >= IF finishUsed'[r] THEN 0 ELSE Refill
    <3>1. reserved'[r] = reserved[r] /\ finishUsed'[r] = finishUsed[r]
      BY <2>1 DEF LedgerTypeOK
    <3>2. NoOverrun(r)
      BY <2>2, <2>3, <2>4 DEF NoOverrun, RequestsOf
    <3>3. QED
      BY <2>1, <3>1, <3>2 DEF OutputCovered, OutputLeft
  <2>5. OutputLeft(root)' >= IF finishUsed'[root] THEN 0 ELSE Refill
    <3>1. /\ reserved'[root] = reserved[root] + granted
          /\ finishUsed'[root] = (finishUsed[root] \/ finish)
      BY <2>1 DEF LedgerTypeOK
    <3>2. OutputLeft(root)' = limit[root].output - (reserved[root] + granted)
      BY <2>1, <3>1 DEF OutputLeft
    <3>3. OutputLeft(root)' \in Int
      BY <1>0, <3>2
    <3>4. CASE finish
      BY <2>1, <3>1, <3>2, <3>4
    <3>5. CASE ~finish
      <4>1. OutputLeft(root)' >= FinishTokens
        BY <2>1, <3>2, <3>5
      <4>2. OutputLeft(root)' >= Refill /\ OutputLeft(root)' >= 0
        BY <3>3, <4>1, RefillFacts
      <4>3. QED
        BY <4>2
    <3>6. QED
      BY <3>4, <3>5
  <2>6. QED
    BY <2>3, <2>4, <2>5 DEF OutputCovered
<1>3. ASSUME NEW q \in Requests, Finish(q)
      PROVE  OutputCovered'
  <2>1. PICK root \in Roots : root = request[q].root
    BY <1>3 DEF Finish, LedgerTypeOK
  <2>2. PICK charge \in Nat :
          /\ request' = [request EXCEPT ![q] = [root |-> @.root, finish |-> @.finish,
                                                held |-> @.held, charge |-> charge,
                                                done |-> TRUE]]
          /\ reserved' = [reserved EXCEPT ![root] = @ + charge - request[q].held]
    BY <1>3, <2>1, LedgerAssumption DEF Finish, LedgerTypeOK
  <2>3. limit' = limit /\ finishUsed' = finishUsed
    BY <1>3 DEF Finish
  <2>4. /\ request'[q].charge = charge /\ request'[q].held = request[q].held
        /\ request'[q].root = root /\ request'[q].done
        /\ \A x \in Requests \ {q} : request'[x] = request[x]
    BY <2>1, <2>2 DEF LedgerTypeOK
  <2>5. request[q].charge = request[q].held
    BY <1>3 DEF Finish, OutputCovered
  <2>6. request[q].held \in Nat
    BY DEF LedgerTypeOK
  <2>7. ASSUME NEW r \in Roots, NoOverrun(r)'
        PROVE  NoOverrun(r)
    BY <2>1, <2>4, <2>5, <2>6, <2>7 DEF NoOverrun, RequestsOf
  <2>8. ASSUME NEW r \in Roots \ {root}, NoOverrun(r)'
        PROVE  OutputLeft(r)' = OutputLeft(r)
    BY <2>2, <2>3 DEF OutputLeft, LedgerTypeOK
  <2>9. ASSUME NoOverrun(root)'
        PROVE  OutputLeft(root)' >= OutputLeft(root)
    <3>1. charge <= request[q].held
      BY <2>4, <2>9 DEF NoOverrun, RequestsOf
    <3>2. reserved'[root] = reserved[root] + charge - request[q].held
      BY <2>2 DEF LedgerTypeOK
    <3>3. reserved'[root] <= reserved[root]
      BY <1>0, <2>6, <3>1, <3>2
    <3>4. limit[root].output - reserved'[root] >= limit[root].output - reserved[root]
      BY <1>0, <2>6, <3>2, <3>3
    <3>5. QED
      BY <2>3, <3>4 DEF OutputLeft
  <2>10. \A r \in Roots : OutputLeft(r) \in Int /\ OutputLeft(r)' \in Int
    <3>1. LedgerTypeOK'
      BY LedgerTypeStep
    <3>2. QED
      BY <1>0, <3>1 DEF OutputLeft, LedgerTypeOK, Budgets
  <2>11. ASSUME NEW r \in Roots, NoOverrun(r)'
         PROVE  OutputLeft(r)' >= IF finishUsed'[r] THEN 0 ELSE Refill
    <3>1. OutputLeft(r) >= IF finishUsed'[r] THEN 0 ELSE Refill
      BY <2>3, <2>7, <2>11 DEF OutputCovered
    <3>2. OutputLeft(r)' >= OutputLeft(r)
      BY <2>8, <2>9, <2>10, <2>11
    <3>3. QED
      BY <2>10, <3>1, <3>2, RefillFacts
  <2>12. QED
    BY <2>4, <2>11 DEF OutputCovered
<1>4. CASE UNCHANGED counterVars
  BY <1>4 DEF counterVars, OutputCovered, NoOverrun, RequestsOf, OutputLeft
<1>5. QED
  BY <1>1, <1>2, <1>3, <1>4, LedgerStepKinds

-----------------------------------------------------------------------------
(* What requests are charged in all.  A sum over a set is a fold whose order   *)
(* the library leaves open.  The lemmas show by a smallest counterexample that *)
(* it exists for finitely many integers and may be taken in any order.         *)

\* The element that the library's folds take first.
Pick(s) == CHOOSE x \in s : TRUE

\* A family of subsets of a finite set has a member with no smaller one in it.
LEMMA SmallestSubset ==
  ASSUME NEW T, IsFiniteSet(T), NEW Bad \in SUBSET SUBSET T, Bad # {}
  PROVE  \E s \in Bad : \A t \in SUBSET s : t # s => t \notin Bad
<1>1. FiniteSubsetsOf(T) = SUBSET T
  BY FS_FiniteSubsetsOfFinite
<1>2. IsWellFoundedOn(StrictSubsetOrdering(T), SUBSET T)
  BY <1>1, FS_StrictSubsetOrderingWellFounded
<1>3. PICK s \in Bad : \A t \in Bad : <<t, s>> \notin StrictSubsetOrdering(T)
  BY <1>2, WFMin
<1> QED BY <1>3 DEF StrictSubsetOrdering

\* h[s] sums f over s, for every subset s of T.  Both conditions are named, so
\* that the provers need not look inside them.
Summand(h, f, s) == IF s = {} THEN 0 ELSE f[Pick(s)] + h[s \ {Pick(s)}]
Ints(f, T) == \A x \in T : f[x] \in Int
IsSumOf(h, f, T) == \A s \in SUBSET T : h[s] \in Int /\ h[s] = Summand(h, f, s)

\* A set of natural numbers has a least one.
LEMMA LeastNumber ==
  ASSUME NEW Bad \in SUBSET Nat, Bad # {}
  PROVE  \E n \in Bad : \A m \in Bad : ~(m < n)
<1>1. PICK n \in Bad : \A m \in Bad : <<m, n>> \notin OpToRel(<, Nat)
  BY NatLessThanWellFounded, WFMin
<1> QED BY <1>1 DEF OpToRel

\* The element picked from a set is one of it.
LEMMA PickIn == ASSUME NEW s, s # {} PROVE Pick(s) \in s
BY DEF Pick

\* The recursion of a sum has a solution.
LEMMA SumExists ==
  ASSUME NEW T, IsFiniteSet(T), NEW f, Ints(f, T)
  PROVE  \E h : IsSumOf(h, f, T)
<1> DEFINE Good(h, n) == \A s \in SUBSET T : Cardinality(s) <= n => h[s] = Summand(h, f, s)
           Bad == {n \in Nat : ~ \E h \in [SUBSET T -> Int] : Good(h, n)}
<1>0. /\ \A s \in SUBSET T : /\ Cardinality(s) \in Nat /\ Cardinality(s) <= Cardinality(T)
                             /\ Cardinality(s) = 0 <=> s = {}
                             /\ s # {} => Cardinality(s \ {Pick(s)}) = Cardinality(s) - 1
      /\ Cardinality(T) \in Nat
  <2>1. \A s \in SUBSET T : IsFiniteSet(s) /\ Cardinality(s) <= Cardinality(T)
    BY FS_Subset
  <2>2. \A s : IsFiniteSet(s) => Cardinality(s) \in Nat /\ (Cardinality(s) = 0 <=> s = {})
    BY FS_CardinalityType, FS_EmptySet
  <2>3. \A s, x : IsFiniteSet(s) /\ x \in s => Cardinality(s \ {x}) = Cardinality(s) - 1
    BY FS_RemoveElement
  <2> QED BY <2>1, <2>2, <2>3, PickIn
<1>1. Bad = {}
  <2> SUFFICES ASSUME Bad # {} PROVE FALSE
    OBVIOUS
  <2>1. PICK n \in Bad : \A m \in Bad : ~(m < n)
    <3> HIDE DEF Good
    <3>1. Bad \in SUBSET Nat
      OBVIOUS
    <3> HIDE DEF Bad
    <3> QED BY <3>1, LeastNumber
  <2>2. n # 0
    <3> DEFINE z == [s \in SUBSET T |-> 0]
    <3>1. z \in [SUBSET T -> Int]
      OBVIOUS
    <3>2. ASSUME NEW s \in SUBSET T, Cardinality(s) <= 0
          PROVE  s = {}
      <4>1. Cardinality(s) \in Nat /\ (Cardinality(s) = 0 <=> s = {})
        BY <1>0
      <4>2. Cardinality(s) = 0
        BY <3>2, <4>1
      <4> QED BY <4>1, <4>2
    <3>3. z[{}] = Summand(z, f, {})
      BY DEF Summand
    <3>4. Good(z, 0)
      BY <3>2, <3>3
    <3> HIDE DEF z, Good
    <3> QED BY <3>1, <3>4, <2>1
  <2>3. n \in Nat /\ n - 1 \in Nat /\ n - 1 \notin Bad
    <3> HIDE DEF Good
    <3>1. n \in Nat
      BY <2>1
    <3> HIDE DEF Bad
    <3> QED BY <2>1, <2>2, <3>1
  <2>4. PICK h \in [SUBSET T -> Int] : Good(h, n - 1)
    BY <2>3
  <2> DEFINE g == [s \in SUBSET T |-> IF Cardinality(s) <= n - 1 THEN h[s]
                                      ELSE Summand(h, f, s)]
  <2>5. \A s \in SUBSET T : s # {} => Pick(s) \in T /\ s \ {Pick(s)} \in SUBSET T
    BY PickIn
  <2>6. g \in [SUBSET T -> Int]
    <3>1. \A s \in SUBSET T : Summand(h, f, s) \in Int
      BY <2>5 DEF Summand, Ints
    <3> QED BY <3>1
  <2>7. Good(g, n)
    <3> SUFFICES ASSUME NEW s \in SUBSET T, Cardinality(s) <= n
                 PROVE  g[s] = Summand(g, f, s)
      OBVIOUS
    <3>1. CASE s = {}
      <4>1. g[s] = h[s] /\ h[s] = Summand(h, f, s)
        <5>1. Cardinality(s) <= n - 1
          <6>1. Cardinality(s) = 0
            BY <1>0, <3>1
          <6>2. 0 <= n - 1
            BY <2>3
          <6> QED BY <6>1, <6>2
        <5> QED BY <2>4, <5>1
      <4> QED BY <3>1, <4>1 DEF Summand
    <3>2. CASE s # {}
      <4> DEFINE t == s \ {Pick(s)}
      <4>1. t \in SUBSET T /\ Cardinality(t) <= n - 1
        BY <1>0, <2>3, <2>5, <3>2
      <4>2. g[t] = h[t]
        BY <4>1
      <4>3. g[s] = Summand(h, f, s)
        BY <2>3, <2>4, <1>0
      <4> QED BY <3>2, <4>2, <4>3 DEF Summand
    <3> QED BY <3>1, <3>2
  <2> QED BY <2>1, <2>6, <2>7
<1>2. PICK h \in [SUBSET T -> Int] : Good(h, Cardinality(T))
  <2> HIDE DEF Good
  <2> QED BY <1>0, <1>1
<1> QED BY <1>0, <1>2 DEF IsSumOf

\* Any element may be added last.
LEMMA SumAnyOrder ==
  ASSUME NEW T, IsFiniteSet(T), NEW f, Ints(f, T), NEW h, IsSumOf(h, f, T)
  PROVE  \A s \in SUBSET T : \A x \in s : h[s] = f[x] + h[s \ {x}]
<1> DEFINE Bad == {s \in SUBSET T : \E x \in s : h[s] # f[x] + h[s \ {x}]}
<1>1. Bad = {}
  <2> SUFFICES ASSUME Bad # {} PROVE FALSE
    OBVIOUS
  <2>1. PICK s \in Bad : \A t \in SUBSET s : t # s => t \notin Bad
    <3>1. Bad \in SUBSET SUBSET T
      OBVIOUS
    <3> HIDE DEF Bad
    <3> QED BY <3>1, SmallestSubset
  <2>2. PICK x \in s : h[s] # f[x] + h[s \ {x}]
    BY <2>1
  <2> DEFINE c == Pick(s)
  <2>3. c \in s /\ h[s] = f[c] + h[s \ {c}]
    BY <2>1, <2>2, PickIn DEF Summand, IsSumOf
  <2>4. c # x
    BY <2>2, <2>3
  <2>5. /\ s \ {c} \in SUBSET T /\ s \ {c} \notin Bad /\ x \in s \ {c}
        /\ s \ {x} \in SUBSET T /\ s \ {x} \notin Bad /\ c \in s \ {x}
    BY <2>1, <2>2, <2>3, <2>4
  <2> HIDE DEF c
  <2>6. h[s \ {c}] = f[x] + h[(s \ {c}) \ {x}]
    BY <2>5
  <2>7. h[s \ {x}] = f[c] + h[(s \ {x}) \ {c}]
    BY <2>5
  <2>8. (s \ {c}) \ {x} = (s \ {x}) \ {c}
    OBVIOUS
  <2>9. PICK k : k = h[(s \ {x}) \ {c}]
    OBVIOUS
  <2>10. f[x] \in Int /\ f[c] \in Int /\ k \in Int
    BY <2>1, <2>2, <2>3, <2>9 DEF Ints, IsSumOf
  <2>11. h[s] = f[c] + (f[x] + k) /\ h[s \ {x}] = f[c] + k
    BY <2>3, <2>6, <2>7, <2>8, <2>9
  <2>12. h[s] = f[x] + h[s \ {x}]
    BY <2>10, <2>11
  <2> QED BY <2>2, <2>12
<1> QED BY <1>1

\* The recursion of a sum has no other solution.
LEMMA SumUnique ==
  ASSUME NEW T, IsFiniteSet(T), NEW f, NEW h, NEW k, IsSumOf(h, f, T),
         \A s \in SUBSET T : k[s] = Summand(k, f, s)
  PROVE  k[T] = h[T]
<1> DEFINE Bad == {s \in SUBSET T : h[s] # k[s]}
<1>1. Bad = {}
  <2> SUFFICES ASSUME Bad # {} PROVE FALSE
    OBVIOUS
  <2>1. PICK s \in Bad : \A t \in SUBSET s : t # s => t \notin Bad
    <3>1. Bad \in SUBSET SUBSET T
      OBVIOUS
    <3> HIDE DEF Bad
    <3> QED BY <3>1, SmallestSubset
  <2>2. h[s] = Summand(h, f, s) /\ k[s] = Summand(k, f, s)
    BY <2>1 DEF IsSumOf
  <2>3. s # {} => h[s \ {Pick(s)}] = k[s \ {Pick(s)}]
    BY <2>1, PickIn
  <2> QED BY <2>1, <2>2, <2>3 DEF Summand
<1> QED BY <1>1

\* The fold is the sum.
LEMMA ChargesAreSum ==
  ASSUME NEW T, IsFiniteSet(T), NEW rows, NEW f, \A q \in T : f[q] = rows[q].charge,
         NEW h, IsSumOf(h, f, T)
  PROVE  ChargesOf(rows, T) = h[T]
<1> DEFINE Solves(g) == g = [s \in SUBSET T |-> IF s = {} THEN 0
                                                ELSE rows[Pick(s)].charge + g[s \ {Pick(s)}]]
           fold == CHOOSE g : Solves(g)
<1>1. ChargesOf(rows, T) = fold[T]
  BY DEF ChargesOf, MapThenSumSet, MapThenFoldSet, Pick
<1>2. \A s \in SUBSET T : s # {} => f[Pick(s)] = rows[Pick(s)].charge
  BY PickIn
<1>3. PICK k : k = [s \in SUBSET T |-> h[s]]
  OBVIOUS
<1>4. Solves(k)
  <2>1. ASSUME NEW s \in SUBSET T
        PROVE  k[s] = IF s = {} THEN 0 ELSE rows[Pick(s)].charge + k[s \ {Pick(s)}]
    <3>1. h[s] = IF s = {} THEN 0 ELSE f[Pick(s)] + h[s \ {Pick(s)}]
      BY DEF Summand, IsSumOf
    <3>2. k[s \ {Pick(s)}] = h[s \ {Pick(s)}] /\ k[s] = h[s]
      BY <1>3
    <3> QED BY <1>2, <3>1, <3>2
  <2>2. k = [s \in SUBSET T |-> k[s]]
    BY <1>3
  <2> QED BY <2>1, <2>2
<1>5. PICK g : g = fold
  OBVIOUS
<1>6. Solves(g)
  <2>1. Solves(fold)
    <3> HIDE DEF Solves
    <3> QED BY <1>4
  <2> QED BY ZenonT(40), <1>5, <2>1
<1>7. \A s \in SUBSET T : g[s] = Summand(g, f, s)
  <2>1. \A s \in SUBSET T : g[s] = IF s = {} THEN 0 ELSE rows[Pick(s)].charge + g[s \ {Pick(s)}]
    BY <1>6
  <2> QED BY <1>2, <2>1 DEF Summand
<1>8. g[T] = h[T]
  BY <1>7, SumUnique
<1> QED BY <1>1, <1>5, <1>8

\* The fold over finitely many rows is a sum, also of fewer rows.
LEMMA ChargesExist ==
  ASSUME NEW T, IsFiniteSet(T), NEW rows, \A q \in T : rows[q].charge \in Int
  PROVE  \E f, h : /\ \A q \in T : f[q] = rows[q].charge
                   /\ Ints(f, T) /\ IsSumOf(h, f, T)
                   /\ ChargesOf(rows, T) = h[T]
<1>1. PICK f : f = [q \in T |-> rows[q].charge]
  OBVIOUS
<1>2. \A q \in T : f[q] = rows[q].charge
  BY <1>1
<1>3. Ints(f, T)
  BY <1>2 DEF Ints
<1>4. PICK h : IsSumOf(h, f, T)
  BY <1>3, SumExists
<1> QED BY <1>2, <1>3, <1>4, ChargesAreSum

\* No row, no charge.
LEMMA NothingCharged == ASSUME NEW rows PROVE ChargesOf(rows, {}) = 0
<1>1. IsFiniteSet({}) /\ \A q \in {} : rows[q].charge \in Int
  BY FS_EmptySet
<1>2. PICK f, h : IsSumOf(h, f, {}) /\ ChargesOf(rows, {}) = h[{}]
  BY <1>1, ChargesExist
<1> QED BY <1>2 DEF Summand, IsSumOf

\* One row's charge is added to that of the others.
LEMMA OneCharge ==
  ASSUME NEW T, IsFiniteSet(T), NEW rows, \A q \in T : rows[q].charge \in Int, NEW q \in T
  PROVE  /\ ChargesOf(rows, T) = rows[q].charge + ChargesOf(rows, T \ {q})
         /\ ChargesOf(rows, T \ {q}) \in Int
<1>1. PICK f, h : /\ \A x \in T : f[x] = rows[x].charge
                  /\ Ints(f, T) /\ IsSumOf(h, f, T)
                  /\ ChargesOf(rows, T) = h[T]
  BY ChargesExist
<1>2. PICK U : U = T \ {q}
  OBVIOUS
<1>3. U \subseteq T /\ IsFiniteSet(U)
  BY <1>2, FS_RemoveElement
<1>4. ChargesOf(rows, U) = h[U]
  <2>1. \A x \in U : f[x] = rows[x].charge
    BY <1>1, <1>3
  <2>2. IsSumOf(h, f, U)
    BY <1>1, <1>3 DEF IsSumOf
  <2> QED BY ZenonT(40), <1>3, <2>1, <2>2, ChargesAreSum
<1>5. h[T] = f[q] + h[T \ {q}]
  BY <1>1, SumAnyOrder
<1>6. h[U] \in Int
  BY <1>1, <1>3 DEF IsSumOf
<1> QED BY <1>1, <1>2, <1>4, <1>5, <1>6

\* Only the charges count.
LEMMA SameCharges ==
  ASSUME NEW T, IsFiniteSet(T), NEW rows, NEW news,
         \A q \in T : rows[q].charge \in Int /\ news[q].charge = rows[q].charge
  PROVE  ChargesOf(news, T) = ChargesOf(rows, T)
<1>1. PICK f, h : /\ \A x \in T : f[x] = rows[x].charge
                  /\ Ints(f, T) /\ IsSumOf(h, f, T)
                  /\ ChargesOf(rows, T) = h[T]
  BY ChargesExist
<1>2. \A x \in T : f[x] = news[x].charge
  BY <1>1
<1>3. ChargesOf(news, T) = h[T]
  BY <1>1, <1>2, ChargesAreSum
<1> QED BY <1>1, <1>3

\* Every step keeps what a root holds and what its requests are charged equal.
LEMMA ChargesStep ==
  ASSUME LedgerTypeOK, OutputCovered, ReservationsMatchCharges, [Next]_ledgerVars
  PROVE  ReservationsMatchCharges'
<1>0. /\ \A q \in Requests : request[q].charge \in Int /\ request'[q].charge \in Int
      /\ \A r \in Roots : IsFiniteSet(RequestsOf(r)) /\ reserved[r] \in Int
  <2>1. LedgerTypeOK'
    BY LedgerTypeStep
  <2>2. QED
    BY <2>1, RequestsFinite DEF LedgerTypeOK
<1>1. ASSUME NEW s \in Sessions, NEW q \in Requests, NEW output \in Outputs,
             NEW finish \in BOOLEAN, Reserve(s, q, output, finish)
      PROVE  ReservationsMatchCharges'
  <2>1. PICK root \in Roots, granted \in Nat :
           /\ request[q].root = None
           /\ request' = [request EXCEPT ![q] = [root |-> root, finish |-> finish,
                                                 held |-> granted, charge |-> granted,
                                                 done |-> FALSE]]
           /\ reserved' = [reserved EXCEPT ![root] = @ + granted]
    BY <1>1, ReserveFacts
  <2>2. /\ \A r \in Roots : q \notin RequestsOf(r)
        /\ \A r \in Roots \ {root} : RequestsOf(r)' = RequestsOf(r)
        /\ RequestsOf(root)' = RequestsOf(root) \cup {q}
    BY <2>1, ReserveAddsRequest
  <2>3. /\ request'[q].charge = granted
        /\ \A x \in Requests \ {q} : request'[x] = request[x]
    BY <2>1 DEF LedgerTypeOK
  <2>4. ASSUME NEW r \in Roots
        PROVE  ChargesOf(request', RequestsOf(r)) = reserved[r]
    <3>1. \A x \in RequestsOf(r) : request[x].charge \in Int
                                   /\ request'[x].charge = request[x].charge
      BY <1>0, <2>2, <2>3 DEF RequestsOf
    <3>2. ChargesOf(request', RequestsOf(r)) = ChargesOf(request, RequestsOf(r))
      BY <1>0, <3>1, SameCharges
    <3>3. QED
      BY <3>2 DEF ReservationsMatchCharges
  <2>5. ASSUME NEW r \in Roots \ {root}
        PROVE  reserved'[r] = ChargesOf(request', RequestsOf(r)')
    BY <2>1, <2>2, <2>4 DEF LedgerTypeOK
  <2>6. reserved'[root] = ChargesOf(request', RequestsOf(root)')
    <3>1. PICK T : T = RequestsOf(root) \cup {q}
      OBVIOUS
    <3>2. IsFiniteSet(T) /\ q \in T /\ T \ {q} = RequestsOf(root)
      BY <1>0, <2>2, <3>1, FS_AddElement
    <3>3. \A x \in T : request'[x].charge \in Int
      BY <1>0, <3>1 DEF RequestsOf
    <3>4. ChargesOf(request', T) = request'[q].charge + ChargesOf(request', T \ {q})
      BY <3>2, <3>3, OneCharge
    <3>5. ChargesOf(request', T) = granted + reserved[root]
      BY <2>3, <2>4, <3>2, <3>4
    <3>6. reserved'[root] = reserved[root] + granted
      BY <2>1 DEF LedgerTypeOK
    <3>7. QED
      BY <1>0, <2>2, <3>1, <3>5, <3>6
  <2>7. QED
    BY <2>5, <2>6 DEF ReservationsMatchCharges
<1>2. ASSUME NEW q \in Requests, Finish(q)
      PROVE  ReservationsMatchCharges'
  <2>1. PICK root \in Roots : root = request[q].root
    BY <1>2 DEF Finish, LedgerTypeOK
  <2>2. PICK charge \in Nat :
          /\ request' = [request EXCEPT ![q] = [root |-> @.root, finish |-> @.finish,
                                                held |-> @.held, charge |-> charge,
                                                done |-> TRUE]]
          /\ reserved' = [reserved EXCEPT ![root] = @ + charge - request[q].held]
    BY <1>2, <2>1, LedgerAssumption DEF Finish, LedgerTypeOK
  <2>3. \A r \in Roots : RequestsOf(r)' = RequestsOf(r)
    BY <1>2, FinishKeepsRoots, SameRequests
  <2>4. /\ request'[q].charge = charge
        /\ \A x \in Requests \ {q} : request'[x] = request[x]
    BY <2>2 DEF LedgerTypeOK
  <2>5. request[q].charge = request[q].held
    BY <1>2 DEF Finish, OutputCovered
  <2>6. ASSUME NEW T \in SUBSET Requests, IsFiniteSet(T), q \notin T
        PROVE  ChargesOf(request', T) = ChargesOf(request, T)
    <3>1. \A x \in T : request[x].charge \in Int /\ request'[x].charge = request[x].charge
      BY <1>0, <2>4, <2>6
    <3>2. QED
      BY <2>6, <3>1, SameCharges
  <2>7. \A r \in Roots : RequestsOf(r) \in SUBSET Requests
    BY DEF RequestsOf
  <2>8. ASSUME NEW r \in Roots \ {root}
        PROVE  reserved'[r] = ChargesOf(request', RequestsOf(r)')
    <3>1. q \notin RequestsOf(r)
      BY <2>1 DEF RequestsOf
    <3>2. ChargesOf(request', RequestsOf(r)) = ChargesOf(request, RequestsOf(r))
      BY <1>0, <2>6, <2>7, <3>1
    <3>3. reserved'[r] = reserved[r]
      BY <2>2 DEF LedgerTypeOK
    <3>4. QED
      BY <2>3, <3>2, <3>3 DEF ReservationsMatchCharges
  <2>9. reserved'[root] = ChargesOf(request', RequestsOf(root)')
    <3>1. PICK T : T = RequestsOf(root)
      OBVIOUS
    <3>2. T \in SUBSET Requests /\ IsFiniteSet(T) /\ q \in T
      BY <1>0, <2>1, <2>7, <3>1 DEF RequestsOf
    <3>3. PICK U : U = T \ {q}
      OBVIOUS
    <3>4. U \in SUBSET Requests /\ IsFiniteSet(U) /\ q \notin U
      BY <3>2, <3>3, FS_RemoveElement
    <3>5. /\ ChargesOf(request, T) = request[q].charge + ChargesOf(request, U)
          /\ ChargesOf(request, U) \in Int
      BY <1>0, <3>2, <3>3, OneCharge
    <3>6. ChargesOf(request', T) = request'[q].charge + ChargesOf(request', U)
      BY <1>0, <3>2, <3>3, OneCharge
    <3>7. ChargesOf(request', U) = ChargesOf(request, U)
      BY <2>6, <3>4
    <3>8. reserved[root] = ChargesOf(request, T)
      BY <3>1 DEF ReservationsMatchCharges
    <3>9. reserved'[root] = reserved[root] + charge - request[q].held
      BY <2>2 DEF LedgerTypeOK
    <3>10. PICK k \in Int : k = ChargesOf(request, U)
      BY <3>5
    <3>11. request[q].held \in Int
      BY DEF LedgerTypeOK
    <3>12. ChargesOf(request', T) = charge + k /\ reserved[root] = request[q].held + k
      BY <2>4, <2>5, <3>5, <3>6, <3>7, <3>8, <3>10
    <3>13. reserved'[root] = charge + k
      BY <3>9, <3>11, <3>12
    <3>14. QED
      BY <2>3, <3>1, <3>12, <3>13
  <2>10. QED
    BY <2>8, <2>9 DEF ReservationsMatchCharges
<1>3. ASSUME reserved' = reserved, request' = request
      PROVE  ReservationsMatchCharges'
  BY <1>3 DEF ReservationsMatchCharges, RequestsOf
<1>4. QED
  BY <1>1, <1>2, <1>3, LedgerStepKinds DEF ExtensionApply, counterVars

-----------------------------------------------------------------------------
(* Grants *)

\* One more grant is one more increment.
LEMMA OneMoreIncrement ==
  ASSUME NEW a \in Nat, NEW b \in Nat, NEW c \in Nat
  PROVE  a + (b + 1) * c = (a + b * c) + c
OBVIOUS

\* Every step keeps limits and grants in agreement.
LEMMA LimitsStep ==
  ASSUME LedgerTypeOK, LimitsMatchGrants, [Next]_ledgerVars
  PROVE  LimitsMatchGrants'
<1>1. ASSUME NEW s \in Sessions, NEW q \in Ids, ExtensionApply(s, q)
      PROVE  LimitsMatchGrants'
  <2>1. PICK root \in Roots : /\ root = binding[s].root
                              /\ Grants(root)' = Grants(root) + 1
                              /\ \A r \in Roots \ {root} : Grants(r)' = Grants(r)
    BY <1>1, ApplyConsumesOne
  <2>2. limit' = [limit EXCEPT ![root] = [calls |-> @.calls + Increment.calls,
                                          tools |-> @.tools + Increment.tools,
                                          output |-> @.output + Increment.output]]
    BY <1>1, <2>1 DEF ExtensionApply, RaiseLimits
  <2>3. Grants(root) \in Nat
    BY ConsumedFinite
  <2>4. \A r \in Roots \ {root} : limit'[r] = limit[r]
    BY <2>2 DEF LedgerTypeOK
  <2>5. limit'[root] = [calls |-> limit[root].calls + Increment.calls,
                        tools |-> limit[root].tools + Increment.tools,
                        output |-> limit[root].output + Increment.output]
    BY <2>2 DEF LedgerTypeOK
  <2>6. limit[root] = [calls |-> Limits.calls + Grants(root) * Increment.calls,
                       tools |-> Limits.tools + Grants(root) * Increment.tools,
                       output |-> Limits.output + Grants(root) * Increment.output]
    BY DEF LimitsMatchGrants
  <2>7. /\ Limits.calls \in Nat /\ Limits.tools \in Nat /\ Limits.output \in Nat
        /\ Increment.calls \in Nat /\ Increment.tools \in Nat /\ Increment.output \in Nat
    BY LedgerAssumption DEF Budgets
  <2>8. PICK g \in Nat : g = Grants(root)
    BY <2>3
  <2>9. limit'[root] = [calls |-> Limits.calls + (g + 1) * Increment.calls,
                        tools |-> Limits.tools + (g + 1) * Increment.tools,
                        output |-> Limits.output + (g + 1) * Increment.output]
    <3>1. ASSUME NEW a \in Nat, NEW c \in Nat
          PROVE  a + (g + 1) * c = (a + g * c) + c
      BY OneMoreIncrement
    <3>2. Limits.calls + (g + 1) * Increment.calls
             = (Limits.calls + g * Increment.calls) + Increment.calls
      BY <2>7, <3>1, Zenon
    <3>3. Limits.tools + (g + 1) * Increment.tools
             = (Limits.tools + g * Increment.tools) + Increment.tools
      BY <2>7, <3>1, Zenon
    <3>4. Limits.output + (g + 1) * Increment.output
             = (Limits.output + g * Increment.output) + Increment.output
      BY <2>7, <3>1, Zenon
    <3>5. QED
      BY <2>5, <2>6, <2>8, <3>2, <3>3, <3>4
  <2>10. QED
    BY <2>1, <2>4, <2>8, <2>9 DEF LimitsMatchGrants
<1>2. ASSUME limit' = limit, \A r \in Roots : ConsumedOf(r)' = ConsumedOf(r)
      PROVE  LimitsMatchGrants'
  BY <1>2 DEF LimitsMatchGrants, Grants, ConsumedOf
<1>3. QED
  BY <1>1, <1>2, LedgerStepKinds DEF Reserve, Finish, counterVars

-----------------------------------------------------------------------------
(* Theorems about the ledger *)

LedgerIInv == LedgerTypeOK /\ CallsCovered /\ OutputCovered /\ ReservationsMatchCharges
              /\ LimitsMatchGrants

\* The inductive invariant holds initially: nothing is requested or granted.
LEMMA LedgerInitIInv == Init => LedgerIInv
<1> SUFFICES ASSUME Init PROVE LedgerIInv
  OBVIOUS
<1>1. LedgerTypeOK
  BY LedgerInitTypes
<1>2. \A r \in Roots : RequestsOf(r) = {}
  BY ApprovalAssumption DEF Init, RequestsOf
<1>3. \A r \in Roots : Grants(r) = 0
  <2>1. \A r \in Roots : {n \in Revisions : row[<<r, n>>] = "consumed"} = {}
    BY DEF Init, ApprovalInit, Proposals
  <2>2. QED
    BY <2>1, FS_EmptySet DEF Grants
<1>4. CallsCovered
  <2>1. \A r \in Roots : NormalOf(r) = {} /\ CompletionsOf(r) = {}
    BY <1>2 DEF NormalOf, CompletionsOf
  <2>2. \A r \in Roots : calls[r] = 0 /\ ~finishUsed[r] /\ limit[r].calls \in Nat
    BY <1>1 DEF Init, LedgerTypeOK, Budgets
  <2>3. /\ \A r \in Roots : Completing(r) = 0
        /\ Cardinality({}) = 0
    BY <2>2, FS_EmptySet DEF Completing
  <2>4. \A r \in Roots : /\ Cardinality(RequestsOf(r)) = 0
                         /\ Cardinality(NormalOf(r)) = 0
                         /\ Cardinality(CompletionsOf(r)) = 0
    BY <1>2, <2>1, <2>3
  <2>5. QED
    BY <1>3, <2>2, <2>3, <2>4 DEF CallsCovered
<1>5. OutputCovered
  <2>1. \A r \in Roots : OutputLeft(r) = Limits.output
    BY LedgerAssumption DEF Init, OutputLeft, Budgets
  <2>2. Limits.output >= 0 /\ Limits.output >= Refill
    BY RefillFacts, LedgerAssumption DEF Budgets
  <2>3. QED
    BY <2>1, <2>2 DEF Init, OutputCovered
<1>6. LimitsMatchGrants
  <2>1. /\ Limits.calls + 0 * Increment.calls = Limits.calls
        /\ Limits.tools + 0 * Increment.tools = Limits.tools
        /\ Limits.output + 0 * Increment.output = Limits.output
    BY LedgerAssumption DEF Budgets
  <2>2. Limits = [calls |-> Limits.calls, tools |-> Limits.tools, output |-> Limits.output]
    BY LedgerAssumption DEF Budgets
  <2>3. QED
    BY <1>3, <2>1, <2>2 DEF Init, LimitsMatchGrants
<1>7. ReservationsMatchCharges
  <2>1. \A r \in Roots : reserved[r] = 0
    BY DEF Init
  <2>2. QED
    BY <1>2, <2>1, NothingCharged DEF ReservationsMatchCharges
<1>8. QED
  BY <1>1, <1>4, <1>5, <1>6, <1>7 DEF LedgerIInv

\* The inductive invariant is inductive, and holds of every behaviour.
LEMMA LedgerInvariant == Spec => []LedgerIInv
<1>1. LedgerIInv /\ [Next]_ledgerVars => LedgerIInv'
  BY LedgerTypeStep, CallsStep, OutputStep, ChargesStep, LimitsStep DEF LedgerIInv
<1>2. QED
  BY <1>1, LedgerInitIInv, PTL DEF Spec

\* A root has counted each of its requests exactly once.
THEOREM CallsCounted == Spec => []CallsMatchRequests
<1>1. LedgerIInv => CallsMatchRequests
  BY DEF LedgerIInv, CallsCovered, CallsMatchRequests
<1>2. QED
  BY <1>1, LedgerInvariant, PTL

\* No interleaving of sessions, replays and grants serves more calls than the
\* limit and the completion requests allow.
THEOREM CallsBounded == Spec => []CallBudget
<1>1. LedgerIInv => CallBudget
  <2> SUFFICES ASSUME LedgerIInv, NEW r \in Roots
               PROVE  /\ Cardinality(NormalOf(r)) <= limit[r].calls
                      /\ Cardinality(CompletionsOf(r)) <= Grants(r) + 1
    BY DEF CallBudget, NormalOf, CompletionsOf
  <2>1. /\ Cardinality(NormalOf(r)) <= limit[r].calls
        /\ Cardinality(CompletionsOf(r)) <= Grants(r) + Completing(r)
    BY DEF LedgerIInv, CallsCovered
  <2>2. Completing(r) \in {0, 1}
    BY DEF Completing
  <2>3. QED
    BY <2>1, <2>2, ConsumedFinite, RequestsFinite
<1>2. QED
  BY <1>1, LedgerInvariant, PTL

\* Nobody spends the output kept back for an unused completion request.
THEOREM CompletionAlwaysFits == Spec => []CompletionReserveKept
<1>1. LedgerIInv => CompletionReserveKept
  BY DEF LedgerIInv, OutputCovered, CompletionReserveKept, NoOverrun, OutputLeft, Refill
<1>2. QED
  BY <1>1, LedgerInvariant, PTL

\* A root holds exactly what its requests reserve or were charged, in whatever
\* order, and however often, their outcomes are reported.
THEOREM ReservationsAddUp == Spec => []ReservationsMatchCharges
<1>1. LedgerIInv => ReservationsMatchCharges
  BY DEF LedgerIInv
<1>2. QED
  BY <1>1, LedgerInvariant, PTL

\* Limits grow by exactly one increment for each approval used up.
THEOREM GrantsApplyOnce == Spec => []LimitsMatchGrants
<1>1. LedgerIInv => LimitsMatchGrants
  BY DEF LedgerIInv
<1>2. QED
  BY <1>1, LedgerInvariant, PTL

StaysSpent ==
  \A s \in Sessions :
    /\ ParentOf[s] # None /\ Bound(s)
    /\ finishUsed[binding[s].root]
    /\ binding'[s].turn = binding[s].turn
    => \/ finishUsed'[binding'[s].root]
       \/ limit' # limit

\* A child that continues its turn cannot rebind its way to an unspent root.
THEOREM ContinuingTurnsStaySpent == Spec => ContinuingTurnStaysSpent
<1>1. LedgerTypeOK /\ [Next]_ledgerVars => [StaysSpent]_ledgerVars
  <2> SUFFICES ASSUME LedgerTypeOK, [Next]_ledgerVars, NEW s \in Sessions,
                      ParentOf[s] # None, Bound(s), finishUsed[binding[s].root],
                      binding'[s].turn = binding[s].turn
               PROVE  finishUsed'[binding'[s].root] \/ limit' # limit
    BY DEF StaysSpent
  <2>1. binding[s].root \in Roots
    BY DEF Bound, LedgerTypeOK
  <2>2. ASSUME NEW x \in Sessions, NEW turn \in Turns \cup {NoTurn},
               NEW task \in TaskRoots \cup {None}, Bind(x, turn, task)
        PROVE  finishUsed'[binding'[s].root]
    <3>1. finishUsed' = finishUsed
      BY <2>2 DEF Bind
    <3>2. CASE x # s
      BY <2>2, <3>1, <3>2 DEF Bind, LedgerTypeOK
    <3>3. CASE x = s
      <4>1. binding'[s].turn = IF turn = NoTurn THEN binding[s].turn ELSE turn
        BY <2>2, <3>3 DEF Bind, LedgerTypeOK
      <4>2. SameTurn(s, turn)
        BY <4>1 DEF SameTurn
      <4>3. binding'[s].root = binding[s].root
        BY <2>2, <3>3, <4>2 DEF Bind, RootFor, LedgerTypeOK
      <4>4. QED
        BY <3>1, <4>3
    <3>4. QED
      BY <3>2, <3>3
  <2>3. ASSUME NEW x \in Sessions, NEW q \in Ids, ExtensionApply(x, q)
        PROVE  limit' # limit
    <3>1. PICK root \in Roots : root = binding[x].root
      BY <2>3, ApplyConsumesOne
    <3>2. limit'[root].calls = limit[root].calls + Increment.calls
      BY <2>3, <3>1 DEF ExtensionApply, RaiseLimits, LedgerTypeOK
    <3>3. limit[root].calls \in Nat /\ Increment.calls \in Nat \ {0}
      BY LedgerAssumption DEF LedgerTypeOK, Budgets
    <3>4. QED
      BY <3>2, <3>3
  <2>4. ASSUME NEW x \in Sessions, NEW q \in Requests, NEW output \in Outputs,
               NEW finish \in BOOLEAN, Reserve(x, q, output, finish)
        PROVE  finishUsed'[binding'[s].root]
    BY <2>1, <2>4 DEF Reserve, LedgerTypeOK
  <2>5. ASSUME binding' = binding, finishUsed' = finishUsed
        PROVE  finishUsed'[binding'[s].root]
    BY <2>5
  <2>6. QED
    BY <2>2, <2>3, <2>4, <2>5
       DEF Next, Tool, Finish, ExtensionRequest, DeadlinePasses, ApprovalStep, rootVars, ledgerVars
<1>2. Spec => [][StaysSpent]_ledgerVars
  BY <1>1, LedgerTypes, PTL DEF Spec
<1>3. QED
  BY <1>2 DEF ContinuingTurnStaysSpent, StaysSpent

-----------------------------------------------------------------------------
(* The account of every root *)

\* The account's copies of the library's operators are the library's.
LEMMA AccountOperators ==
  /\ \A S : Account!Cardinality(S) = Cardinality(S)
  /\ \A S : Account!Min(S) = Min(S)
  /\ \A rows, T : Account!Charged(rows, T) = ChargesOf(rows, T)
<1>1. \A S : Account!Cardinality(S) = Cardinality(S)
  BY DEF Account!Cardinality, Cardinality
<1>2. \A S : Account!Min(S) = Min(S)
  BY DEF Account!Min, Min
<1>3. \A rows, T : Account!Charged(rows, T) = ChargesOf(rows, T)
  BY DEF Account!Charged, Account!MapThenSumSet, Account!MapThenFoldSet,
         ChargesOf, MapThenSumSet, MapThenFoldSet
<1>4. QED
  BY <1>1, <1>2, <1>3

\* What the account has left is what the ledger has left.
LEMMA AccountFacts ==
  ASSUME LedgerIInv, NEW r \in Roots
  PROVE  /\ Account!Of(r) = RequestsOf(r)
         /\ Account!Left(r) = OutputLeft(r)
         /\ limit[r].calls = Limits.calls + Grants(r) * Increment.calls
         /\ limit[r].tools = Limits.tools + Grants(r) * Increment.tools
<1>1. Account!Of(r) = RequestsOf(r)
  BY DEF Account!Of, RequestsOf
<1>2. Account!Charged(request, RequestsOf(r)) = ChargesOf(request, RequestsOf(r))
  BY AccountOperators
<1>3. limit[r] = [calls |-> Limits.calls + Grants(r) * Increment.calls,
                  tools |-> Limits.tools + Grants(r) * Increment.tools,
                  output |-> Limits.output + Grants(r) * Increment.output]
  BY DEF LedgerIInv, LimitsMatchGrants
<1>4. reserved[r] = ChargesOf(request, RequestsOf(r))
  BY DEF LedgerIInv, ReservationsMatchCharges
<1>5. Account!Left(r) = (Limits.output + Grants(r) * Increment.output) - reserved[r]
  BY <1>1, <1>2, <1>4 DEF Account!Left
<1>6. /\ limit[r].calls = Limits.calls + Grants(r) * Increment.calls
      /\ limit[r].tools = Limits.tools + Grants(r) * Increment.tools
      /\ limit[r].output = Limits.output + Grants(r) * Increment.output
  BY <1>3
<1>7. Account!Left(r) = OutputLeft(r)
  BY <1>5, <1>6 DEF OutputLeft
<1>8. QED
  BY <1>1, <1>6, <1>7

\* A granted extension is a grant of the account.
LEMMA ApplyGrants ==
  ASSUME LedgerIInv, NEW s \in Sessions, NEW q \in Ids, ExtensionApply(s, q)
  PROVE  Account!Next
<1>1. PICK root \in Roots : /\ root = binding[s].root
                            /\ Grants(root)' = Grants(root) + 1
                            /\ \A r \in Roots \ {root} : Grants(r)' = Grants(r)
  BY ApplyConsumesOne DEF LedgerIInv
<1>2. /\ finishUsed' = [finishUsed EXCEPT ![root] = FALSE]
      /\ request' = request /\ tools' = tools
      /\ finishUsed \in [Roots -> BOOLEAN]
  BY <1>1 DEF ExtensionApply, RaiseLimits, LedgerIInv, LedgerTypeOK
<1>3. [r \in Roots |-> Grants(r)]' = [[r \in Roots |-> Grants(r)] EXCEPT ![root] = @ + 1]
  BY <1>1
<1>4. [r \in Roots |-> ~finishUsed[r]]' = [[r \in Roots |-> ~finishUsed[r]] EXCEPT ![root] = TRUE]
  BY <1>2
<1>5. QED
  BY <1>2, <1>3, <1>4 DEF Account!Next, Account!Grant

\* A reservation serves a normal or a completion request of the account.
LEMMA ReserveServes ==
  ASSUME LedgerIInv, NEW s \in Sessions, NEW q \in Requests, NEW output \in Outputs,
         NEW finish \in BOOLEAN, Reserve(s, q, output, finish),
         \A r \in Roots : ConsumedOf(r)' = ConsumedOf(r)
  PROVE  Account!Next
<1>1. PICK root \in Roots, granted \in Nat :
         /\ request[q].root = None
         /\ request' = [request EXCEPT ![q] = [root |-> root, finish |-> finish,
                                               held |-> granted, charge |-> granted,
                                               done |-> FALSE]]
         /\ finishUsed' = [finishUsed EXCEPT ![root] = @ \/ finish]
         /\ finish => ~finishUsed[root]
         /\ ~finish => calls[root] < limit[root].calls
         /\ limit[root].output - (reserved[root] + granted)
              >= IF finish THEN 0 ELSE FinishTokens
         /\ granted >= 1 /\ (finish => granted <= FinishTokens)
  BY ReserveFacts DEF LedgerIInv
<1>2. /\ finishUsed \in [Roots -> BOOLEAN] /\ tools' = tools
      /\ limit[root].output \in Nat /\ reserved[root] \in Int /\ FinishTokens \in Nat
  BY LedgerAssumption DEF Reserve, LedgerIInv, LedgerTypeOK, Budgets
<1>3. [r \in Roots |-> Grants(r)]' = [r \in Roots |-> Grants(r)]
  BY DEF Grants, ConsumedOf
<1>4. Account!Left(root) = limit[root].output - reserved[root] /\ Account!Left(root) \in Int
  BY <1>2, AccountFacts DEF OutputLeft
<1>5. Account!Enter(root, q, finish, granted)
  BY <1>1, <1>2, <1>3 DEF Account!Enter
<1>6. CASE finish
  <2>1. granted \in 1 .. Min({FinishTokens, Account!Left(root)})
    <3>1. granted <= Account!Left(root)
      BY <1>1, <1>2, <1>4, <1>6
    <3>2. PICK k : k = Account!Left(root)
      OBVIOUS
    <3>3. k \in Int /\ granted <= k /\ granted <= FinishTokens /\ granted >= 1
      BY <1>1, <1>4, <1>6, <3>1, <3>2
    <3>4. Min({FinishTokens, k}) \in {FinishTokens, k}
      BY <1>2, <3>3, MinOfTwo
    <3>5. granted \in 1 .. Min({FinishTokens, k})
      BY <1>2, <3>3, <3>4
    <3>6. QED
      BY <3>2, <3>5
  <2>2. [r \in Roots |-> ~finishUsed[r]]' = [[r \in Roots |-> ~finishUsed[r]] EXCEPT ![root] = FALSE]
    BY <1>1, <1>2, <1>6
  <2>3. Account!Complete(root)
    BY <1>1, <1>5, <1>6, <2>1, <2>2, AccountOperators DEF Account!Complete
  <2>4. QED
    BY <2>3 DEF Account!Next
<1>7. CASE ~finish
  <2>1. granted \in 1 .. Account!Left(root) - FinishTokens
    BY <1>1, <1>2, <1>4, <1>7
  <2>2. finishUsed' = finishUsed
    BY <1>1, <1>2, <1>7
  <2>3. Cardinality(Account!Of(root)) < Limits.calls + [r \in Roots |-> Grants(r)][root] * Increment.calls
    BY <1>1, <1>7, AccountFacts DEF LedgerIInv, CallsCovered
  <2>4. Account!Serve(root)
    BY <1>5, <1>7, <2>1, <2>2, <2>3, AccountOperators DEF Account!Serve
  <2>5. QED
    BY <2>4 DEF Account!Next
<1>8. QED
  BY <1>6, <1>7

\* An outcome settles an entry of the account.
LEMMA FinishSettles ==
  ASSUME LedgerIInv, NEW q \in Requests, Finish(q),
         \A r \in Roots : ConsumedOf(r)' = ConsumedOf(r)
  PROVE  Account!Next
<1>1. PICK charge \in Outputs \cup {request[q].held} :
        request' = [request EXCEPT ![q] = [root |-> @.root, finish |-> @.finish,
                                           held |-> @.held, charge |-> charge,
                                           done |-> TRUE]]
  BY DEF Finish
<1>2. /\ request[q].root # None /\ ~request[q].done
      /\ tools' = tools /\ finishUsed' = finishUsed
  BY DEF Finish
<1>3. charge \in Outputs \cup {request[q].charge}
  BY <1>1, <1>2 DEF LedgerIInv, OutputCovered
<1>4. request' = [request EXCEPT ![q].charge = charge, ![q].done = TRUE]
  BY ZenonT(40), <1>1 DEF LedgerIInv, LedgerTypeOK
<1>5. [r \in Roots |-> Grants(r)]' = [r \in Roots |-> Grants(r)]
  BY DEF Grants, ConsumedOf
<1>6. [r \in Roots |-> ~finishUsed[r]]' = [r \in Roots |-> ~finishUsed[r]]
  BY <1>2
<1>7. Account!Settle(q)
  BY <1>2, <1>3, <1>4, <1>5, <1>6 DEF Account!Settle
<1>8. QED
  BY <1>7 DEF Account!Next

\* A tool is a use of the account.
LEMMA ToolUses ==
  ASSUME LedgerIInv, NEW s \in Sessions, Tool(s)
  PROVE  Account!Next
<1>1. PICK root \in Roots : root = binding[s].root
  BY DEF Tool, Bound, LedgerIInv, LedgerTypeOK
<1>2. /\ ~finishUsed[root] /\ tools[root] < limit[root].tools
      /\ tools' = [tools EXCEPT ![root] = @ + 1]
      /\ request' = request /\ finishUsed' = finishUsed /\ row' = row
  BY <1>1 DEF Tool, approvalVars
<1>3. [r \in Roots |-> Grants(r)]' = [r \in Roots |-> Grants(r)]
  BY <1>2 DEF Grants
<1>4. [r \in Roots |-> ~finishUsed[r]]' = [r \in Roots |-> ~finishUsed[r]]
  BY <1>2
<1>5. tools[root] < Limits.tools + [r \in Roots |-> Grants(r)][root] * Increment.tools
  BY <1>2, AccountFacts
<1>6. Account!UseTool(root)
  BY <1>2, <1>3, <1>4, <1>5 DEF Account!UseTool
<1>7. QED
  BY <1>6 DEF Account!Next

\* Every step of the ledger is a step of the account or leaves it alone.
LEMMA AccountStep ==
  ASSUME LedgerIInv, [Next]_ledgerVars
  PROVE  [Account!Next]_(Account!accountVars)
<1>1. tools' = tools \/ \E s \in Sessions : Tool(s)
  BY DEF Next, Bind, Reserve, Finish, ExtensionRequest, ExtensionApply, DeadlinePasses,
         ApprovalStep, rootVars, ledgerVars
<1>2. ASSUME UNCHANGED counterVars, tools' = tools,
             \A r \in Roots : ConsumedOf(r)' = ConsumedOf(r)
      PROVE  UNCHANGED Account!accountVars
  <2>1. [r \in Roots |-> Grants(r)]' = [r \in Roots |-> Grants(r)]
    BY <1>2 DEF Grants, ConsumedOf
  <2>2. QED
    BY <1>2, <2>1 DEF Account!accountVars, counterVars
<1>3. QED
  BY <1>1, <1>2, LedgerStepKinds, ApplyGrants, ReserveServes, FinishSettles, ToolUses
     DEF LedgerIInv

\* The ledger implements the account: whatever the interleaving of sessions,
\* their requests, repeated outcomes and extensions, each root spends what its
\* grants allow and no more.
THEOREM LedgerImplementsAccount == Spec => AccountKept
<1>1. Init => Account!Init
  <2> SUFFICES ASSUME Init PROVE Account!Init
    OBVIOUS
  <2>1. \A r \in Roots : Grants(r) = 0
    <3>1. \A r \in Roots : ConsumedOf(r) = {}
      BY DEF Init, ApprovalInit, Proposals, ConsumedOf
    <3>2. QED
      BY <3>1, ConsumedFinite, FS_EmptySet
  <2>2. \A r \in Roots : finishUsed[r] = FALSE
    BY DEF Init
  <2>3. [r \in Roots |-> ~finishUsed[r]] = [r \in Roots |-> TRUE]
    BY <2>2
  <2>4. QED
    BY <2>1, <2>3 DEF Init, Account!Init
<1>2. LedgerIInv /\ [Next]_ledgerVars => [Account!Next]_(Account!accountVars)
  BY AccountStep
<1>3. QED
  BY <1>1, <1>2, LedgerInvariant, PTL DEF Spec, AccountKept, Account!Spec
==============================================================================
