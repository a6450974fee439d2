---------------------------- MODULE PluginProofs ----------------------------
(***************************************************************************)
(* The plugins of the OpenCode server and the services beside them: the    *)
(* managed registry, the agent and the model of a session, the MCP         *)
(* exposure, the wizards of the web server, the D&D plugins and the        *)
(* Hardware Edition.  For each an inductive invariant, its proof, and the  *)
(* property of its component that it implies.                              *)
(***************************************************************************)
EXTENDS ManagedRegistry, AgentModel, McpExposure, WebServerControl, DndWait, DndServices,
        HardwareTurn, SequenceTheorems, FiniteSetTheorems, TLAPS

-----------------------------------------------------------------------------
(* The managed registry (ManagedRegistry).  While mutations do not overlap,  *)
(* the running one knows the registry it started from, which is the one the  *)
(* answered commands left, and what it saves is that and its own effect.     *)

Requests(n) == [op : {"add", "remove", "forget", "managed", "reload"}, entry : Entries,
                request : 0 .. n]
SeenViews(n) == [request : 0 .. n, view : SUBSET Entries]
RegistryWizards(n) == [stage : {"closed", "reading", "choosing", "saving"}, request : 0 .. n,
               view : SUBSET Entries]

RegistryTypes ==
  /\ saved \in SUBSET Entries /\ answered \in SUBSET Entries
  /\ copy \in [Folders -> SUBSET Entries] /\ previous \in [Folders -> SUBSET Entries]
  /\ stage \in [Folders -> {"idle", "saving", "reloading", "restoring"}]
  /\ excused \in BOOLEAN
RequestTypes ==
  /\ requestsMade \in Nat
  /\ mutations \in [Folders -> Seq(Requests(requestsMade))]
  /\ receipts \in [Folders -> SUBSET SeenViews(requestsMade)]
  /\ wizard \in [Folders -> RegistryWizards(requestsMade)] /\ outdated \in [Folders -> BOOLEAN]

RegistryQueues == \A f \in Folders : InFlight(f) => mutations[f] # <<>>
RegistryAlone == excused = FALSE => \A f, g \in Folders : InFlight(f) /\ InFlight(g) => f = g
RegistryIdle == excused = FALSE /\ (\A f \in Folders : ~InFlight(f)) => saved = answered
Working(f) == Effect(Running(f).op, Running(f).entry, answered)
WorkOf(f) ==
  /\ stage[f] = "saving" =>
       /\ saved = answered /\ previous[f] = answered /\ copy[f] = Working(f)
       /\ Running(f).op \in {"add", "remove", "forget"}
  /\ stage[f] = "reloading" =>
       /\ previous[f] = answered /\ saved = Working(f)
       /\ Running(f).op \in {"add", "remove"}
  /\ stage[f] = "restoring" => previous[f] = answered
RegistryWork == excused = FALSE => \A f \in Folders : WorkOf(f)
ViewOf(f) ==
  /\ wizard[f].stage = "reading" /\ outdated[f] = FALSE =>
       \A r \in receipts[f] : r.request = wizard[f].request => r.view = saved
  /\ wizard[f].stage = "choosing" /\ outdated[f] = FALSE => wizard[f].view = saved
RegistryViews == \A f \in Folders : ViewOf(f)

RegistryIInv ==
  /\ RegistryTypes /\ RequestTypes /\ RegistryQueues
  /\ RegistryAlone /\ RegistryIdle /\ RegistryWork /\ RegistryViews

\* A wizard that is closed.
LEMMA NoWizardOK ==
  ASSUME NEW n \in Nat
  PROVE  NoWizard \in RegistryWizards(n) /\ NoWizard.stage = "closed"
BY DEF NoWizard, RegistryWizards

\* The running mutation is one of its instance's.
LEMMA RunningOK ==
  ASSUME RegistryIInv, NEW f \in Folders, mutations[f] # <<>>
  PROVE  Running(f) \in Requests(requestsMade) /\ Running(f).entry \in Entries
         /\ Running(f).request \in 0 .. requestsMade
<1>1. mutations[f] \in Seq(Requests(requestsMade))
  BY DEF RegistryIInv, RequestTypes
<1>2. Running(f) \in Requests(requestsMade)
  BY <1>1, HeadTailProperties DEF Running
<1> QED BY <1>2 DEF Requests

\* The running mutation ends.
LEMMA MutationEnded ==
  ASSUME RegistryIInv, NEW f \in Folders, mutations[f] # <<>>, MutationEnds(f),
         requestsMade' = requestsMade
  PROVE  /\ mutations' \in [Folders -> Seq(Requests(requestsMade'))]
         /\ stage' \in [Folders -> {"idle", "saving", "reloading", "restoring"}]
         /\ previous' \in [Folders -> SUBSET Entries]
         /\ stage'[f] = "idle"
         /\ \A g \in Folders \ {f} : /\ mutations'[g] = mutations[g] /\ stage'[g] = stage[g]
                                     /\ previous'[g] = previous[g]
<1>1. /\ mutations \in [Folders -> Seq(Requests(requestsMade))]
      /\ stage \in [Folders -> {"idle", "saving", "reloading", "restoring"}]
      /\ previous \in [Folders -> SUBSET Entries]
  BY DEF RegistryIInv, RegistryTypes, RequestTypes
<1>2. /\ mutations' = [mutations EXCEPT ![f] = Tail(mutations[f])]
      /\ stage' = [stage EXCEPT ![f] = "idle"]
      /\ previous' = [previous EXCEPT ![f] = {}]
  BY DEF MutationEnds, Stage
<1>3. Tail(mutations[f]) \in Seq(Requests(requestsMade))
  BY <1>1, HeadTailProperties
<1> QED BY <1>1, <1>2, <1>3

\* A command answers: the wizard that asked is closed, or nothing changes.
LEMMA CommandReturned ==
  ASSUME RegistryIInv, NEW f \in Folders, CommandReturns(f)
  PROVE  /\ wizard' \in [Folders -> RegistryWizards(requestsMade)]
         /\ \A g \in Folders : wizard'[g] = wizard[g] \/ wizard'[g].stage = "closed"
<1>1. wizard \in [Folders -> RegistryWizards(requestsMade)] /\ requestsMade \in Nat
  BY DEF RegistryIInv, RequestTypes
<1>2. wizard' = wizard \/ wizard' = [wizard EXCEPT ![f] = NoWizard]
  BY DEF CommandReturns
<1> QED BY <1>1, <1>2, NoWizardOK

\* The views stay what they were while the registry is not saved and no receipt
\* is added.
LEMMA ViewsStay ==
  ASSUME RegistryViews, UNCHANGED <<saved, receipts, outdated>>,
         \A g \in Folders : wizard'[g] = wizard[g] \/ wizard'[g].stage \in {"closed", "saving"}
  PROVE  RegistryViews'
BY DEF RegistryViews, ViewOf

\* A registry that was saved has outdated every view.
LEMMA ViewsOutdated ==
  ASSUME outdated' = [g \in Folders |-> TRUE]
  PROVE  RegistryViews' /\ outdated' \in [Folders -> BOOLEAN]
BY DEF RegistryViews, ViewOf

\* The registry and what works on it stay; the queues may grow.
LEMMA WorkStays ==
  ASSUME RegistryIInv, UNCHANGED <<saved, stage, previous, answered, excused>>,
         \A g \in Folders : InFlight(g) =>
           mutations'[g] # <<>> /\ Head(mutations'[g]) = Head(mutations[g])
           /\ copy'[g] = copy[g]
  PROVE  RegistryQueues' /\ RegistryAlone' /\ RegistryIdle' /\ RegistryWork'
<1>1. \A g \in Folders : InFlight(g)' <=> InFlight(g)
  BY DEF InFlight
<1>2. RegistryQueues' /\ RegistryAlone' /\ RegistryIdle'
  BY <1>1 DEF RegistryIInv, RegistryQueues, RegistryAlone, RegistryIdle
<1>3. ASSUME NEW g \in Folders, excused' = FALSE, WorkOf(g)
      PROVE  WorkOf(g)'
  BY <1>1, <1>3 DEF WorkOf, Working, InFlight, Running, Effect
<1> QED BY <1>2, <1>3 DEF RegistryIInv, RegistryWork

\* A mutation waits behind the ones of its instance.
LEMMA EnqueuedOK ==
  ASSUME RegistryIInv, NEW f \in Folders,
         NEW op \in {"add", "remove", "forget", "managed", "reload"}, NEW e \in Entries,
         requestsMade' \in Nat, requestsMade' >= requestsMade,
         NEW q \in 0 .. requestsMade', EnqueueMutation(f, op, e, q)
  PROVE  /\ mutations' \in [Folders -> Seq(Requests(requestsMade'))]
         /\ \A g \in Folders : InFlight(g) =>
              mutations'[g] # <<>> /\ Head(mutations'[g]) = Head(mutations[g])
<1> DEFINE m == [op |-> op, entry |-> e, request |-> q]
<1>1. m \in Requests(requestsMade')
  BY DEF Requests
<1>2. mutations' = [mutations EXCEPT ![f] = Append(mutations[f], m)]
  BY DEF EnqueueMutation
<1> HIDE DEF m
<1>3. Requests(requestsMade) \subseteq Requests(requestsMade')
  BY DEF Requests, RegistryIInv, RequestTypes
<1>4. ASSUME NEW g \in Folders
      PROVE  mutations[g] \in Seq(Requests(requestsMade'))
  BY <1>3, <1>4, SeqMonotonic DEF RegistryIInv, RequestTypes
<1>5. DOMAIN mutations = Folders
  BY DEF RegistryIInv, RequestTypes
<1>6. /\ Append(mutations[f], m) \in Seq(Requests(requestsMade'))
      /\ mutations[f] # <<>> => /\ Append(mutations[f], m) # <<>>
                                /\ Head(Append(mutations[f], m)) = Head(mutations[f])
  BY <1>1, <1>4, AppendProperties, HeadTailAppend
<1>7. mutations' \in [Folders -> Seq(Requests(requestsMade'))]
  BY <1>2, <1>4, <1>5, <1>6
<1>8. ASSUME NEW g \in Folders, InFlight(g)
      PROVE  mutations'[g] # <<>> /\ Head(mutations'[g]) = Head(mutations[g])
  BY <1>2, <1>5, <1>6, <1>8 DEF RegistryIInv, RegistryQueues
<1> QED BY <1>7, <1>8

\* Only what is queued, read and shown changes.
LEMMA QueuesOK ==
  ASSUME RegistryIInv, UNCHANGED <<saved, copy, stage, previous, answered, excused>>,
         requestsMade' \in Nat, RequestTypes', RegistryViews',
         \A g \in Folders : InFlight(g) =>
           mutations'[g] # <<>> /\ Head(mutations'[g]) = Head(mutations[g])
  PROVE  RegistryIInv'
<1>1. RegistryQueues' /\ RegistryAlone' /\ RegistryIdle' /\ RegistryWork'
  BY WorkStays
<1> QED BY <1>1 DEF RegistryIInv, RegistryTypes

\* The instance queues a mutation of its own.
LEMMA OwnMutationOK ==
  ASSUME RegistryAssumption, RegistryIInv, NEW f \in Folders, SyncToggles(f) \/ SessionForgotten(f)
  PROVE  RegistryIInv'
<1>1. UNCHANGED <<saved, copy, stage, previous, receipts, wizard, requestsMade, answered,
                  excused, outdated>>
  BY DEF SyncToggles, SessionForgotten
<1>2. PICK op \in {"add", "remove", "forget", "managed", "reload"}, e \in Entries :
        EnqueueMutation(f, op, e, 0)
  <2>1. (CHOOSE e \in Entries : TRUE) \in Entries
    BY DEF RegistryAssumption
  <2> QED BY <2>1 DEF SyncToggles, SessionForgotten
<1>3. requestsMade' \in Nat /\ requestsMade' >= requestsMade /\ 0 \in 0 .. requestsMade'
  BY <1>1 DEF RegistryIInv, RequestTypes
<1>4. /\ mutations' \in [Folders -> Seq(Requests(requestsMade'))]
      /\ \A g \in Folders : InFlight(g) =>
           mutations'[g] # <<>> /\ Head(mutations'[g]) = Head(mutations[g])
  BY <1>2, <1>3, EnqueuedOK
<1>5. RequestTypes'
  BY <1>1, <1>4 DEF RegistryIInv, RequestTypes
<1>6. RegistryViews'
  BY <1>1, ViewsStay DEF RegistryIInv
<1> QED BY <1>1, <1>3, <1>4, <1>5, <1>6, QueuesOK

\* The wizard asks for the registry.
LEMMA WizardAsksOK ==
  ASSUME RegistryAssumption, RegistryIInv, NEW f \in Folders, WizardAsks(f)
  PROVE  RegistryIInv'
<1> DEFINE entry == [stage |-> "reading", request |-> requestsMade + 1, view |-> {}]
<1>1. /\ UNCHANGED <<saved, copy, stage, previous, receipts, answered, excused>>
      /\ requestsMade' = requestsMade + 1 /\ requestsMade \in Nat
      /\ wizard' = [wizard EXCEPT ![f] = entry] /\ wizard \in [Folders -> RegistryWizards(requestsMade)]
      /\ outdated' = [outdated EXCEPT ![f] = FALSE] /\ outdated \in [Folders -> BOOLEAN]
      /\ receipts \in [Folders -> SUBSET SeenViews(requestsMade)]
  BY DEF WizardAsks, RegistryIInv, RequestTypes
<1>2. PICK e \in Entries : EnqueueMutation(f, "managed", e, requestsMade + 1)
  <2>1. (CHOOSE e \in Entries : TRUE) \in Entries
    BY DEF RegistryAssumption
  <2> QED BY <2>1 DEF WizardAsks
<1>3. /\ requestsMade' \in Nat /\ requestsMade' >= requestsMade
      /\ requestsMade + 1 \in 0 .. requestsMade'
  BY <1>1
<1>4. /\ mutations' \in [Folders -> Seq(Requests(requestsMade'))]
      /\ \A g \in Folders : InFlight(g) =>
           mutations'[g] # <<>> /\ Head(mutations'[g]) = Head(mutations[g])
  BY <1>2, <1>3, EnqueuedOK
<1>5. entry \in RegistryWizards(requestsMade') /\ entry.stage = "reading" /\ entry.request = requestsMade + 1
  BY <1>1 DEF RegistryWizards
<1> HIDE DEF entry
<1>6. RequestTypes'
  <2>1. SeenViews(requestsMade) \subseteq SeenViews(requestsMade')
    BY <1>1 DEF SeenViews
  <2>2. receipts' \in [Folders -> SUBSET SeenViews(requestsMade')]
    BY <1>1, <2>1
  <2>3. RegistryWizards(requestsMade) \subseteq RegistryWizards(requestsMade')
    BY <1>1 DEF RegistryWizards
  <2>4. wizard' \in [Folders -> RegistryWizards(requestsMade')]
    BY <1>1, <1>5, <2>3
  <2> QED BY <1>1, <1>3, <1>4, <2>2, <2>4 DEF RequestTypes
<1>7. ASSUME NEW g \in Folders
      PROVE  ViewOf(g)'
  <2>1. CASE g = f
    <3>1. wizard'[g].stage = "reading" /\ wizard'[g].request = requestsMade + 1
      BY <1>1, <1>5, <2>1
    <3>2. \A r \in receipts'[g] : r.request # requestsMade + 1
      BY <1>1 DEF SeenViews
    <3> QED BY <3>1, <3>2 DEF ViewOf
  <2>2. CASE g # f
    BY <1>1, <2>2 DEF RegistryIInv, RegistryViews, ViewOf
  <2> QED BY <2>1, <2>2
<1>8. RegistryViews'
  BY <1>7 DEF RegistryViews
<1> QED BY <1>1, <1>3, <1>4, <1>6, <1>8, QueuesOK

\* The wizard reads its receipt, and is closed.
LEMMA WizardViewsOK ==
  ASSUME RegistryIInv, NEW f \in Folders, WizardReads(f) \/ WizardCloses(f)
  PROVE  RegistryIInv'
<1>1. /\ UNCHANGED <<saved, copy, mutations, stage, previous, requestsMade, answered, excused,
                     outdated>>
      /\ wizard \in [Folders -> RegistryWizards(requestsMade)] /\ requestsMade \in Nat
      /\ receipts \in [Folders -> SUBSET SeenViews(requestsMade)]
  BY DEF WizardReads, WizardCloses, RegistryIInv, RequestTypes
<1>2. CASE WizardReads(f)
  <2>1. PICK r \in receipts[f] :
          /\ OwnReceipt(f, r) /\ wizard[f].stage = "reading"
          /\ wizard' = [wizard EXCEPT ![f].stage = "choosing", ![f].view = r.view]
          /\ receipts' = [receipts EXCEPT ![f] = receipts[f] \ {r}] \/ receipts' = receipts
    BY <1>2 DEF WizardReads
  <2>2. r \in SeenViews(requestsMade) /\ r.view \in SUBSET Entries
    BY <1>1 DEF SeenViews
  <2>3. /\ wizard'[f] \in RegistryWizards(requestsMade) /\ wizard'[f].stage = "choosing"
        /\ wizard'[f].view = r.view
        /\ \A g \in Folders \ {f} : wizard'[g] = wizard[g]
        /\ wizard' \in [Folders -> RegistryWizards(requestsMade)]
    <3> DEFINE w == [wizard[f] EXCEPT !.stage = "choosing", !.view = r.view]
    <3>1. w \in RegistryWizards(requestsMade) /\ w.stage = "choosing" /\ w.view = r.view
      BY <1>1, <2>2 DEF RegistryWizards
    <3>2. wizard' = [wizard EXCEPT ![f] = w]
      BY <1>1, <2>1
    <3> HIDE DEF w
    <3> QED BY <1>1, <3>1, <3>2
  <2>4. receipts' \in [Folders -> SUBSET SeenViews(requestsMade)]
        /\ \A g \in Folders : receipts'[g] \subseteq receipts[g]
    BY <1>1, <2>1
  <2>5. RequestTypes'
    BY <1>1, <2>3, <2>4 DEF RegistryIInv, RequestTypes
  <2>6. outdated[f] = FALSE => r.view = saved
    BY <2>1 DEF RegistryIInv, RegistryViews, ViewOf, OwnReceipt
  <2>7. ASSUME NEW g \in Folders
        PROVE  ViewOf(g)'
    BY <1>1, <2>3, <2>4, <2>6 DEF RegistryIInv, RegistryViews, ViewOf
  <2>8. RegistryViews'
    BY <2>7 DEF RegistryViews
  <2> QED BY <1>1, <2>5, <2>8, QueuesOK DEF RegistryIInv, RegistryQueues
<1>3. CASE WizardCloses(f)
  <2>1. wizard' = [wizard EXCEPT ![f] = NoWizard] /\ receipts' = receipts
    BY <1>3 DEF WizardCloses
  <2>2. RequestTypes'
    BY <1>1, <2>1, NoWizardOK DEF RegistryIInv, RequestTypes
  <2>3. \A g \in Folders : wizard'[g] = wizard[g] \/ wizard'[g].stage = "closed"
    BY <1>1, <2>1, NoWizardOK
  <2>4. RegistryViews'
    BY <1>1, <2>1, <2>3, ViewsStay DEF RegistryIInv
  <2> QED BY <1>1, <2>2, <2>4, QueuesOK DEF RegistryIInv, RegistryQueues
<1> QED BY <1>2, <1>3

\* The wizard sends a command.
LEMMA WizardSendsOK ==
  ASSUME RegistryIInv, NEW f \in Folders, NEW op \in {"add", "remove"}, NEW e \in Entries,
         WizardSends(f, op, e)
  PROVE  RegistryIInv'
<1>1. /\ UNCHANGED <<saved, copy, stage, previous, receipts, requestsMade, answered, excused,
                     outdated>>
      /\ wizard \in [Folders -> RegistryWizards(requestsMade)] /\ requestsMade \in Nat
      /\ wizard' = [wizard EXCEPT ![f].stage = "saving", ![f].view = {}]
      /\ wizard[f].stage = "choosing" /\ EnqueueMutation(f, op, e, wizard[f].request)
  BY DEF WizardSends, RegistryIInv, RequestTypes
<1>2. PICK q \in 0 .. requestsMade : q = wizard[f].request
  BY <1>1 DEF RegistryWizards
<1>3. requestsMade' \in Nat /\ requestsMade' >= requestsMade /\ q \in 0 .. requestsMade'
      /\ EnqueueMutation(f, op, e, q)
  BY <1>1, <1>2
<1>4. /\ mutations' \in [Folders -> Seq(Requests(requestsMade'))]
      /\ \A g \in Folders : InFlight(g) =>
           mutations'[g] # <<>> /\ Head(mutations'[g]) = Head(mutations[g])
  BY <1>3, EnqueuedOK
<1>5. /\ wizard' \in [Folders -> RegistryWizards(requestsMade)] /\ wizard'[f].stage = "saving"
      /\ \A g \in Folders \ {f} : wizard'[g] = wizard[g]
  <2> DEFINE w == [wizard[f] EXCEPT !.stage = "saving", !.view = {}]
  <2>1. w \in RegistryWizards(requestsMade) /\ w.stage = "saving"
    BY <1>1 DEF RegistryWizards
  <2>2. wizard' = [wizard EXCEPT ![f] = w]
    BY <1>1
  <2> HIDE DEF w
  <2> QED BY <1>1, <2>1, <2>2
<1>6. RequestTypes'
  BY <1>1, <1>4, <1>5 DEF RegistryIInv, RequestTypes
<1>7. \A g \in Folders : wizard'[g] = wizard[g] \/ wizard'[g].stage \in {"closed", "saving"}
  BY <1>5
<1>8. RegistryViews'
  BY <1>1, <1>7, ViewsStay DEF RegistryIInv
<1> QED BY <1>1, <1>3, <1>4, <1>6, <1>8, QueuesOK

\* Every command that the wizard sends is one of its own.
LEMMA WizardCommandsOK ==
  ASSUME RegistryIInv, NEW f \in Folders,
         WizardAdds(f) \/ WizardSelects(f) \/ WizardToggles(f) \/ WizardRemoves(f)
  PROVE  RegistryIInv'
<1>1. wizard[f].view \subseteq Entries
  BY DEF RegistryIInv, RequestTypes, RegistryWizards
<1>2. PICK op \in {"add", "remove"}, e \in Entries : WizardSends(f, op, e)
  BY <1>1 DEF WizardAdds, WizardSelects, WizardToggles, WizardRemoves
<1> QED BY <1>2, WizardSendsOK

\* A mutation that writes nothing ends.
LEMMA NothingWrittenOK ==
  ASSUME RegistryIInv, NEW f \in Folders, Begins(f), MutationEnds(f),
         UNCHANGED <<saved, requestsMade, answered, excused, outdated>>,
         copy' \in [Folders -> SUBSET Entries],
         \A g \in Folders \ {f} : copy'[g] = copy[g],
         RequestTypes', RegistryViews'
  PROVE  RegistryIInv'
<1>1. /\ mutations' \in [Folders -> Seq(Requests(requestsMade'))]
      /\ stage' \in [Folders -> {"idle", "saving", "reloading", "restoring"}]
      /\ previous' \in [Folders -> SUBSET Entries]
      /\ stage'[f] = "idle" /\ stage[f] = "idle"
      /\ \A g \in Folders \ {f} : /\ mutations'[g] = mutations[g] /\ stage'[g] = stage[g]
                                  /\ previous'[g] = previous[g]
  BY MutationEnded DEF Begins
<1>2. \A g \in Folders : InFlight(g)' <=> InFlight(g)
  BY <1>1 DEF InFlight
<1>3. RegistryQueues'
  BY <1>1 DEF RegistryIInv, RegistryQueues, InFlight
<1>4. RegistryAlone' /\ RegistryIdle'
  BY <1>2 DEF RegistryIInv, RegistryAlone, RegistryIdle
<1>5. ASSUME NEW g \in Folders, excused' = FALSE
      PROVE  WorkOf(g)'
  <2>1. CASE g = f
    BY <1>1, <2>1 DEF WorkOf
  <2>2. CASE g # f
    <3>1. WorkOf(g)
      BY <1>5 DEF RegistryIInv, RegistryWork
    <3> QED BY <1>1, <2>2, <3>1 DEF WorkOf, Working, Running, Effect
  <2> QED BY <2>1, <2>2
<1>6. RegistryWork'
  BY <1>5 DEF RegistryWork
<1>7. RegistryTypes'
  BY <1>1 DEF RegistryIInv, RegistryTypes
<1> QED BY <1>3, <1>4, <1>6, <1>7 DEF RegistryIInv

\* A command that is refused, and a registry that cannot be read.
LEMMA RefusedOK ==
  ASSUME RegistryIInv, NEW f \in Folders, StartRefused(f) \/ RefreshFails(f)
  PROVE  RegistryIInv'
<1>1. /\ Begins(f) /\ MutationEnds(f) /\ CommandReturns(f)
      /\ UNCHANGED <<saved, receipts, requestsMade, answered, excused, outdated>>
      /\ copy' = copy \/ copy' = [copy EXCEPT ![f] = saved]
  BY DEF StartRefused, RefreshFails, Refreshed
<1>2. copy' \in [Folders -> SUBSET Entries] /\ \A g \in Folders \ {f} : copy'[g] = copy[g]
  BY <1>1 DEF RegistryIInv, RegistryTypes
<1>3. /\ wizard' \in [Folders -> RegistryWizards(requestsMade)]
      /\ \A g \in Folders : wizard'[g] = wizard[g] \/ wizard'[g].stage = "closed"
  BY <1>1, CommandReturned
<1>4. mutations' \in [Folders -> Seq(Requests(requestsMade'))]
  BY <1>1, MutationEnded DEF Begins
<1>5. RequestTypes'
  BY <1>1, <1>3, <1>4 DEF RegistryIInv, RequestTypes
<1>6. RegistryViews'
  BY <1>1, <1>3, ViewsStay DEF RegistryIInv
<1> QED BY <1>1, <1>2, <1>5, <1>6, NothingWrittenOK

\* The registry is read, for the wizard that asked.
LEMMA ReadManagedOK ==
  ASSUME RegistryIInv, NEW f \in Folders, ReadManaged(f)
  PROVE  RegistryIInv'
<1>1. /\ Begins(f) /\ MutationEnds(f)
      /\ UNCHANGED <<saved, wizard, requestsMade, answered, excused, outdated>>
      /\ copy' = [copy EXCEPT ![f] = saved] /\ saved \in SUBSET Entries
      /\ receipts \in [Folders -> SUBSET SeenViews(requestsMade)] /\ requestsMade \in Nat
  BY DEF ReadManaged, Refreshed, RegistryIInv, RegistryTypes, RequestTypes
<1>2. copy' \in [Folders -> SUBSET Entries] /\ \A g \in Folders \ {f} : copy'[g] = copy[g]
  BY <1>1 DEF RegistryIInv, RegistryTypes
<1>3. mutations' \in [Folders -> Seq(Requests(requestsMade'))]
  BY <1>1, MutationEnded DEF Begins
<1> DEFINE r == [request |-> Running(f).request, view |-> saved]
<1>4. r \in SeenViews(requestsMade) /\ r.view = saved
  BY <1>1, RunningOK DEF Begins, SeenViews
<1>5. receipts' = receipts \/ receipts' = [receipts EXCEPT ![f] = receipts[f] \cup {r}]
  BY DEF ReadManaged, Refreshed
<1> HIDE DEF r
<1>6. /\ receipts' \in [Folders -> SUBSET SeenViews(requestsMade)]
      /\ \A g \in Folders : \A x \in receipts'[g] : x \in receipts[g] \/ x.view = saved
  BY <1>1, <1>4, <1>5
<1>7. RequestTypes'
  BY <1>1, <1>3, <1>6 DEF RegistryIInv, RequestTypes
<1>8. RegistryViews'
  BY <1>1, <1>6 DEF RegistryIInv, RegistryViews, ViewOf
<1> QED BY <1>1, <1>2, <1>7, <1>8, NothingWrittenOK

\* What a mutation does stays in the registry's entries.
LEMMA EffectOK ==
  ASSUME NEW registry \in SUBSET Entries, NEW e \in Entries, NEW op
  PROVE  Effect(op, e, registry) \in SUBSET Entries
BY DEF Effect

\* A mutation starts: from then on it is the only one, or all bets are off.
LEMMA StartChangeOK ==
  ASSUME RegistryIInv, NEW f \in Folders, StartChange(f)
  PROVE  RegistryIInv'
<1> DEFINE late == excused \/ \E g \in Folders \ {f} : InFlight(g)
           work == Effect(Running(f).op, Running(f).entry, saved)
<1>1. /\ mutations[f] # <<>> /\ stage[f] = "idle"
      /\ UNCHANGED <<saved, mutations, receipts, wizard, requestsMade, answered, outdated>>
      /\ Running(f).op \in {"add", "remove", "forget"}
      /\ previous' = [previous EXCEPT ![f] = saved]
      /\ copy' = [copy EXCEPT ![f] = work]
      /\ stage' = [stage EXCEPT ![f] = "saving"] /\ excused' = late
  BY DEF StartChange, Begins, Refreshed, Stage
<1>2. /\ copy \in [Folders -> SUBSET Entries] /\ previous \in [Folders -> SUBSET Entries]
      /\ stage \in [Folders -> {"idle", "saving", "reloading", "restoring"}]
      /\ saved \in SUBSET Entries /\ excused \in BOOLEAN
  BY DEF RegistryIInv, RegistryTypes
<1>3. late \in BOOLEAN
      /\ (late = FALSE => excused = FALSE /\ \A g \in Folders \ {f} : ~InFlight(g))
  BY <1>2, Zenon
<1>4. work \in SUBSET Entries
  BY <1>1, <1>2, RunningOK, EffectOK
<1>5. Running(f)' = Running(f)
  BY <1>1 DEF Running
<1>6. excused' = FALSE => saved = answered
  BY <1>1, <1>3 DEF RegistryIInv, RegistryIdle, InFlight
<1>7. excused' = FALSE => copy'[f] = Working(f)'
  BY <1>1, <1>2, <1>5, <1>6 DEF Working, Effect
<1> HIDE DEF late, work
<1>8. /\ copy' \in [Folders -> SUBSET Entries] /\ previous' \in [Folders -> SUBSET Entries]
      /\ stage' \in [Folders -> {"idle", "saving", "reloading", "restoring"}]
      /\ stage'[f] = "saving" /\ previous'[f] = saved
      /\ \A g \in Folders \ {f} : stage'[g] = stage[g]
  BY <1>1, <1>2, <1>4
<1>9. excused' = FALSE => \A g \in Folders \ {f} : stage[g] = "idle"
  BY <1>1, <1>3 DEF InFlight
<1>10. RegistryTypes' /\ RequestTypes'
  BY <1>1, <1>3, <1>8 DEF RegistryIInv, RegistryTypes, RequestTypes
<1>11. RegistryQueues'
  BY <1>1, <1>8 DEF RegistryIInv, RegistryQueues, InFlight
<1>12. RegistryAlone' /\ RegistryIdle'
  BY <1>8, <1>9 DEF RegistryAlone, RegistryIdle, InFlight
<1>13. ASSUME NEW g \in Folders, excused' = FALSE
       PROVE  WorkOf(g)'
  <2>1. CASE g = f
    BY <1>1, <1>5, <1>6, <1>7, <1>8, <1>13, <2>1 DEF WorkOf
  <2>2. CASE g # f
    BY <1>8, <1>9, <1>13, <2>2 DEF WorkOf
  <2> QED BY <2>1, <2>2
<1>14. RegistryWork'
  BY <1>13 DEF RegistryWork
<1>15. RegistryViews'
  BY <1>1 DEF RegistryIInv, RegistryViews, ViewOf
<1> QED BY <1>10, <1>11, <1>12, <1>14, <1>15 DEF RegistryIInv

\* What is left when a mutation has ended, or goes on to its next await.
LEMMA GoesOnOK ==
  ASSUME RegistryIInv, NEW f \in Folders, InFlight(f),
         RegistryTypes', RequestTypes', RegistryViews',
         excused' = FALSE => excused = FALSE,
         \A g \in Folders \ {f} : /\ stage'[g] = stage[g] /\ mutations'[g] = mutations[g]
                                  /\ previous'[g] = previous[g] /\ copy'[g] = copy[g],
         InFlight(f)' => mutations'[f] # <<>>,
         excused' = FALSE /\ ~InFlight(f)' => saved' = answered',
         excused' = FALSE => WorkOf(f)'
  PROVE  RegistryIInv'
<1>1. excused' = FALSE => \A g \in Folders \ {f} : stage[g] = "idle" /\ stage'[g] = "idle"
  BY DEF RegistryIInv, RegistryAlone, InFlight
<1>2. RegistryQueues'
  BY DEF RegistryIInv, RegistryQueues, InFlight
<1>3. RegistryAlone' /\ RegistryIdle'
  BY <1>1 DEF RegistryAlone, RegistryIdle, InFlight
<1>4. ASSUME NEW g \in Folders, excused' = FALSE
      PROVE  WorkOf(g)'
  <2>1. CASE g = f
    BY <1>4, <2>1
  <2>2. CASE g # f
    BY <1>1, <1>4, <2>2 DEF WorkOf
  <2> QED BY <2>1, <2>2
<1>5. RegistryWork'
  BY <1>4 DEF RegistryWork
<1> QED BY <1>2, <1>3, <1>5 DEF RegistryIInv

\* The types of what a mutation under way changes.
LEMMA InFlightTypes ==
  ASSUME RegistryIInv, NEW f \in Folders, InFlight(f)
  PROVE  /\ saved \in SUBSET Entries /\ answered \in SUBSET Entries
         /\ copy \in [Folders -> SUBSET Entries] /\ previous \in [Folders -> SUBSET Entries]
         /\ stage \in [Folders -> {"idle", "saving", "reloading", "restoring"}]
         /\ excused \in BOOLEAN /\ requestsMade \in Nat
         /\ mutations \in [Folders -> Seq(Requests(requestsMade))]
         /\ receipts \in [Folders -> SUBSET SeenViews(requestsMade)]
         /\ wizard \in [Folders -> RegistryWizards(requestsMade)] /\ outdated \in [Folders -> BOOLEAN]
         /\ mutations[f] # <<>> /\ Running(f).entry \in Entries
         /\ \A registry \in SUBSET Entries :
              Effect(Running(f).op, Running(f).entry, registry) \in SUBSET Entries
<1>1. mutations[f] # <<>>
  BY DEF RegistryIInv, RegistryQueues
<1>2. Running(f).entry \in Entries
  BY <1>1, RunningOK
<1> QED BY <1>1, <1>2, EffectOK DEF RegistryIInv, RegistryTypes, RequestTypes

\* The whole registry is saved, or cannot be.
LEMMA SaveEndsOK ==
  ASSUME RegistryIInv, NEW f \in Folders, SaveEnds(f)
  PROVE  RegistryIInv'
<1>1. /\ stage[f] = "saving" /\ InFlight(f)
      /\ UNCHANGED <<copy, receipts, wizard, requestsMade, excused>>
  BY DEF SaveEnds, InFlight
<1>2. excused = FALSE => WorkOf(f)
  BY DEF RegistryIInv, RegistryWork
<1>3. CASE /\ saved' = copy[f] /\ outdated' = [g \in Folders |-> TRUE]
           /\ Running(f).op = "forget" /\ MutationEnds(f)
           /\ answered' = answered \ {Running(f).entry}
  <2>1. /\ mutations' \in [Folders -> Seq(Requests(requestsMade'))]
        /\ stage' \in [Folders -> {"idle", "saving", "reloading", "restoring"}]
        /\ previous' \in [Folders -> SUBSET Entries] /\ stage'[f] = "idle"
        /\ \A g \in Folders \ {f} : /\ mutations'[g] = mutations[g] /\ stage'[g] = stage[g]
                                    /\ previous'[g] = previous[g]
    BY <1>1, <1>3, InFlightTypes, MutationEnded
  <2>2. RegistryTypes' /\ RequestTypes' /\ RegistryViews'
    BY <1>1, <1>3, <2>1, InFlightTypes, ViewsOutdated DEF RegistryTypes, RequestTypes
  <2>3. excused' = FALSE => saved' = answered'
    BY <1>1, <1>2, <1>3 DEF WorkOf, Working, Effect
  <2>4. WorkOf(f)'
    BY <2>1 DEF WorkOf
  <2> QED BY <1>1, <2>1, <2>2, <2>3, <2>4, GoesOnOK DEF InFlight
<1>4. CASE /\ saved' = copy[f] /\ outdated' = [g \in Folders |-> TRUE]
           /\ Running(f).op # "forget" /\ Stage(f, "reloading")
           /\ UNCHANGED <<mutations, previous, answered>>
  <2>1. /\ stage' \in [Folders -> {"idle", "saving", "reloading", "restoring"}]
        /\ stage'[f] = "reloading" /\ \A g \in Folders \ {f} : stage'[g] = stage[g]
    BY <1>1, <1>4, InFlightTypes DEF Stage
  <2>2. RegistryTypes' /\ RequestTypes' /\ RegistryViews'
    BY <1>1, <1>4, <2>1, InFlightTypes, ViewsOutdated DEF RegistryTypes, RequestTypes
  <2>3. excused' = FALSE => WorkOf(f)'
    BY <1>1, <1>2, <1>4, <2>1 DEF WorkOf, Working, Running, Effect
  <2> QED BY <1>1, <1>4, <2>1, <2>2, <2>3, InFlightTypes, GoesOnOK DEF InFlight
<1>5. CASE Running(f).op = "forget" /\ MutationEnds(f) /\ UNCHANGED <<saved, answered, outdated>>
  <2>1. /\ mutations' \in [Folders -> Seq(Requests(requestsMade'))]
        /\ stage' \in [Folders -> {"idle", "saving", "reloading", "restoring"}]
        /\ previous' \in [Folders -> SUBSET Entries] /\ stage'[f] = "idle"
        /\ \A g \in Folders \ {f} : /\ mutations'[g] = mutations[g] /\ stage'[g] = stage[g]
                                    /\ previous'[g] = previous[g]
    BY <1>1, <1>5, InFlightTypes, MutationEnded
  <2>2. RegistryTypes' /\ RequestTypes'
    BY <1>1, <1>5, <2>1, InFlightTypes DEF RegistryTypes, RequestTypes
  <2>3. RegistryViews'
    BY <1>1, <1>5 DEF RegistryIInv, RegistryViews, ViewOf
  <2>4. excused' = FALSE => saved' = answered'
    BY <1>1, <1>2, <1>5 DEF WorkOf
  <2>5. WorkOf(f)'
    BY <2>1 DEF WorkOf
  <2> QED BY <1>1, <2>1, <2>2, <2>3, <2>4, <2>5, GoesOnOK DEF InFlight
<1>6. CASE /\ Running(f).op # "forget" /\ Stage(f, "restoring")
           /\ UNCHANGED <<mutations, previous, saved, answered, outdated>>
  <2>1. /\ stage' \in [Folders -> {"idle", "saving", "reloading", "restoring"}]
        /\ stage'[f] = "restoring" /\ \A g \in Folders \ {f} : stage'[g] = stage[g]
    BY <1>1, <1>6, InFlightTypes DEF Stage
  <2>2. RegistryTypes' /\ RequestTypes'
    BY <1>1, <1>6, <2>1, InFlightTypes DEF RegistryTypes, RequestTypes
  <2>3. RegistryViews'
    BY <1>1, <1>6 DEF RegistryIInv, RegistryViews, ViewOf
  <2>4. excused' = FALSE => WorkOf(f)'
    BY <1>1, <1>2, <1>6, <2>1 DEF WorkOf
  <2> QED BY <1>1, <1>6, <2>1, <2>2, <2>3, <2>4, InFlightTypes, GoesOnOK DEF InFlight
<1> QED BY <1>3, <1>4, <1>5, <1>6 DEF SaveEnds

\* The registries are reloaded, or one fails and the command is taken back.
LEMMA ReloadEndsOK ==
  ASSUME RegistryIInv, NEW f \in Folders, ReloadEnds(f)
  PROVE  RegistryIInv'
<1>1. /\ stage[f] = "reloading" /\ InFlight(f)
      /\ UNCHANGED <<saved, copy, receipts, requestsMade, excused, outdated>>
  BY DEF ReloadEnds, InFlight
<1>2. excused = FALSE => WorkOf(f)
  BY DEF RegistryIInv, RegistryWork
<1>3. CASE /\ MutationEnds(f) /\ CommandReturns(f)
           /\ answered' = Effect(Running(f).op, Running(f).entry, answered)
  <2>1. /\ mutations' \in [Folders -> Seq(Requests(requestsMade'))]
        /\ stage' \in [Folders -> {"idle", "saving", "reloading", "restoring"}]
        /\ previous' \in [Folders -> SUBSET Entries] /\ stage'[f] = "idle"
        /\ \A g \in Folders \ {f} : /\ mutations'[g] = mutations[g] /\ stage'[g] = stage[g]
                                    /\ previous'[g] = previous[g]
    BY <1>1, <1>3, InFlightTypes, MutationEnded
  <2>2. /\ wizard' \in [Folders -> RegistryWizards(requestsMade)]
        /\ \A g \in Folders : wizard'[g] = wizard[g] \/ wizard'[g].stage = "closed"
    BY <1>3, CommandReturned
  <2>3. RegistryTypes' /\ RequestTypes'
    BY <1>1, <1>3, <2>1, <2>2, InFlightTypes DEF RegistryTypes, RequestTypes
  <2>4. RegistryViews'
    BY <1>1, <2>2, ViewsStay DEF RegistryIInv
  <2>5. excused' = FALSE => saved' = answered'
    BY <1>1, <1>2, <1>3 DEF WorkOf, Working
  <2>6. WorkOf(f)'
    BY <2>1 DEF WorkOf
  <2> QED BY <1>1, <2>1, <2>3, <2>4, <2>5, <2>6, GoesOnOK DEF InFlight
<1>4. CASE Stage(f, "restoring") /\ UNCHANGED <<mutations, previous, wizard, answered>>
  <2>1. /\ stage' \in [Folders -> {"idle", "saving", "reloading", "restoring"}]
        /\ stage'[f] = "restoring" /\ \A g \in Folders \ {f} : stage'[g] = stage[g]
    BY <1>1, <1>4, InFlightTypes DEF Stage
  <2>2. RegistryTypes' /\ RequestTypes'
    BY <1>1, <1>4, <2>1, InFlightTypes DEF RegistryTypes, RequestTypes
  <2>3. RegistryViews'
    BY <1>1, <1>4 DEF RegistryIInv, RegistryViews, ViewOf
  <2>4. excused' = FALSE => WorkOf(f)'
    BY <1>1, <1>2, <1>4, <2>1 DEF WorkOf
  <2> QED BY <1>1, <1>4, <2>1, <2>2, <2>3, <2>4, InFlightTypes, GoesOnOK DEF InFlight
<1> QED BY <1>3, <1>4 DEF ReloadEnds

\* The previous registry is saved again, or the rollback says that it could not.
LEMMA RollbackEndsOK ==
  ASSUME RegistryIInv, NEW f \in Folders, RollbackEnds(f)
  PROVE  RegistryIInv'
<1>1. /\ stage[f] = "restoring" /\ InFlight(f) /\ MutationEnds(f) /\ CommandReturns(f)
      /\ copy' = [copy EXCEPT ![f] = previous[f]]
      /\ UNCHANGED <<receipts, requestsMade, answered>>
  BY DEF RollbackEnds, InFlight
<1>2. excused = FALSE => WorkOf(f)
  BY DEF RegistryIInv, RegistryWork
<1>3. /\ mutations' \in [Folders -> Seq(Requests(requestsMade'))]
      /\ stage' \in [Folders -> {"idle", "saving", "reloading", "restoring"}]
      /\ previous' \in [Folders -> SUBSET Entries] /\ stage'[f] = "idle"
      /\ \A g \in Folders \ {f} : /\ mutations'[g] = mutations[g] /\ stage'[g] = stage[g]
                                  /\ previous'[g] = previous[g]
  BY <1>1, InFlightTypes, MutationEnded
<1>4. /\ wizard' \in [Folders -> RegistryWizards(requestsMade)]
      /\ \A g \in Folders : wizard'[g] = wizard[g] \/ wizard'[g].stage = "closed"
  BY <1>1, CommandReturned
<1>5. copy' \in [Folders -> SUBSET Entries] /\ \A g \in Folders \ {f} : copy'[g] = copy[g]
  BY <1>1, InFlightTypes
<1>6. WorkOf(f)'
  BY <1>3 DEF WorkOf
<1>7. CASE saved' = previous[f] /\ outdated' = [g \in Folders |-> TRUE] /\ UNCHANGED excused
  <2>1. RegistryTypes' /\ RequestTypes' /\ RegistryViews'
    BY <1>1, <1>3, <1>4, <1>5, <1>7, InFlightTypes, ViewsOutdated
    DEF RegistryTypes, RequestTypes
  <2>2. excused' = FALSE => saved' = answered'
    BY <1>1, <1>2, <1>7 DEF WorkOf
  <2> QED BY <1>1, <1>3, <1>5, <1>6, <1>7, <2>1, <2>2, GoesOnOK DEF InFlight
<1>8. CASE excused' = TRUE /\ UNCHANGED <<saved, outdated>>
  <2>1. RegistryTypes' /\ RequestTypes'
    BY <1>1, <1>3, <1>4, <1>5, <1>8, InFlightTypes DEF RegistryTypes, RequestTypes
  <2>2. RegistryViews'
    BY <1>1, <1>4, <1>8, ViewsStay DEF RegistryIInv
  <2> QED BY <1>1, <1>3, <1>5, <1>6, <1>8, <2>1, <2>2, GoesOnOK DEF InFlight
<1> QED BY <1>7, <1>8 DEF RollbackEnds

\* The plugin of a folder is set up again.
LEMMA InstanceRestartsOK ==
  ASSUME RegistryIInv, NEW f \in Folders, InstanceRestarts(f)
  PROVE  RegistryIInv'
<1>1. /\ mutations[f] = <<>> /\ copy' = [copy EXCEPT ![f] = saved]
      /\ UNCHANGED <<saved, mutations, stage, previous, receipts, wizard, requestsMade,
                     answered, excused, outdated>>
  BY DEF InstanceRestarts
<1>2. ~InFlight(f)
  BY <1>1 DEF RegistryIInv, RegistryQueues
<1>3. RegistryTypes' /\ RequestTypes' /\ RegistryViews'
  BY <1>1 DEF RegistryIInv, RegistryTypes, RequestTypes, RegistryViews, ViewOf
<1>4. \A g \in Folders \ {f} : copy'[g] = copy[g]
  BY <1>1 DEF RegistryIInv, RegistryTypes
<1>5. ASSUME NEW g \in Folders, InFlight(g)
      PROVE  mutations'[g] # <<>> /\ Head(mutations'[g]) = Head(mutations[g])
             /\ copy'[g] = copy[g]
  BY <1>1, <1>2, <1>4, <1>5 DEF RegistryIInv, RegistryQueues
<1>6. RegistryQueues' /\ RegistryAlone' /\ RegistryIdle' /\ RegistryWork'
  BY <1>1, <1>5, WorkStays
<1> QED BY <1>3, <1>6 DEF RegistryIInv

\* An empty registry that nobody works on.
LEMMA RegistryInitOK ==
  ASSUME RegistryInit
  PROVE  RegistryIInv
<1>1. RegistryTypes
  BY DEF RegistryInit, RegistryTypes
<1>2. RequestTypes
  BY NoWizardOK, EmptySeq DEF RegistryInit, RequestTypes
<1> QED BY <1>1, <1>2, NoWizardOK
        DEF RegistryInit, RegistryIInv, RegistryQueues, RegistryAlone, RegistryIdle,
            RegistryWork, WorkOf, RegistryViews, ViewOf, InFlight

\* Every step of an instance or a wizard keeps the invariant.
LEMMA RegistryStepOK ==
  ASSUME RegistryAssumption, RegistryIInv, [RegistryNext]_registryVars
  PROVE  RegistryIInv'
<1>1. ASSUME NEW f \in Folders,
             \/ StartChange(f) \/ StartRefused(f) \/ ReadManaged(f) \/ RefreshFails(f)
             \/ SaveEnds(f) \/ ReloadEnds(f) \/ RollbackEnds(f)
             \/ SyncToggles(f) \/ SessionForgotten(f) \/ InstanceRestarts(f)
             \/ WizardAsks(f) \/ WizardReads(f) \/ WizardCloses(f)
             \/ WizardAdds(f) \/ WizardSelects(f) \/ WizardToggles(f) \/ WizardRemoves(f)
      PROVE  RegistryIInv'
  BY <1>1, StartChangeOK, RefusedOK, ReadManagedOK, SaveEndsOK, ReloadEndsOK, RollbackEndsOK,
     OwnMutationOK, InstanceRestartsOK, WizardAsksOK, WizardViewsOK, WizardCommandsOK
<1>2. CASE UNCHANGED registryVars
  BY <1>2
  DEF registryVars, RegistryIInv, RegistryTypes, RequestTypes, RegistryQueues, RegistryAlone,
      RegistryIdle, RegistryWork, WorkOf, Working, Running, RegistryViews, ViewOf, InFlight
<1> QED BY <1>1, <1>2 DEF RegistryNext

\* The invariant says what is saved and what a wizard shows.
LEMMA RegistryIsKept ==
  ASSUME RegistryIInv
  PROVE  RegistryKept
<1>1. excused \in BOOLEAN /\ \A f \in Folders : outdated[f] \in BOOLEAN
  BY DEF RegistryIInv, RegistryTypes, RequestTypes
<1> QED BY <1>1
        DEF RegistryIInv, RegistryIdle, RegistryViews, ViewOf, RegistryKept, AnswersAreSaved,
            ViewIsCurrent

\* While mutations of two folders do not overlap, the saved registry is what the
\* answered commands left, and a wizard shows it (config-manager.js, mutate).
THEOREM RegistriesAreKept == RegistrySpec => []RegistryKept
<1>1. RegistryInit => RegistryIInv
  BY RegistryInitOK
<1>2. RegistryIInv /\ [RegistryNext]_registryVars => RegistryIInv'
  BY RegistryStepOK, RegistryAssumption
<1>3. RegistryIInv => RegistryKept
  BY RegistryIsKept
<1> QED BY <1>1, <1>2, <1>3, PTL DEF RegistrySpec

-----------------------------------------------------------------------------
(* The agent and the model of a session (AgentModel).  An operation that     *)
(* nobody crossed knows what it leaves: the agent it set fits the model it   *)
(* is about to set, and what it would put back fits the model there is.      *)

ChatRecs == {NoChatState} \cup [agent : Agents, model : Refs]
AgentRecs == [stage : {"none", "picking", "agent", "model"}, to : Agents \cup {NoRef},
              model : Refs \cup {NoRef}, clean : BOOLEAN]
ModelRecs == [stage : {"none", "open", "agent", "model", "back"}, model : Refs \cup {NoRef},
              to : Agents \cup {NoRef}, before : Agents \cup {NoRef}, clean : BOOLEAN]
EffortRecs == [stage : {"none", "open", "write"}, model : Refs \cup {NoRef}, late : BOOLEAN]

ModelFits(agent, model) == agent = "narrator" <=> model = DndModel

AgentTypes ==
  /\ chatState \in ChatRecs /\ chatCopy \in ChatRecs
  /\ busyTurn \in BOOLEAN /\ torn \in BOOLEAN /\ choices \in Nat
  /\ migration \in {"due", "sent", "done"}
  /\ remembered \in PlainModels \cup {NoRef} /\ lastPlain \in PlainModels \cup {NoRef}
  /\ agentOp \in AgentRecs /\ modelOp \in ModelRecs /\ effortOp \in EffortRecs

\* An operation of a session has a session.
AgentHomes ==
  /\ chatState = NoChatState => chatCopy = NoChatState
  /\ agentOp.stage # "none" \/ effortOp.stage # "none" => chatCopy # NoChatState
  /\ ModelWriting \/ migration = "sent" => chatState # NoChatState

\* What an operation under way is about to write.
AgentOps ==
  /\ ModelWriting => modelOp.model \in Refs /\ modelOp.before \in Agents
  /\ modelOp.stage = "agent" => modelOp.to \in Agents /\ ModelFits(modelOp.to, modelOp.model)
  /\ AgentWriting => agentOp.to \in {"build", "narrator"}
  /\ AgentWriting /\ agentOp.model # NoRef => ModelFits(agentOp.to, agentOp.model)
  /\ agentOp.stage = "model" => agentOp.model # NoRef
  /\ effortOp.stage # "none" => effortOp.model \in Refs

ModelKnows ==
  /\ modelOp.stage = "model" /\ modelOp.clean = TRUE => ModelFits(chatState.agent, modelOp.model)
  /\ torn = FALSE /\ modelOp.clean = TRUE /\ ModelWriting =>
       ModelFits(modelOp.before, chatState.model)

AgentKnows ==
  /\ torn = FALSE /\ agentOp.clean = TRUE /\ agentOp.stage = "agent" /\ agentOp.model = NoRef =>
       ModelFits(agentOp.to, chatState.model)
  /\ agentOp.stage = "model" /\ agentOp.clean = TRUE => chatState.agent = agentOp.to

\* No operation is between its two writes.
BetweenNoWrites ==
  /\ agentOp.stage # "model"
  /\ ~(modelOp.stage \in {"model", "back"} /\ modelOp.to # NoRef)

ChatFits == torn = FALSE /\ BetweenNoWrites => ModelFits(chatState.agent, chatState.model)

AgentIInv ==
  AgentTypes /\ AgentHomes /\ AgentOps /\ ModelKnows /\ AgentKnows /\ ChatFits /\ EffortFits

\* No operation, no session.
LEMMA NoOpsOK ==
  /\ NoAgentOp \in AgentRecs /\ NoAgentOp.stage = "none"
  /\ NoModelOp \in ModelRecs /\ NoModelOp.stage = "none" /\ NoModelOp.to = NoRef
  /\ NoEffortOp \in EffortRecs /\ NoEffortOp.stage = "none"
  /\ NoChatState \in ChatRecs /\ NoChatState.agent = NoRef /\ NoChatState.model = NoRef
BY DEF NoAgentOp, NoModelOp, NoEffortOp, NoChatState, AgentRecs, ModelRecs, EffortRecs, ChatRecs

\* A session is not the home screen.
LEMMA ChatIsNotHome ==
  ASSUME AgentModelAssumption, NEW c \in ChatRecs
  PROVE  c # NoChatState => c \in [agent : Agents, model : Refs] /\ c.agent \in Agents /\ c.model \in Refs
BY DEF ChatRecs

\* No agent and no model stand for "nothing chosen"; nothing chosen fits nothing chosen.
LEMMA NarratorFits ==
  ASSUME AgentModelAssumption
  PROVE  /\ ~(NoRef = "narrator") /\ ~(NoRef = DndModel) /\ ModelFits(NoRef, NoRef)
         /\ \A m \in PlainModels : m # DndModel /\ m # NoRef
         /\ NoRef \notin Agents /\ NoRef \notin Refs
BY DEF AgentModelAssumption, ModelFits, Agents, Refs

\* A session of any agent has any model.
LEMMA ChatMade ==
  ASSUME NEW a \in Agents, NEW m \in Refs, AgentModelAssumption
  PROVE  /\ [agent |-> a, model |-> m] \in ChatRecs
         /\ [agent |-> a, model |-> m] # NoChatState
BY NarratorFits DEF ChatRecs, NoChatState

\* A switch of the agent, or of the model, of a session.
LEMMA ChatSwitched ==
  ASSUME AgentModelAssumption, NEW c \in ChatRecs, c # NoChatState, NEW a \in Agents, NEW m \in Refs
  PROVE  /\ [c EXCEPT !.agent = a] \in ChatRecs /\ [c EXCEPT !.agent = a] # NoChatState
         /\ [c EXCEPT !.agent = a].agent = a /\ [c EXCEPT !.agent = a].model = c.model
         /\ [c EXCEPT !.model = m] \in ChatRecs /\ [c EXCEPT !.model = m] # NoChatState
         /\ [c EXCEPT !.model = m].agent = c.agent /\ [c EXCEPT !.model = m].model = m
<1>1. c \in [agent : Agents, model : Refs]
  BY ChatIsNotHome
<1>2. [c EXCEPT !.agent = a] = [agent |-> a, model |-> c.model]
  BY <1>1
<1>3. [c EXCEPT !.model = m] = [agent |-> c.agent, model |-> m]
  BY <1>1
<1> QED BY <1>1, <1>2, <1>3, ChatMade

\* Whoever is between its read and its end no longer knows what it works on.
LEMMA ApartOK ==
  ASSUME AgentTypes, NEW a, a = Apart(agentOp, AgentWriting), NEW d, d = Apart(modelOp, ModelWriting)
  PROVE  /\ a \in AgentRecs /\ a.stage = agentOp.stage /\ a.to = agentOp.to
         /\ a.model = agentOp.model
         /\ a.stage \in {"agent", "model"} => a.clean = FALSE
         /\ d \in ModelRecs /\ d.stage = modelOp.stage /\ d.to = modelOp.to
         /\ d.model = modelOp.model /\ d.before = modelOp.before
         /\ d.stage \in {"agent", "model", "back"} => d.clean = FALSE
<1>1. agentOp \in AgentRecs /\ modelOp \in ModelRecs
  BY DEF AgentTypes
<1>2. CASE AgentWriting
  <2>1. a = [agentOp EXCEPT !.clean = FALSE]
    BY <1>2 DEF Apart
  <2>2. CASE ModelWriting
    <3>1. d = [modelOp EXCEPT !.clean = FALSE]
      BY <2>2 DEF Apart
    <3> QED BY <1>1, <2>1, <3>1 DEF AgentRecs, ModelRecs
  <2>3. CASE ~ModelWriting
    <3>1. d = modelOp
      BY <2>3 DEF Apart
    <3> QED BY <1>1, <2>1, <2>3, <3>1 DEF AgentRecs, ModelRecs, ModelWriting
  <2> QED BY <2>2, <2>3
<1>3. CASE ~AgentWriting
  <2>1. a = agentOp
    BY <1>3 DEF Apart
  <2>2. CASE ModelWriting
    <3>1. d = [modelOp EXCEPT !.clean = FALSE]
      BY <2>2 DEF Apart
    <3> QED BY <1>1, <1>3, <2>1, <3>1 DEF AgentRecs, ModelRecs, AgentWriting
  <2>3. CASE ~ModelWriting
    <3>1. d = modelOp
      BY <2>3 DEF Apart
    <3> QED BY <1>1, <1>3, <2>1, <2>3, <3>1 DEF AgentRecs, ModelRecs, AgentWriting, ModelWriting
  <2> QED BY <2>2, <2>3
<1> QED BY <1>2, <1>3

\* An effort that is about to be sent is late.
LEMMA EffortApartOK ==
  ASSUME AgentTypes, NEW e, e = EffortApart
  PROVE  /\ e \in EffortRecs /\ e.stage = effortOp.stage /\ e.model = effortOp.model
         /\ e.stage = "write" => e.late = TRUE
<1>1. effortOp \in EffortRecs
  BY DEF AgentTypes
<1>2. CASE effortOp.stage = "write"
  BY <1>1, <1>2 DEF EffortApart, EffortRecs
<1>3. CASE effortOp.stage # "write"
  BY <1>1, <1>3 DEF EffortApart
<1> QED BY <1>2, <1>3

\* The dialog opens, is closed, and ends when a switch is refused.
LEMMA DialogOpensOK ==
  ASSUME AgentModelAssumption, AgentIInv,
         OpenModelDialog \/ CloseModelDialog \/ DialogAgentRefused \/ DialogModelRefused
  PROVE  AgentIInv'
<1>1. /\ UNCHANGED <<chatState, chatCopy, busyTurn, agentOp, effortOp, remembered, lastPlain,
                     migration, torn>>
      /\ choices' \in {choices, choices + 1}
  BY DEF OpenModelDialog, CloseModelDialog, DialogAgentRefused, DialogModelRefused
<1>2. modelOp \in ModelRecs
  BY DEF AgentIInv, AgentTypes
<1>3. /\ modelOp' \in ModelRecs
      /\ \/ modelOp'.stage \in {"none", "open"} /\ (modelOp.stage = "model" => modelOp.to = NoRef)
         \/ /\ modelOp.stage = "model" /\ modelOp.to # NoRef /\ modelOp'.stage = "back"
            /\ modelOp'.to = modelOp.to /\ modelOp'.before = modelOp.before
            /\ modelOp'.model = modelOp.model /\ modelOp'.clean = modelOp.clean
  <2>1. CASE OpenModelDialog
    <3>1. modelOp' = [NoModelOp EXCEPT !.stage = "open"] /\ modelOp.stage = "none"
      BY <2>1 DEF OpenModelDialog
    <3> QED BY <3>1, NoOpsOK DEF ModelRecs
  <2>2. CASE CloseModelDialog \/ DialogAgentRefused
    BY <2>2, NoOpsOK DEF CloseModelDialog, DialogAgentRefused
  <2>3. CASE DialogModelRefused
    <3>1. modelOp.stage = "model" /\ modelOp' = Back(modelOp)
      BY <2>3 DEF DialogModelRefused
    <3>2. CASE modelOp.to = NoRef
      BY <3>1, <3>2, NoOpsOK DEF Back
    <3>3. CASE modelOp.to # NoRef
      <4>1. modelOp' = [modelOp EXCEPT !.stage = "back"]
        BY <3>1, <3>3 DEF Back
      <4> QED BY <1>2, <3>1, <3>3, <4>1 DEF ModelRecs
    <3> QED BY <3>2, <3>3
  <2> QED BY <2>1, <2>2, <2>3
<1>4. AgentTypes'
  BY <1>1, <1>3 DEF AgentIInv, AgentTypes
<1>5. CASE modelOp'.stage \in {"none", "open"} /\ (modelOp.stage = "model" => modelOp.to = NoRef)
  <2>1. \/ BetweenNoWrites
        \/ agentOp.stage = "model"
        \/ modelOp.stage = "back"
    BY <1>5 DEF BetweenNoWrites
  <2>2. modelOp.stage # "back"
    BY DEF OpenModelDialog, CloseModelDialog, DialogAgentRefused, DialogModelRefused
  <2>3. ChatFits'
    BY <1>1, <2>1, <2>2 DEF AgentIInv, ChatFits, BetweenNoWrites, ModelFits
  <2> QED BY <1>1, <1>4, <1>5, <2>3
          DEF AgentIInv, AgentHomes, AgentOps, ModelKnows, AgentKnows, EffortFits,
              AgentWriting, ModelWriting, ModelFits
<1>6. CASE /\ modelOp.stage = "model" /\ modelOp.to # NoRef /\ modelOp'.stage = "back"
           /\ modelOp'.to = modelOp.to /\ modelOp'.before = modelOp.before
           /\ modelOp'.model = modelOp.model /\ modelOp'.clean = modelOp.clean
  BY <1>1, <1>4, <1>6
  DEF AgentIInv, AgentHomes, AgentOps, ModelKnows, AgentKnows, EffortFits, ChatFits,
      BetweenNoWrites, AgentWriting, ModelWriting, ModelFits
<1> QED BY <1>3, <1>5, <1>6

\* At home a choice creates the session, under the agent of its model.
LEMMA HomeChoiceOK ==
  ASSUME AgentModelAssumption, AgentIInv,
         EffortAtHome \/ \E m \in Refs : ChooseAtHome(m)
  PROVE  AgentIInv'
<1>1. /\ UNCHANGED <<chatCopy, busyTurn, agentOp, effortOp, remembered, migration, torn>>
      /\ choices' \in {choices, choices + 1}
      /\ chatState = NoChatState /\ chatCopy = NoChatState
      /\ \/ modelOp' = modelOp /\ lastPlain' = lastPlain
         \/ modelOp' = NoModelOp
  BY DEF EffortAtHome, ChooseAtHome
<1>2. PICK m \in Refs : chatState' = [agent |-> IF m = DndModel THEN "narrator" ELSE "build",
                                      model |-> m]
  <2>1. lastPlain \in PlainModels \cup {NoRef}
    BY DEF AgentIInv, AgentTypes
  <2> QED BY <2>1 DEF EffortAtHome, ChooseAtHome, Refs
<1>3. /\ chatState' \in ChatRecs /\ chatState' # NoChatState
      /\ ModelFits(chatState'.agent, chatState'.model)
  <2>1. CASE m = DndModel
    <3>1. chatState' = [agent |-> "narrator", model |-> m] /\ "narrator" \in Agents
      BY <1>2, <2>1 DEF Agents
    <3> QED BY <2>1, <3>1, ChatMade DEF ModelFits
  <2>2. CASE m # DndModel
    <3>1. chatState' = [agent |-> "build", model |-> m] /\ "build" \in Agents
      BY <1>2, <2>2 DEF Agents
    <3> QED BY <2>2, <3>1, ChatMade DEF ModelFits
  <2> QED BY <2>1, <2>2
<1>4. lastPlain' \in PlainModels \cup {NoRef}
  <2>1. lastPlain \in PlainModels \cup {NoRef}
    BY DEF AgentIInv, AgentTypes
  <2> QED BY <2>1 DEF EffortAtHome, ChooseAtHome, Refs
<1>5. /\ agentOp.stage = "none" /\ effortOp.stage = "none" /\ ~ModelWriting
      /\ modelOp'.stage \notin {"agent", "model", "back"} /\ modelOp' \in ModelRecs
  BY <1>1, NoOpsOK DEF AgentIInv, AgentHomes, AgentTypes, ModelWriting
<1>6. AgentTypes'
  BY <1>1, <1>3, <1>4, <1>5 DEF AgentIInv, AgentTypes
<1> QED BY <1>1, <1>3, <1>5, <1>6
        DEF AgentIInv, AgentHomes, AgentOps, ModelKnows, AgentKnows, EffortFits, ChatFits,
            BetweenNoWrites, AgentWriting, ModelWriting, ModelFits

\* A model is chosen: the agent it asks for fits it.
LEMMA ModelChosenOK ==
  ASSUME AgentModelAssumption, AgentIInv, NEW m \in Refs, ChooseModel(m)
  PROVE  AgentIInv'
<1> DEFINE to == AgentForModelChoice(m, chatCopy.agent)
           b == chatCopy = chatState /\ ~AgentWriting
           step == IF to = NoRef THEN "model" ELSE "agent"
<1>1. /\ UNCHANGED <<chatState, chatCopy, busyTurn, agentOp, effortOp, remembered, lastPlain,
                     migration, torn, choices>>
      /\ chatCopy \in ChatRecs /\ chatCopy # NoChatState /\ modelOp.stage = "open"
      /\ modelOp' = [stage |-> step, model |-> m, to |-> to, before |-> chatCopy.agent,
                     clean |-> b]
  BY DEF ChooseModel, AgentIInv, AgentTypes
<1>2. chatCopy.agent \in Agents /\ chatCopy.model \in Refs
  BY <1>1, ChatIsNotHome
<1>3. /\ to \in Agents \cup {NoRef}
      /\ to # NoRef => ModelFits(to, m)
      /\ to = NoRef => ModelFits(chatCopy.agent, m)
  BY <1>2, NarratorFits DEF AgentForModelChoice, Agents, ModelFits
<1>4. b \in BOOLEAN /\ (b = TRUE => chatCopy = chatState /\ ~AgentWriting)
  BY Zenon
<1>5. step \in {"model", "agent"} /\ (step = "model" <=> to = NoRef)
  OBVIOUS
<1> HIDE DEF to, b, step
<1>6. /\ modelOp' \in ModelRecs /\ modelOp'.stage = step /\ modelOp'.model = m
      /\ modelOp'.to = to /\ modelOp'.before = chatCopy.agent /\ modelOp'.clean = b
  BY <1>1, <1>2, <1>3, <1>4, <1>5 DEF ModelRecs
<1>7. AgentTypes'
  BY <1>1, <1>6 DEF AgentIInv, AgentTypes
<1>8. chatState # NoChatState
  BY <1>1 DEF AgentIInv, AgentHomes
<1>9. torn = FALSE /\ b = TRUE => ModelFits(chatState.agent, chatState.model)
  BY <1>1, <1>4 DEF AgentIInv, ChatFits, BetweenNoWrites, AgentWriting
<1>10. AgentHomes' /\ AgentOps'
  BY <1>1, <1>2, <1>3, <1>5, <1>6, <1>8, NarratorFits
  DEF AgentIInv, AgentHomes, AgentOps, AgentWriting, ModelWriting, ModelFits
<1>11. ModelKnows'
  BY <1>1, <1>3, <1>4, <1>5, <1>6, <1>9 DEF ModelKnows, ModelWriting, ModelFits
<1>12. AgentKnows' /\ ChatFits' /\ EffortFits'
  BY <1>1, <1>5, <1>6
  DEF AgentIInv, AgentKnows, ChatFits, EffortFits, BetweenNoWrites, ModelFits
<1> QED BY <1>7, <1>10, <1>11, <1>12 DEF AgentIInv

\* The dialog switches the agent, and puts it back.
LEMMA DialogAgentOK ==
  ASSUME AgentModelAssumption, AgentIInv, DialogSwitchesAgent \/ DialogPutsBack
  PROVE  AgentIInv'
<1>1. /\ UNCHANGED <<chatCopy, busyTurn, effortOp, remembered, lastPlain, migration, choices>>
      /\ agentOp' = Apart(agentOp, AgentWriting) /\ AgentTypes
      /\ chatState \in ChatRecs /\ chatState # NoChatState /\ modelOp \in ModelRecs
  BY DEF DialogSwitchesAgent, DialogPutsBack, AgentIInv, AgentTypes, AgentHomes, ModelWriting
<1>2. /\ agentOp' \in AgentRecs /\ agentOp'.stage = agentOp.stage /\ agentOp'.to = agentOp.to
      /\ agentOp'.model = agentOp.model
      /\ agentOp'.stage \in {"agent", "model"} => agentOp'.clean = FALSE
  BY <1>1, ApartOK
<1>3. CASE DialogSwitchesAgent
  <2>1. /\ modelOp.stage = "agent" /\ chatState' = [chatState EXCEPT !.agent = modelOp.to]
        /\ modelOp' = [modelOp EXCEPT !.stage = "model"] /\ torn' = torn
    BY <1>3 DEF DialogSwitchesAgent
  <2>2. modelOp.to \in Agents /\ ModelFits(modelOp.to, modelOp.model) /\ modelOp.to # NoRef
    BY <2>1, NarratorFits DEF AgentIInv, AgentOps
  <2>3. /\ chatState' \in ChatRecs /\ chatState' # NoChatState
        /\ chatState'.agent = modelOp.to /\ chatState'.model = chatState.model
    BY <1>1, <2>1, <2>2, ChatSwitched, ChatIsNotHome
  <2>4. /\ modelOp' \in ModelRecs /\ modelOp'.stage = "model" /\ modelOp'.to = modelOp.to
        /\ modelOp'.model = modelOp.model /\ modelOp'.before = modelOp.before
        /\ modelOp'.clean = modelOp.clean
    BY <1>1, <2>1 DEF ModelRecs
  <2>5. AgentTypes'
    BY <1>1, <1>2, <2>1, <2>3, <2>4 DEF AgentTypes
  <2> QED BY <1>1, <1>2, <2>1, <2>2, <2>3, <2>4, <2>5
          DEF AgentIInv, AgentHomes, AgentOps, ModelKnows, AgentKnows, EffortFits, ChatFits,
              BetweenNoWrites, AgentWriting, ModelWriting, ModelFits
<1>4. CASE DialogPutsBack
  <2> DEFINE t == torn \/ ~modelOp.clean \/ AgentWriting
  <2>1. /\ modelOp.stage = "back" /\ chatState' = [chatState EXCEPT !.agent = modelOp.before]
        /\ modelOp' = NoModelOp /\ torn' = t
    BY <1>4 DEF DialogPutsBack
  <2>2. torn \in BOOLEAN /\ modelOp.clean \in BOOLEAN
    BY <1>1 DEF AgentTypes, ModelRecs
  <2>3. t \in BOOLEAN /\ (t = FALSE => torn = FALSE /\ modelOp.clean = TRUE /\ ~AgentWriting)
    BY <2>2, Zenon
  <2> HIDE DEF t
  <2>4. modelOp.before \in Agents
    BY <2>1 DEF AgentIInv, AgentOps, ModelWriting
  <2>5. /\ chatState' \in ChatRecs /\ chatState' # NoChatState
        /\ chatState'.agent = modelOp.before /\ chatState'.model = chatState.model
    BY <1>1, <2>1, <2>4, ChatSwitched, ChatIsNotHome
  <2>6. AgentTypes'
    BY <1>1, <1>2, <2>1, <2>3, <2>5, NoOpsOK DEF AgentTypes
  <2>7. torn' = FALSE => ModelFits(chatState'.agent, chatState'.model)
    BY <2>1, <2>3, <2>5 DEF AgentIInv, ModelKnows, ModelWriting
  <2> QED BY <1>1, <1>2, <2>1, <2>3, <2>5, <2>6, <2>7, NoOpsOK
          DEF AgentIInv, AgentHomes, AgentOps, ModelKnows, AgentKnows, EffortFits, ChatFits,
              BetweenNoWrites, AgentWriting, ModelWriting, ModelFits
<1> QED BY <1>3, <1>4

\* The dialog switches the model.
LEMMA DialogModelOK ==
  ASSUME AgentModelAssumption, AgentIInv, DialogSwitchesModel
  PROVE  AgentIInv'
<1> DEFINE t == ~modelOp.clean \/ AgentWriting
<1>1. /\ UNCHANGED <<chatCopy, busyTurn, migration, choices>>
      /\ agentOp' = Apart(agentOp, AgentWriting) /\ effortOp' = EffortApart /\ AgentTypes
      /\ chatState \in ChatRecs /\ chatState # NoChatState /\ modelOp \in ModelRecs
      /\ modelOp.stage = "model" /\ chatState' = [chatState EXCEPT !.model = modelOp.model]
      /\ modelOp' = NoModelOp /\ torn' = t /\ remembered' = NoRef
      /\ lastPlain' = IF modelOp.model = DndModel THEN lastPlain ELSE modelOp.model
  BY DEF DialogSwitchesModel, AgentIInv, AgentTypes, AgentHomes, ModelWriting
<1>2. /\ agentOp' \in AgentRecs /\ agentOp'.stage = agentOp.stage /\ agentOp'.to = agentOp.to
      /\ agentOp'.model = agentOp.model
      /\ agentOp'.stage \in {"agent", "model"} => agentOp'.clean = FALSE
  BY <1>1, ApartOK
<1>3. /\ effortOp' \in EffortRecs /\ effortOp'.stage = effortOp.stage
      /\ effortOp'.model = effortOp.model /\ (effortOp'.stage = "write" => effortOp'.late = TRUE)
  BY <1>1, EffortApartOK
<1>4. modelOp.clean \in BOOLEAN
  BY <1>1 DEF ModelRecs
<1>5. t \in BOOLEAN /\ (t = FALSE => modelOp.clean = TRUE /\ ~AgentWriting)
  BY <1>4, Zenon
<1> HIDE DEF t
<1>6. modelOp.model \in Refs
  BY <1>1 DEF AgentIInv, AgentOps, ModelWriting
<1>7. /\ chatState' \in ChatRecs /\ chatState' # NoChatState
      /\ chatState'.agent = chatState.agent /\ chatState'.model = modelOp.model
  BY <1>1, <1>6, ChatSwitched, ChatIsNotHome
<1>8. AgentTypes'
  <2>1. lastPlain' \in PlainModels \cup {NoRef}
    BY <1>1, <1>6 DEF AgentTypes, Refs
  <2> QED BY <1>1, <1>2, <1>3, <1>5, <1>7, <2>1, NoOpsOK DEF AgentTypes
<1>9. torn' = FALSE => ModelFits(chatState'.agent, chatState'.model)
  BY <1>1, <1>5, <1>7 DEF AgentIInv, ModelKnows
<1> QED BY <1>1, <1>2, <1>3, <1>7, <1>8, <1>9, NoOpsOK
        DEF AgentIInv, AgentHomes, AgentOps, ModelKnows, AgentKnows, EffortFits, ChatFits,
            BetweenNoWrites, AgentWriting, ModelWriting, ModelFits

\* What a dialog cannot put back, and a lost answer, leave the two apart.
LEMMA DialogLostOK ==
  ASSUME AgentModelAssumption, AgentIInv, DialogCannotPutBack \/ DialogAnswerLost
  PROVE  AgentIInv'
<1>1. /\ UNCHANGED <<chatCopy, busyTurn, remembered, lastPlain, migration, choices>>
      /\ torn' = TRUE /\ AgentTypes
      /\ chatState \in ChatRecs /\ chatState # NoChatState /\ modelOp \in ModelRecs
  BY DEF DialogCannotPutBack, DialogAnswerLost, AgentIInv, AgentTypes, AgentHomes, ModelWriting
<1>2. CASE DialogCannotPutBack
  <2>1. modelOp' = NoModelOp /\ UNCHANGED <<chatState, agentOp, effortOp>>
    BY <1>2 DEF DialogCannotPutBack
  <2>2. AgentTypes'
    BY <1>1, <2>1, NoOpsOK DEF AgentTypes
  <2> QED BY <1>1, <2>1, <2>2, NoOpsOK
          DEF AgentIInv, AgentHomes, AgentOps, ModelKnows, AgentKnows, EffortFits, ChatFits,
              AgentWriting, ModelWriting, ModelFits
<1>3. CASE DialogAnswerLost
  <2>1. agentOp' = Apart(agentOp, AgentWriting)
    BY <1>3 DEF DialogAnswerLost
  <2>2. /\ agentOp' \in AgentRecs /\ agentOp'.stage = agentOp.stage /\ agentOp'.to = agentOp.to
        /\ agentOp'.model = agentOp.model
        /\ agentOp'.stage \in {"agent", "model"} => agentOp'.clean = FALSE
    BY <1>1, <2>1, ApartOK
  <2>3. CASE modelOp.stage = "agent"
    <3>1. /\ chatState' = [chatState EXCEPT !.agent = modelOp.to] /\ modelOp' = NoModelOp
          /\ UNCHANGED effortOp
      BY <1>3, <2>3 DEF DialogAnswerLost
    <3>2. modelOp.to \in Agents
      BY <2>3 DEF AgentIInv, AgentOps
    <3>3. /\ chatState' \in ChatRecs /\ chatState' # NoChatState
          /\ chatState'.model = chatState.model
      BY <1>1, <3>1, <3>2, ChatSwitched, ChatIsNotHome
    <3>4. AgentTypes'
      BY <1>1, <2>2, <3>1, <3>3, NoOpsOK DEF AgentTypes
    <3> QED BY <1>1, <2>2, <3>1, <3>3, <3>4, NoOpsOK
            DEF AgentIInv, AgentHomes, AgentOps, ModelKnows, AgentKnows, EffortFits, ChatFits,
                AgentWriting, ModelWriting, ModelFits
  <2>4. CASE modelOp.stage = "model"
    <3>1. /\ chatState' = [chatState EXCEPT !.model = modelOp.model]
          /\ modelOp' = Back(modelOp) /\ effortOp' = EffortApart
      BY <1>3, <2>4 DEF DialogAnswerLost
    <3>2. modelOp.model \in Refs
      BY <2>4 DEF AgentIInv, AgentOps, ModelWriting
    <3>3. /\ chatState' \in ChatRecs /\ chatState' # NoChatState
      BY <1>1, <3>1, <3>2, ChatSwitched, ChatIsNotHome
    <3>4. /\ effortOp' \in EffortRecs /\ effortOp'.stage = effortOp.stage
          /\ effortOp'.model = effortOp.model
          /\ effortOp'.stage = "write" => effortOp'.late = TRUE
      BY <1>1, <3>1, EffortApartOK
    <3>5. /\ modelOp' \in ModelRecs /\ modelOp'.stage \in {"none", "back"}
          /\ modelOp'.stage = "back" =>
               modelOp'.model = modelOp.model /\ modelOp'.before = modelOp.before
      BY <1>1, <3>1, NoOpsOK DEF Back, ModelRecs
    <3>6. AgentTypes'
      BY <1>1, <2>2, <3>3, <3>4, <3>5 DEF AgentTypes
    <3> QED BY <1>1, <2>2, <2>4, <3>3, <3>4, <3>5, <3>6
            DEF AgentIInv, AgentHomes, AgentOps, ModelKnows, AgentKnows, EffortFits, ChatFits,
                AgentWriting, ModelWriting, ModelFits
  <2> QED BY <1>3, <2>3, <2>4 DEF DialogAnswerLost
<1> QED BY <1>2, <1>3

\* The choice of an agent begins, ends without one, and fails.
LEMMA AgentChoiceOK ==
  ASSUME AgentModelAssumption, AgentIInv, StartAgentSwitch \/ AgentSwitchEnds \/ SwitchFailed
  PROVE  AgentIInv'
<1> DEFINE t == torn \/ agentOp.stage = "model"
<1>1. /\ UNCHANGED <<chatState, chatCopy, busyTurn, modelOp, effortOp, remembered, lastPlain,
                     migration>>
      /\ choices' \in {choices, choices + 1} /\ AgentTypes
  BY DEF StartAgentSwitch, AgentSwitchEnds, SwitchFailed, AgentIInv
<1>2. torn \in BOOLEAN
  BY <1>1 DEF AgentTypes
<1>3. t \in BOOLEAN /\ (t = FALSE => torn = FALSE /\ agentOp.stage # "model")
  BY <1>2, Zenon
<1>4. /\ torn' \in BOOLEAN
      /\ torn' = FALSE => torn = FALSE /\ agentOp.stage # "model"
  <2>1. CASE SwitchFailed
    <3>1. torn' = t
      BY <2>1 DEF SwitchFailed
    <3> QED BY <1>3, <3>1
  <2>2. CASE StartAgentSwitch \/ AgentSwitchEnds
    BY <1>2, <2>2 DEF StartAgentSwitch, AgentSwitchEnds
  <2> QED BY <2>1, <2>2
<1> HIDE DEF t
<1>5. /\ agentOp' \in AgentRecs /\ agentOp'.stage \in {"none", "picking"}
      /\ agentOp'.stage = "picking" => chatCopy # NoChatState
  <2>1. CASE StartAgentSwitch
    <3>1. agentOp' = [NoAgentOp EXCEPT !.stage = "picking"] /\ chatCopy # NoChatState
      BY <2>1 DEF StartAgentSwitch
    <3> QED BY <3>1, NoOpsOK DEF AgentRecs
  <2>2. CASE AgentSwitchEnds \/ SwitchFailed
    BY <2>2, NoOpsOK DEF AgentSwitchEnds, SwitchFailed
  <2> QED BY <2>1, <2>2
<1>6. AgentTypes'
  BY <1>1, <1>4, <1>5 DEF AgentTypes
<1> QED BY <1>1, <1>4, <1>5, <1>6
        DEF AgentIInv, AgentHomes, AgentOps, ModelKnows, AgentKnows, EffortFits, ChatFits,
            BetweenNoWrites, AgentWriting, ModelWriting, ModelFits

\* The agent that is picked fits the model that goes with it, or the one there is.
LEMMA AgentPickedOK ==
  ASSUME AgentModelAssumption, AgentIInv, NEW to \in {"build", "narrator"}, PickAgent(to)
  PROVE  AgentIInv'
<1> DEFINE from == Visible(chatCopy.agent)
           model == ModelForAgentSwitch(from, to, chatCopy.model)
           b == chatCopy = chatState /\ ~ModelWriting /\ migration # "sent"
                /\ (from = "narrator" => model # NoRef)
<1>1. /\ UNCHANGED <<chatState, chatCopy, busyTurn, modelOp, effortOp, lastPlain, migration,
                     torn, choices>>
      /\ AgentTypes /\ agentOp.stage = "picking"
      /\ agentOp' = [stage |-> "agent", to |-> to, model |-> model, clean |-> b]
      /\ remembered' = IF model # NoRef /\ to = "narrator" THEN chatCopy.model ELSE remembered
  BY DEF PickAgent, AgentIInv
<1>2. chatCopy # NoChatState /\ chatCopy.agent \in Agents /\ chatCopy.model \in Refs
  <2>1. chatCopy \in ChatRecs /\ chatCopy # NoChatState
    BY <1>1 DEF AgentIInv, AgentHomes, AgentTypes
  <2> QED BY <2>1, ChatIsNotHome
<1>3. /\ model \in Refs \cup {NoRef}
      /\ model # NoRef => ModelFits(to, model)
      /\ to = "narrator" /\ model # NoRef => chatCopy.model # DndModel
      /\ to = "narrator" /\ model = NoRef => chatCopy.model = DndModel
  BY <1>1, <1>2, NarratorFits DEF AgentTypes, ModelForAgentSwitch, ModelFits, Refs
<1>4. from = "narrator" <=> chatCopy.agent = "narrator"
  BY DEF Visible
<1>5. b \in BOOLEAN /\ (b = TRUE => /\ chatCopy = chatState /\ ~ModelWriting
                                    /\ from = "narrator" => model # NoRef)
  BY Zenon
<1> HIDE DEF from, model, b
<1>6. /\ agentOp' \in AgentRecs /\ agentOp'.stage = "agent" /\ agentOp'.to = to
      /\ agentOp'.model = model /\ agentOp'.clean = b
  BY <1>1, <1>3, <1>5 DEF AgentRecs, Agents
<1>7. remembered' \in PlainModels \cup {NoRef}
  BY <1>1, <1>2, <1>3 DEF AgentTypes, Refs
<1>8. AgentTypes'
  BY <1>1, <1>6, <1>7 DEF AgentTypes
<1>9. torn = FALSE /\ b = TRUE /\ model = NoRef => ModelFits(to, chatState.model)
  <2> SUFFICES ASSUME torn = FALSE, b = TRUE, model = NoRef
               PROVE  ModelFits(to, chatState.model)
    OBVIOUS
  <2>1. ModelFits(chatState.agent, chatState.model)
    BY <1>1, <1>5 DEF AgentIInv, ChatFits, BetweenNoWrites, ModelWriting
  <2>2. chatState.agent # "narrator" /\ chatCopy = chatState
    BY <1>4, <1>5
  <2> QED BY <1>3, <2>1, <2>2 DEF ModelFits
<1> QED BY <1>1, <1>2, <1>3, <1>6, <1>8, <1>9
        DEF AgentIInv, AgentHomes, AgentOps, ModelKnows, AgentKnows, EffortFits, ChatFits,
            BetweenNoWrites, AgentWriting, ModelWriting, ModelFits

\* The agent is switched, and then its model.
LEMMA AgentSwitchedOK ==
  ASSUME AgentModelAssumption, AgentIInv, SwitchAgent \/ SwitchItsModel
  PROVE  AgentIInv'
<1>1. /\ UNCHANGED <<chatCopy, busyTurn, lastPlain, migration, choices>>
      /\ modelOp' = Apart(modelOp, ModelWriting) /\ AgentTypes /\ AgentWriting
      /\ chatState \in ChatRecs /\ chatState # NoChatState /\ agentOp \in AgentRecs
      /\ agentOp.to \in {"build", "narrator"}
  BY DEF SwitchAgent, SwitchItsModel, AgentIInv, AgentTypes, AgentHomes, AgentOps, AgentWriting
<1>2. /\ modelOp' \in ModelRecs /\ modelOp'.stage = modelOp.stage /\ modelOp'.to = modelOp.to
      /\ modelOp'.model = modelOp.model /\ modelOp'.before = modelOp.before
      /\ modelOp'.stage \in {"agent", "model", "back"} => modelOp'.clean = FALSE
  BY <1>1, ApartOK
<1>3. torn \in BOOLEAN /\ agentOp.clean \in BOOLEAN
  BY <1>1 DEF AgentTypes, AgentRecs
<1>4. CASE SwitchAgent
  <2> DEFINE t == torn \/ (agentOp.model = NoRef /\ (~agentOp.clean \/ ModelWriting))
  <2>1. /\ agentOp.stage = "agent" /\ chatState' = [chatState EXCEPT !.agent = agentOp.to]
        /\ UNCHANGED <<effortOp, remembered>> /\ torn' = t
        /\ agentOp' = IF agentOp.model = NoRef THEN NoAgentOp
                      ELSE [agentOp EXCEPT !.stage = "model"]
    BY <1>4 DEF SwitchAgent
  <2>2. /\ t \in BOOLEAN
        /\ t = FALSE => torn = FALSE
        /\ t = FALSE /\ agentOp.model = NoRef => agentOp.clean = TRUE /\ ~ModelWriting
    BY <1>3, Zenon
  <2> HIDE DEF t
  <2>3. /\ chatState' \in ChatRecs /\ chatState' # NoChatState
        /\ chatState'.agent = agentOp.to /\ chatState'.model = chatState.model
    <3>1. agentOp.to \in Agents /\ chatState.model \in Refs
      BY <1>1, ChatIsNotHome DEF Agents
    <3> QED BY ZenonT(40), <1>1, <2>1, <3>1, ChatSwitched
  <2>4. CASE agentOp.model = NoRef
    <3>1. agentOp' = NoAgentOp
      BY <2>1, <2>4
    <3>2. AgentTypes'
      BY <1>1, <1>2, <2>1, <2>2, <2>3, <3>1, NoOpsOK DEF AgentTypes
    <3>3. torn' = FALSE => ModelFits(chatState'.agent, chatState'.model)
      BY <2>1, <2>2, <2>3, <2>4 DEF AgentIInv, AgentKnows
    <3> QED BY <1>1, <1>2, <2>1, <2>2, <2>3, <3>1, <3>2, <3>3, NoOpsOK
            DEF AgentIInv, AgentHomes, AgentOps, ModelKnows, AgentKnows, EffortFits, ChatFits,
                BetweenNoWrites, AgentWriting, ModelWriting, ModelFits
  <2>5. CASE agentOp.model # NoRef
    <3>1. agentOp' = [agentOp EXCEPT !.stage = "model"]
      BY <2>1, <2>5
    <3>2. /\ agentOp' \in AgentRecs /\ agentOp'.stage = "model" /\ agentOp'.to = agentOp.to
          /\ agentOp'.model = agentOp.model
      BY <1>1, <3>1 DEF AgentRecs
    <3>3. AgentTypes'
      BY <1>1, <1>2, <2>1, <2>2, <2>3, <3>2 DEF AgentTypes
    <3>4. chatCopy # NoChatState
      BY <2>1 DEF AgentIInv, AgentHomes
    <3> QED BY <1>1, <1>2, <2>1, <2>2, <2>3, <2>5, <3>2, <3>3, <3>4
            DEF AgentIInv, AgentHomes, AgentOps, ModelKnows, AgentKnows, EffortFits, ChatFits,
                BetweenNoWrites, AgentWriting, ModelWriting, ModelFits
  <2> QED BY <2>4, <2>5
<1>5. CASE SwitchItsModel
  <2> DEFINE t == torn \/ ~agentOp.clean \/ ModelWriting
  <2>1. /\ agentOp.stage = "model" /\ chatState' = [chatState EXCEPT !.model = agentOp.model]
        /\ effortOp' = EffortApart /\ torn' = t /\ agentOp' = NoAgentOp
        /\ remembered' \in {remembered, NoRef}
    BY <1>5 DEF SwitchItsModel
  <2>2. t \in BOOLEAN /\ (t = FALSE => torn = FALSE /\ agentOp.clean = TRUE /\ ~ModelWriting)
    BY <1>3, Zenon
  <2> HIDE DEF t
  <2>3. /\ effortOp' \in EffortRecs /\ effortOp'.stage = effortOp.stage
        /\ effortOp'.model = effortOp.model
        /\ effortOp'.stage = "write" => effortOp'.late = TRUE
    BY <1>1, <2>1, EffortApartOK
  <2>4. agentOp.model # NoRef /\ agentOp.model \in Refs /\ ModelFits(agentOp.to, agentOp.model)
    BY <1>1, <2>1 DEF AgentIInv, AgentOps, AgentRecs
  <2>5. /\ chatState' \in ChatRecs /\ chatState' # NoChatState
        /\ chatState'.agent = chatState.agent /\ chatState'.model = agentOp.model
    BY <1>1, <2>1, <2>4, ChatSwitched, ChatIsNotHome
  <2>6. AgentTypes'
    BY <1>1, <1>2, <2>1, <2>2, <2>3, <2>5, NoOpsOK DEF AgentTypes
  <2>7. torn' = FALSE => ModelFits(chatState'.agent, chatState'.model)
    BY <2>1, <2>2, <2>4, <2>5 DEF AgentIInv, AgentKnows
  <2> QED BY <1>1, <1>2, <2>1, <2>2, <2>3, <2>5, <2>6, <2>7, NoOpsOK
          DEF AgentIInv, AgentHomes, AgentOps, ModelKnows, AgentKnows, EffortFits, ChatFits,
              BetweenNoWrites, AgentWriting, ModelWriting, ModelFits
<1> QED BY <1>4, <1>5

\* A session of the hidden agent is migrated.
LEMMA MigrationOK ==
  ASSUME AgentModelAssumption, AgentIInv, Migrate \/ \E copied \in BOOLEAN : Migrated(copied)
  PROVE  AgentIInv'
<1>1. /\ UNCHANGED <<chatCopy, busyTurn, effortOp, remembered, lastPlain, choices>>
      /\ AgentTypes /\ chatState \in ChatRecs /\ chatCopy \in ChatRecs
  BY DEF Migrate, Migrated, AgentIInv, AgentTypes
<1>2. CASE Migrate
  <2>1. /\ UNCHANGED <<chatState, modelOp, torn>> /\ migration' = "sent"
        /\ agentOp' = Apart(agentOp, AgentWriting) /\ chatCopy.agent = "legacy"
    BY <1>2 DEF Migrate
  <2>2. /\ agentOp' \in AgentRecs /\ agentOp'.stage = agentOp.stage /\ agentOp'.to = agentOp.to
        /\ agentOp'.model = agentOp.model
        /\ agentOp'.stage \in {"agent", "model"} => agentOp'.clean = FALSE
    BY <1>1, <2>1, ApartOK
  <2>3. chatState # NoChatState
    BY <2>1, NoOpsOK, NarratorFits DEF AgentIInv, AgentHomes, Agents
  <2>4. AgentTypes'
    BY <1>1, <2>1, <2>2 DEF AgentTypes
  <2> QED BY <1>1, <2>1, <2>2, <2>3, <2>4
          DEF AgentIInv, AgentHomes, AgentOps, ModelKnows, AgentKnows, EffortFits, ChatFits,
              BetweenNoWrites, AgentWriting, ModelWriting, ModelFits
<1>3. CASE Migrated(FALSE)
  <2>1. UNCHANGED <<chatState, torn, agentOp, modelOp>> /\ migration' = "done"
    BY <1>3 DEF Migrated
  <2>2. AgentTypes'
    BY <1>1, <2>1 DEF AgentTypes
  <2> QED BY <1>1, <2>1, <2>2
          DEF AgentIInv, AgentHomes, AgentOps, ModelKnows, AgentKnows, EffortFits, ChatFits,
              BetweenNoWrites, AgentWriting, ModelWriting, ModelFits
<1>4. CASE Migrated(TRUE)
  <2> DEFINE t == torn \/ chatState.agent = "narrator"
  <2>1. /\ chatState' = [chatState EXCEPT !.agent = "build"] /\ migration = "sent"
        /\ torn' = t /\ migration' = "done"
        /\ agentOp' = Apart(agentOp, AgentWriting) /\ modelOp' = Apart(modelOp, ModelWriting)
    BY <1>4 DEF Migrated
  <2>2. torn \in BOOLEAN
    BY <1>1 DEF AgentTypes
  <2>3. t \in BOOLEAN /\ (t = FALSE => torn = FALSE /\ chatState.agent # "narrator")
    BY <2>2, Zenon
  <2> HIDE DEF t
  <2>4. /\ agentOp' \in AgentRecs /\ agentOp'.stage = agentOp.stage /\ agentOp'.to = agentOp.to
        /\ agentOp'.model = agentOp.model
        /\ agentOp'.stage \in {"agent", "model"} => agentOp'.clean = FALSE
        /\ modelOp' \in ModelRecs /\ modelOp'.stage = modelOp.stage /\ modelOp'.to = modelOp.to
        /\ modelOp'.model = modelOp.model /\ modelOp'.before = modelOp.before
        /\ modelOp'.stage \in {"agent", "model", "back"} => modelOp'.clean = FALSE
    BY <1>1, <2>1, ApartOK
  <2>5. chatState # NoChatState
    BY <2>1 DEF AgentIInv, AgentHomes
  <2>6. /\ chatState' \in ChatRecs /\ chatState' # NoChatState
        /\ chatState'.agent = "build" /\ chatState'.model = chatState.model
    BY <1>1, <2>1, <2>5, ChatSwitched, ChatIsNotHome DEF Agents
  <2>7. AgentTypes'
    BY <1>1, <2>1, <2>3, <2>4, <2>6 DEF AgentTypes
  <2>8. torn' = FALSE /\ BetweenNoWrites => ModelFits(chatState'.agent, chatState'.model)
    BY <2>1, <2>3, <2>6 DEF AgentIInv, ChatFits, ModelFits
  <2> QED BY <1>1, <2>1, <2>4, <2>6, <2>7, <2>8
          DEF AgentIInv, AgentHomes, AgentOps, ModelKnows, AgentKnows, EffortFits, ChatFits,
              BetweenNoWrites, AgentWriting, ModelWriting, ModelFits
<1>5. Migrate \/ Migrated(TRUE) \/ Migrated(FALSE)
  OBVIOUS
<1> QED BY <1>2, <1>3, <1>4, <1>5

\* The dialog of the effort opens, chooses and ends.
LEMMA EffortDialogOK ==
  ASSUME AgentModelAssumption, AgentIInv, OpenEffort \/ ChooseEffort \/ EffortEnds
  PROVE  AgentIInv'
<1>1. /\ UNCHANGED <<chatState, chatCopy, busyTurn, agentOp, modelOp, remembered, lastPlain,
                     migration, torn>>
      /\ choices' \in {choices, choices + 1} /\ AgentTypes
      /\ chatCopy \in ChatRecs /\ effortOp \in EffortRecs
  BY DEF OpenEffort, ChooseEffort, EffortEnds, AgentIInv, AgentTypes
<1>2. /\ effortOp' \in EffortRecs
      /\ effortOp'.stage # "none" => chatCopy # NoChatState /\ effortOp'.model \in Refs
      /\ effortOp'.stage = "write" /\ ~effortOp'.late => effortOp'.model = chatState.model
  <2>1. CASE OpenEffort
    <3>1. /\ effortOp' = [stage |-> "open", model |-> chatCopy.model, late |-> FALSE]
          /\ chatCopy # NoChatState
      BY <2>1 DEF OpenEffort
    <3>2. chatCopy.model \in Refs
      BY <1>1, <3>1, ChatIsNotHome
    <3> QED BY <3>1, <3>2 DEF EffortRecs
  <2>2. CASE EffortEnds
    BY <2>2, NoOpsOK DEF EffortEnds
  <2>3. CASE ChooseEffort /\ ~StillOffered(effortOp)
    BY <2>3, NoOpsOK DEF ChooseEffort
  <2>4. CASE ChooseEffort /\ StillOffered(effortOp)
    <3> DEFINE late == chatCopy # chatState
    <3>1. /\ effortOp' = [effortOp EXCEPT !.stage = "write", !.late = late]
          /\ effortOp.stage = "open" /\ chatCopy.model = effortOp.model
      BY <2>4 DEF ChooseEffort, StillOffered
    <3>2. late \in BOOLEAN /\ (late = FALSE => chatCopy = chatState)
      BY Zenon
    <3> HIDE DEF late
    <3>3. /\ effortOp' \in EffortRecs /\ effortOp'.model = effortOp.model
          /\ effortOp'.late = late
      BY <1>1, <3>1, <3>2 DEF EffortRecs
    <3>4. chatCopy # NoChatState /\ effortOp.model \in Refs
      BY <3>1 DEF AgentIInv, AgentHomes, AgentOps
    <3> QED BY <3>1, <3>2, <3>3, <3>4
  <2> QED BY <2>1, <2>2, <2>3, <2>4
<1>3. AgentTypes'
  BY <1>1, <1>2 DEF AgentTypes
<1> QED BY <1>1, <1>2, <1>3
        DEF AgentIInv, AgentHomes, AgentOps, ModelKnows, AgentKnows, EffortFits, ChatFits,
            BetweenNoWrites, AgentWriting, ModelWriting, ModelFits

\* The effort is sent as a switch to its model.
LEMMA EffortSentOK ==
  ASSUME AgentModelAssumption, AgentIInv, SwitchEffort
  PROVE  AgentIInv'
<1> DEFINE t == torn \/ effortOp.model # chatState.model
<1>1. /\ UNCHANGED <<chatCopy, busyTurn, agentOp, modelOp, remembered, lastPlain, migration,
                     choices>>
      /\ AgentTypes /\ chatState \in ChatRecs /\ torn \in BOOLEAN
      /\ effortOp.stage = "write" /\ chatState' = [chatState EXCEPT !.model = effortOp.model]
      /\ torn' = t /\ effortOp' = NoEffortOp
  BY DEF SwitchEffort, AgentIInv, AgentTypes
<1>2. t \in BOOLEAN /\ (t = FALSE => torn = FALSE /\ effortOp.model = chatState.model)
  BY <1>1, Zenon
<1> HIDE DEF t
<1>3. chatState # NoChatState /\ effortOp.model \in Refs
  BY <1>1 DEF AgentIInv, AgentHomes, AgentOps
<1>4. /\ chatState' \in ChatRecs /\ chatState' # NoChatState
      /\ chatState'.agent = chatState.agent /\ chatState'.model = effortOp.model
  BY <1>1, <1>3, ChatSwitched, ChatIsNotHome
<1>5. AgentTypes'
  BY <1>1, <1>2, <1>4, NoOpsOK DEF AgentTypes
<1> QED BY <1>1, <1>2, <1>4, <1>5, NoOpsOK
        DEF AgentIInv, AgentHomes, AgentOps, ModelKnows, AgentKnows, EffortFits, ChatFits,
            BetweenNoWrites, AgentWriting, ModelWriting, ModelFits

\* The terminal's copy follows, and turns begin and end.
LEMMA AgentCopyOK ==
  ASSUME AgentModelAssumption, AgentIInv, CopyFollows \/ TurnStartsOrEnds
  PROVE  AgentIInv'
<1>1. /\ UNCHANGED <<chatState, agentOp, modelOp, effortOp, remembered, lastPlain, migration,
                     torn, choices>>
      /\ chatCopy' = chatState \/ chatCopy' = chatCopy
      /\ busyTurn' = busyTurn \/ busyTurn' = ~busyTurn
  BY DEF CopyFollows, TurnStartsOrEnds
<1>2. busyTurn' \in BOOLEAN
  BY <1>1 DEF AgentIInv, AgentTypes
<1>3. AgentTypes'
  BY <1>1, <1>2 DEF AgentIInv, AgentTypes
<1> QED BY <1>1, <1>3
        DEF AgentIInv, AgentHomes, AgentOps, ModelKnows, AgentKnows, EffortFits, ChatFits,
            BetweenNoWrites, AgentWriting, ModelWriting, ModelFits

\* A session whose agent runs its own model, and no operation.
LEMMA AgentInitOK ==
  ASSUME AgentModelAssumption, AgentModelInit
  PROVE  AgentIInv
<1>1. PICK m \in PlainModels :
        chatState \in {NoChatState, [agent |-> "legacy", model |-> m],
                       [agent |-> "build", model |-> m],
                       [agent |-> "narrator", model |-> DndModel]}
  BY DEF AgentModelInit
<1>2. /\ m \in Refs /\ DndModel \in Refs /\ m # DndModel
      /\ "legacy" \in Agents /\ "build" \in Agents /\ "narrator" \in Agents
  BY NarratorFits DEF Refs, Agents
<1>3. chatState \in ChatRecs /\ ModelFits(chatState.agent, chatState.model)
  <2>1. CASE chatState = NoChatState
    BY <2>1, NoOpsOK, NarratorFits
  <2>2. CASE chatState = [agent |-> "legacy", model |-> m]
    BY <1>2, <2>2, ChatMade DEF ModelFits
  <2>3. CASE chatState = [agent |-> "build", model |-> m]
    BY <1>2, <2>3, ChatMade DEF ModelFits
  <2>4. CASE chatState = [agent |-> "narrator", model |-> DndModel]
    BY <1>2, <2>4, ChatMade DEF ModelFits
  <2> QED BY <1>1, <2>1, <2>2, <2>3, <2>4
<1>4. lastPlain \in PlainModels \cup {NoRef}
  BY AgentModelAssumption DEF AgentModelInit, AgentModelAssumption
<1>5. AgentTypes
  BY <1>3, <1>4, NoOpsOK DEF AgentModelInit, AgentTypes
<1> QED BY <1>3, <1>5, NoOpsOK, NarratorFits
        DEF AgentModelInit, AgentIInv, AgentHomes, AgentOps, ModelKnows, AgentKnows,
            EffortFits, ChatFits, BetweenNoWrites, AgentWriting, ModelWriting, ModelFits

\* Every step of the terminal keeps the invariant.
LEMMA AgentStepOK ==
  ASSUME AgentModelAssumption, AgentIInv, [AgentModelNext]_agentVars
  PROVE  AgentIInv'
<1>1. CASE AgentModelNext
  BY <1>1, AgentCopyOK, DialogOpensOK, HomeChoiceOK, ModelChosenOK, DialogAgentOK,
     DialogModelOK, DialogLostOK, AgentChoiceOK, AgentPickedOK, AgentSwitchedOK, MigrationOK,
     EffortDialogOK, EffortSentOK
  DEF AgentModelNext
<1>2. CASE UNCHANGED agentVars
  BY <1>2
  DEF agentVars, AgentIInv, AgentTypes, AgentHomes, AgentOps, ModelKnows, AgentKnows,
      EffortFits, ChatFits, BetweenNoWrites, AgentWriting, ModelWriting, ModelFits
<1> QED BY <1>1, <1>2

\* The invariant says what a session runs under.
LEMMA AgentFits ==
  ASSUME AgentModelAssumption, AgentIInv
  PROVE  AgentFitsModel
<1>1. torn \in BOOLEAN
  BY DEF AgentIInv, AgentTypes
<1>2. ~AgentWriting /\ ~ModelWriting => BetweenNoWrites
  BY DEF AgentWriting, ModelWriting, BetweenNoWrites
<1> QED BY <1>1, <1>2 DEF AgentIInv, ChatFits, ModelFits, AgentFitsModel, Coherent

\* The narrator runs its own model and no other agent does once no operation is
\* under way, and an effort is sent with the session's model (agent-sync.js).
THEOREM AgentsFitTheirModels == AgentModelSpec => []AgentFitsModel
<1>1. AgentModelInit => AgentIInv
  BY AgentInitOK, AgentModelAssumption
<1>2. AgentIInv /\ [AgentModelNext]_agentVars => AgentIInv'
  BY AgentStepOK, AgentModelAssumption
<1>3. AgentIInv => AgentFitsModel
  BY AgentFits, AgentModelAssumption
<1> QED BY <1>1, <1>2, <1>3, PTL DEF AgentModelSpec

-----------------------------------------------------------------------------
(* The MCP exposure (McpExposure).  A request shows the profile of the      *)
(* nearest session with a choice, and what mcp_discover promised.           *)

Labels == McpProfiles \cup {Unset, DndLazy}
SnapshotRecs == [session : Callers, definitions : SUBSET McpTools,
                 selected : SUBSET McpTools, profile : Labels]
HookRecs == [at : {"none", "observe", "observed", "mode"}, tools : SUBSET McpTools,
             game : BOOLEAN, reached : Callers \cup {NoCaller},
             seen : [Callers -> McpProfiles \cup {Unset}]]
ShownRecs == [profile : Labels, wanted : SUBSET Labels, tools : SUBSET McpTools]
PromiseRecs == [tools : SUBSET McpTools, profile : Labels, due : BOOLEAN]

Remembers(d) ==
  \E n \in 0..MaxKnown :
    /\ DOMAIN d = 1..n
    /\ \A i \in 1..n : d[i] \in SnapshotRecs
    /\ \A i, j \in 1..n : d[i].session = d[j].session => i = j

\* The walk has asked W and found nothing, and stands at t.
Walked(s, t, c) ==
  \E W \in SUBSET Callers :
    /\ \A u \in W : c[u] = Unset /\ ParentOf[u] \in W \cup {t}
    /\ s \in W \cup {t}

ExposureTypes ==
  /\ chosenMcp \in [Callers -> McpProfiles \cup {Unset}]
  /\ connected \subseteq McpTools /\ enabled \subseteq McpTools
  /\ request \in [Callers -> HookRecs]
  /\ exposure \in [Callers -> ShownRecs]
  /\ promised \in [Callers -> PromiseRecs]
  /\ Remembers(discoveries)
Walks ==
  \A s \in Callers : request[s].at = "mode" =>
    request[s].game = FALSE /\ Walked(s, request[s].reached, request[s].seen)
\* A promise is part of the working set of its session.
Backed(d, p) ==
  /\ \A s \in Callers : (\A i \in DOMAIN d : d[i].session # s) => p[s].tools = {}
  /\ \A i \in DOMAIN d : p[d[i].session].tools \subseteq d[i].selected

ExposureIInv ==
  ExposureTypes /\ Walks /\ Backed(discoveries, promised) /\ ShownIsInherited /\ PromiseKept

\* An idle hook, no promise and nothing shown.
LEMMA ExposureConstants ==
  ASSUME McpExposureAssumption
  PROVE  /\ NoRequest \in HookRecs /\ NoRequest.at = "none"
         /\ NoPromise \in PromiseRecs /\ NoPromise.tools = {}
         /\ NothingShown \in ShownRecs /\ NothingShown.wanted = {} /\ NothingShown.tools = {}
<1>1. [s \in Callers |-> Unset] \in [Callers -> McpProfiles \cup {Unset}]
  OBVIOUS
<1>. QED
  BY <1>1, Zenon DEF NoRequest, NoPromise, NothingShown, HookRecs, PromiseRecs, ShownRecs, Labels

\* The first state.
LEMMA ExposureInitOK ==
  ASSUME McpExposureAssumption, ExposureInit
  PROVE  ExposureIInv
<1>. USE ExposureConstants
<1>1. Remembers(discoveries) /\ DOMAIN discoveries = {}
  <2>1. discoveries = <<>> /\ DOMAIN discoveries = 1..0 /\ 1..0 = {} /\ 0 \in 0..MaxKnown
    BY DEF ExposureInit, McpExposureAssumption
  <2>. QED
    BY <2>1 DEF Remembers
<1>2. \A s \in Callers : request[s] = NoRequest /\ exposure[s] = NothingShown
                           /\ promised[s] = NoPromise
  BY DEF ExposureInit
<1>3. ExposureTypes
  BY <1>1 DEF ExposureTypes, ExposureInit, McpExposureAssumption
<1>4. Walks /\ ShownIsInherited /\ PromiseKept
  BY <1>2 DEF Walks, ShownIsInherited, PromiseKept
<1>5. Backed(discoveries, promised)
  BY <1>1, <1>2 DEF Backed
<1>. QED
  BY <1>3, <1>4, <1>5 DEF ExposureIInv

\* The snapshot of a known session is its only one.
LEMMA SnapshotIs ==
  ASSUME Remembers(discoveries), NEW s \in Callers, Known(s)
  PROVE  /\ Snapshot(s) \in SnapshotRecs /\ Snapshot(s).session = s
         /\ \A i \in DOMAIN discoveries : discoveries[i].session = s => discoveries[i] = Snapshot(s)
         /\ \E i \in DOMAIN discoveries : discoveries[i] = Snapshot(s)
<1>1. PICK n \in 0..MaxKnown :
        /\ DOMAIN discoveries = 1..n
        /\ \A i \in 1..n : discoveries[i] \in SnapshotRecs
        /\ \A i, j \in 1..n : discoveries[i].session = discoveries[j].session => i = j
  BY DEF Remembers
<1>2. PICK k : k = (CHOOSE i \in StepSnapshots(s) : TRUE) /\ k \in StepSnapshots(s)
  BY DEF Known
<1>3. k \in 1..n /\ discoveries[k].session = s /\ Snapshot(s) = discoveries[k]
  BY <1>1, <1>2 DEF StepSnapshots, Snapshot
<1>. QED
  BY <1>1, <1>3

\* Remember puts the snapshot in and keeps, or drops, those of the others.
LEMMA RememberIs ==
  ASSUME McpExposureAssumption, Remembers(discoveries), NEW s \in Callers,
         NEW e \in SnapshotRecs, e.session = s
  PROVE  /\ Remembers(Remember(s, e))
         /\ \E i \in DOMAIN Remember(s, e) : Remember(s, e)[i] = e
         /\ \A i \in DOMAIN Remember(s, e) :
              \/ Remember(s, e)[i] = e
              \/ /\ Remember(s, e)[i].session # s
                 /\ \E j \in DOMAIN discoveries : Remember(s, e)[i] = discoveries[j]
         /\ Known(s) => \A j \in DOMAIN discoveries : \E i \in DOMAIN Remember(s, e) :
                          Remember(s, e)[i].session = discoveries[j].session
<1>1. PICK n \in 0..MaxKnown :
        /\ DOMAIN discoveries = 1..n
        /\ \A i \in 1..n : discoveries[i] \in SnapshotRecs
        /\ \A i, j \in 1..n : discoveries[i].session = discoveries[j].session => i = j
  BY DEF Remembers
<1>2. MaxKnown \in Nat /\ MaxKnown > 0 /\ n \in Nat /\ n <= MaxKnown
  BY DEF McpExposureAssumption
<1>3. \A m \in Nat : Cardinality(1..m) = m
  <2>. SUFFICES ASSUME NEW m \in Nat PROVE Cardinality(1..m) = m
    OBVIOUS
  <2>1. 1 \in Int /\ m \in Int
    OBVIOUS
  <2>2. Cardinality(1..m) = IF 1 > m THEN 0 ELSE m - 1 + 1
    BY <2>1, FS_Interval
  <2>. QED
    BY <2>2
<1>4. Cardinality(DOMAIN discoveries) = n
  BY <1>1, <1>2, <1>3
<1>5. CASE Known(s)
  <2>. DEFINE all == [i \in DOMAIN discoveries |->
                        IF i \in StepSnapshots(s) THEN e ELSE discoveries[i]]
  <2>1. DOMAIN all = 1..n /\ Cardinality(DOMAIN all) = n /\ ~(n > MaxKnown)
    BY <1>1, <1>2, <1>4
  <2>2. Remember(s, e) = all
    BY <1>5, <2>1 DEF Remember
  <2>3. PICK k \in 1..n : discoveries[k].session = s
    BY <1>1, <1>5 DEF Known, StepSnapshots
  <2>4. /\ \A i \in 1..n : discoveries[i].session = s => i = k
        /\ StepSnapshots(s) = {k}
    BY <1>1, <2>3 DEF StepSnapshots
  <2>5. all[k] = e /\ \A i \in 1..n : i # k => all[i] = discoveries[i] /\ discoveries[i].session # s
    BY <1>1, <2>4
  <2>6. \A i \in 1..n : all[i] \in SnapshotRecs /\ all[i].session = discoveries[i].session
    BY <1>1, <2>3, <2>5
  <2>. HIDE DEF all
  <2>7. \A i, j \in 1..n : all[i].session = all[j].session => i = j
    BY <1>1, <2>6
  <2>8. Remembers(all)
    BY <2>1, <2>6, <2>7 DEF Remembers
  <2>. QED
    BY <1>1, <2>1, <2>2, <2>3, <2>5, <2>6, <2>8
<1>6. CASE ~Known(s)
  <2>. DEFINE all == [i \in 1..(n + 1) |-> IF i \in DOMAIN discoveries THEN discoveries[i] ELSE e]
  <2>1. DOMAIN all = 1..(n + 1) /\ Cardinality(DOMAIN all) = n + 1
    BY <1>2, <1>3
  <2>2. Remember(s, e) = IF n + 1 > MaxKnown THEN [i \in 1..MaxKnown |-> all[i + 1]] ELSE all
    <3>1. all = [i \in 1..(Cardinality(DOMAIN discoveries) + 1) |->
                   IF i \in DOMAIN discoveries THEN discoveries[i] ELSE e]
      BY <1>4
    <3>2. Remember(s, e) = IF Cardinality(DOMAIN all) > MaxKnown
                           THEN [i \in 1..MaxKnown |-> all[i + 1]] ELSE all
      BY <1>6, <3>1, Zenon DEF Remember
    <3>. QED
      BY <2>1, <3>2
  <2>3. \A i \in 1..n : discoveries[i].session # s
    BY <1>1, <1>6 DEF Known, StepSnapshots
  <2>4. /\ all[n + 1] = e /\ n + 1 \in 1..(n + 1)
        /\ \A i \in 1..(n + 1) : i # n + 1 => i \in 1..n /\ all[i] = discoveries[i]
    BY <1>1, <1>2
  <2>5. /\ \A i \in 1..(n + 1) : all[i] \in SnapshotRecs
        /\ \A i, j \in 1..(n + 1) : all[i].session = all[j].session => i = j
    BY <1>1, <2>3, <2>4
  <2>. HIDE DEF all
  <2>6. CASE n + 1 > MaxKnown
    <3>1. n = MaxKnown
      BY <1>2, <2>6
    <3>. DEFINE rest == [i \in 1..n |-> all[i + 1]]
    <3>2. Remember(s, e) = rest
      BY <2>2, <2>6, <3>1
    <3>3. \A i \in 1..n : i + 1 \in 1..(n + 1) /\ rest[i] = all[i + 1]
      BY <1>2
    <3>4. DOMAIN rest = 1..n /\ rest[n] = e /\ n \in 1..n
      BY <1>2, <2>4, <3>1, <3>3
    <3>. HIDE DEF rest
    <3>5. \A i \in 1..n : rest[i] \in SnapshotRecs
      BY <2>5, <3>3
    <3>6. \A i, j \in 1..n : rest[i].session = rest[j].session => i = j
      <4>. SUFFICES ASSUME NEW i \in 1..n, NEW j \in 1..n, rest[i].session = rest[j].session
                    PROVE  i = j
        OBVIOUS
      <4>1. i + 1 = j + 1
        BY <2>5, <3>3
      <4>. QED
        BY <1>2, <4>1
    <3>7. \A i \in 1..n : \/ rest[i] = e
                          \/ /\ rest[i].session # s
                             /\ \E j \in 1..n : rest[i] = discoveries[j]
      BY <2>3, <2>4, <3>3
    <3>. QED
      BY <1>1, <1>6, <3>2, <3>4, <3>5, <3>6, <3>7 DEF Remembers
  <2>7. CASE ~(n + 1 > MaxKnown)
    <3>1. n + 1 \in 0..MaxKnown /\ Remember(s, e) = all
      BY <1>2, <2>2, <2>7
    <3>. QED
      BY <1>1, <1>6, <2>1, <2>3, <2>4, <2>5, <3>1 DEF Remembers
  <2>. QED
    BY <2>6, <2>7
<1>. QED
  BY <1>5, <1>6

\* A hook goes on, or ends.
LEMMA HookGoesOn ==
  ASSUME ExposureIInv, NEW s \in Callers, NEW w \in HookRecs,
         w.at = "mode" => w.game = FALSE /\ Walked(s, w.reached, w.seen),
         request' = [request EXCEPT ![s] = w],
         UNCHANGED <<chosenMcp, connected, enabled, discoveries, exposure, promised>>
  PROVE  ExposureIInv'
<1>1. request' \in [Callers -> HookRecs] /\ request'[s] = w
      /\ \A t \in Callers : t # s => request'[t] = request[t]
  BY DEF ExposureIInv, ExposureTypes
<1>2. Walks'
  BY <1>1 DEF ExposureIInv, Walks, Walked
<1>3. ExposureTypes'
  BY <1>1 DEF ExposureIInv, ExposureTypes, Remembers
<1>. QED
  BY <1>2, <1>3 DEF ExposureIInv, Backed, ShownIsInherited, PromiseKept

\* The hook starts, reads the status, starts its walk, and may fail.
LEMMA HookStepsOK ==
  ASSUME McpExposureAssumption, ExposureIInv, NEW s \in Callers,
         (\E game \in BOOLEAN : RequestStarts(s, game)) \/ ObserveMcp(s) \/ ModeFor(s)
           \/ WalkUp(s) \/ HookFails(s)
  PROVE  ExposureIInv'
<1>1. /\ request \in [Callers -> HookRecs] /\ request[s] \in HookRecs
      /\ chosenMcp \in [Callers -> McpProfiles \cup {Unset}] /\ connected \in SUBSET McpTools
  BY DEF ExposureIInv, ExposureTypes
<1>2. CASE \E game \in BOOLEAN : RequestStarts(s, game)
  <2>1. PICK game \in BOOLEAN : RequestStarts(s, game)
    BY <1>2
  <2>. DEFINE place == IF s \in mcpObserved THEN "observed" ELSE "observe"
              w == [NoRequest EXCEPT !.at = place, !.tools = connected, !.game = game]
  <2>2. place \in {"observe", "observed"} /\ NoRequest \in HookRecs
    BY ExposureConstants
  <2>3. /\ request' = [request EXCEPT ![s] = w]
        /\ UNCHANGED <<chosenMcp, connected, enabled, discoveries, exposure, promised>>
    BY <2>1, Zenon DEF RequestStarts
  <2>. HIDE DEF place
  <2>4. w \in HookRecs
    <3>1. \A r \in HookRecs, p \in {"observe", "observed"}, t \in SUBSET McpTools, g \in BOOLEAN :
            [r EXCEPT !.at = p, !.tools = t, !.game = g] \in HookRecs
      BY DEF HookRecs
    <3>. QED
      BY <1>1, <2>2, <3>1, Zenon
  <2>5. w.at = place
    BY Zenon DEF NoRequest
  <2>. HIDE DEF w
  <2>. QED
    BY <2>2, <2>3, <2>4, <2>5, HookGoesOn
<1>3. CASE ObserveMcp(s)
  <2>. DEFINE w == [request[s] EXCEPT !.at = "observed"]
  <2>1. w \in HookRecs /\ w.at = "observed"
    BY <1>1 DEF HookRecs
  <2>2. /\ request' = [request EXCEPT ![s] = w]
        /\ UNCHANGED <<chosenMcp, connected, enabled, discoveries, exposure, promised>>
    BY <1>3, Zenon DEF ObserveMcp
  <2>. HIDE DEF w
  <2>. QED
    BY <2>1, <2>2, HookGoesOn
<1>4. CASE ModeFor(s)
  <2>. DEFINE w == [request[s] EXCEPT !.at = "mode", !.reached = s, !.seen = chosenMcp]
  <2>1. w \in HookRecs /\ w.reached = s /\ w.seen = chosenMcp /\ w.game = request[s].game
    BY <1>1 DEF HookRecs
  <2>2. /\ request' = [request EXCEPT ![s] = w] /\ request[s].game = FALSE
        /\ UNCHANGED <<chosenMcp, connected, enabled, discoveries, exposure, promised>>
    <3>1. request[s].game \in BOOLEAN /\ ~request[s].game
      BY <1>1, <1>4 DEF ModeFor, HookRecs
    <3>2. request' = [request EXCEPT ![s] = w]
      <4>1. request' = [request EXCEPT ![s].at = "mode", ![s].reached = s, ![s].seen = chosenMcp]
        BY <1>4 DEF ModeFor
      <4>. QED
        BY <1>1, <4>1
    <3>. QED
      BY <1>4, <3>1, <3>2, Zenon DEF ModeFor
  <2>3. Walked(s, w.reached, w.seen)
    <3>1. {} \in SUBSET Callers /\ s \in {} \cup {w.reached}
      BY <2>1
    <3>. QED
      BY <3>1 DEF Walked
  <2>. HIDE DEF w
  <2>. QED
    BY <2>1, <2>2, <2>3, HookGoesOn
<1>5. CASE WalkUp(s)
  <2>. DEFINE t == request[s].reached
              w == [request[s] EXCEPT !.reached = ParentOf[t]]
  <2>1. /\ t \in Callers /\ request[s].seen[t] = Unset /\ request[s].at = "mode"
        /\ request[s].game = FALSE
        /\ Walked(s, t, request[s].seen)
    BY <1>1, <1>5 DEF WalkUp, ExposureIInv, Walks, HookRecs
  <2>2. /\ request' = [request EXCEPT ![s] = w]
        /\ UNCHANGED <<chosenMcp, connected, enabled, discoveries, exposure, promised>>
    BY <1>5, Zenon DEF WalkUp, Above
  <2>3. /\ w \in HookRecs /\ w.reached = ParentOf[t] /\ w.seen = request[s].seen
        /\ w.game = request[s].game
    BY <1>1, <2>1 DEF HookRecs, McpExposureAssumption
  <2>4. Walked(s, w.reached, w.seen)
    <3>1. PICK W \in SUBSET Callers :
            /\ \A u \in W : request[s].seen[u] = Unset /\ ParentOf[u] \in W \cup {t}
            /\ s \in W \cup {t}
      BY <2>1 DEF Walked
    <3>2. /\ W \cup {t} \in SUBSET Callers
          /\ \A u \in W \cup {t} : w.seen[u] = Unset
                                   /\ ParentOf[u] \in (W \cup {t}) \cup {w.reached}
          /\ s \in (W \cup {t}) \cup {w.reached}
      BY <2>1, <2>3, <3>1
    <3>. QED
      BY <3>2 DEF Walked
  <2>. HIDE DEF w, t
  <2>. QED
    BY <2>1, <2>2, <2>3, <2>4, HookGoesOn
<1>6. CASE HookFails(s)
  <2>1. /\ request' = [request EXCEPT ![s] = NoRequest]
        /\ UNCHANGED <<chosenMcp, connected, enabled, discoveries, exposure, promised>>
    BY <1>6, Zenon DEF HookFails
  <2>. QED
    BY <2>1, ExposureConstants, HookGoesOn
<1>. QED
  BY <1>2, <1>3, <1>4, <1>5, <1>6

\* Choices and the state of the servers change nothing that was shown.
LEMMA AlterationsOK ==
  ASSUME McpExposureAssumption, ExposureIInv,
         \/ \E s \in Callers, p \in McpProfiles : ChooseProfile(s, p)
         \/ \E t \in McpTools : ToggleHere(t) \/ ToggleElsewhere(t) \/ StatusChanges(t)
  PROVE  ExposureIInv'
<1>1. /\ chosenMcp \in [Callers -> McpProfiles \cup {Unset}]
      /\ connected \subseteq McpTools /\ enabled \subseteq McpTools
  BY DEF ExposureIInv, ExposureTypes
<1>2. /\ UNCHANGED <<discoveries, request, exposure, promised>>
      /\ chosenMcp' \in [Callers -> McpProfiles \cup {Unset}]
      /\ connected' \subseteq McpTools /\ enabled' \subseteq McpTools
  BY <1>1 DEF ChooseProfile, ToggleHere, ToggleElsewhere, ToggleTool, StatusChanges
<1>. QED
  BY ZenonT(40), <1>2 DEF ExposureIInv, ExposureTypes, Walks, Walked, Backed, ShownIsInherited, PromiseKept,
              Remembers

\* reloadAll drops the promises with the discoveries.
LEMMA ReloadAllOK ==
  ASSUME McpExposureAssumption, ExposureIInv, ReloadAll
  PROVE  ExposureIInv'
<1>1. /\ UNCHANGED <<chosenMcp, connected, enabled, request, exposure>>
      /\ discoveries' = <<>> /\ promised' = [s \in Callers |-> NoPromise]
  BY DEF ReloadAll
<1>2. Remembers(discoveries') /\ DOMAIN discoveries' = {}
  <2>1. DOMAIN discoveries' = 1..0 /\ 1..0 = {} /\ 0 \in 0..MaxKnown
    BY <1>1 DEF McpExposureAssumption
  <2>. QED
    BY <2>1 DEF Remembers
<1>3. promised' \in [Callers -> PromiseRecs] /\ \A s \in Callers : promised'[s].tools = {}
  BY <1>1, ExposureConstants
<1>4. Backed(discoveries', promised')
  BY <1>2, <1>3 DEF Backed
<1>5. ExposureTypes'
  BY <1>1, <1>2, <1>3 DEF ExposureIInv, ExposureTypes, Remembers
<1>. QED
  BY <1>1, <1>3, <1>4, <1>5 DEF ExposureIInv, Walks, Walked, Backed, ShownIsInherited, PromiseKept

\* mcp_discover promises the working set it remembers.
LEMMA DiscoverOK ==
  ASSUME McpExposureAssumption, ExposureIInv, NEW s \in Callers, NEW matches \in SUBSET McpTools,
         Discover(s, matches)
  PROVE  ExposureIInv'
<1>1. /\ Remembers(discoveries) /\ Backed(discoveries, promised)
      /\ promised \in [Callers -> PromiseRecs] /\ exposure \in [Callers -> ShownRecs]
  BY DEF ExposureIInv, ExposureTypes
<1>2. Known(s) /\ UNCHANGED <<chosenMcp, connected, enabled, request, exposure>>
  BY DEF Discover
<1>3. Snapshot(s) \in SnapshotRecs /\ Snapshot(s).session = s
  BY <1>1, <1>2, SnapshotIs
<1>. DEFINE e == [Snapshot(s) EXCEPT !.selected = matches]
            p == [tools |-> matches, profile |-> Snapshot(s).profile, due |-> TRUE]
<1>4. /\ e \in SnapshotRecs /\ e.session = s /\ e.selected = matches
      /\ p \in PromiseRecs /\ p.tools = matches /\ p.due = TRUE
  BY <1>3 DEF SnapshotRecs, PromiseRecs
<1>5. discoveries' = Remember(s, e) /\ promised' = [promised EXCEPT ![s] = p]
  BY DEF Discover
<1>. HIDE DEF e, p
<1>6. /\ Remembers(discoveries')
      /\ \E i \in DOMAIN discoveries' : discoveries'[i] = e
      /\ \A i \in DOMAIN discoveries' :
           \/ discoveries'[i] = e
           \/ /\ discoveries'[i].session # s
              /\ \E j \in DOMAIN discoveries : discoveries'[i] = discoveries[j]
      /\ \A j \in DOMAIN discoveries : \E i \in DOMAIN discoveries' :
           discoveries'[i].session = discoveries[j].session
  BY <1>1, <1>2, <1>4, <1>5, RememberIs
<1>7. /\ promised' \in [Callers -> PromiseRecs] /\ promised'[s] = p
      /\ \A t \in Callers : t # s => promised'[t] = promised[t]
  BY <1>1, <1>4, <1>5
<1>8. \A i \in DOMAIN discoveries : discoveries[i].session \in Callers
  BY <1>1 DEF Remembers, SnapshotRecs
<1>9. Backed(discoveries', promised')
  <2>1. ASSUME NEW t \in Callers, \A i \in DOMAIN discoveries' : discoveries'[i].session # t
        PROVE  promised'[t].tools = {}
    <3>1. t # s
      BY <1>4, <1>6, <2>1
    <3>2. \A j \in DOMAIN discoveries : discoveries[j].session # t
      BY <1>6, <2>1
    <3>. QED
      BY <1>1, <1>7, <3>1, <3>2 DEF Backed
  <2>2. ASSUME NEW i \in DOMAIN discoveries'
        PROVE  promised'[discoveries'[i].session].tools \subseteq discoveries'[i].selected
    BY <1>1, <1>4, <1>6, <1>7, <1>8 DEF Backed
  <2>. QED
    BY <2>1, <2>2 DEF Backed
<1>10. PromiseKept'
  BY <1>2, <1>4, <1>7 DEF ExposureIInv, PromiseKept
<1>11. ExposureTypes'
  BY <1>2, <1>6, <1>7 DEF ExposureIInv, ExposureTypes
<1>. QED
  BY <1>2, <1>9, <1>10, <1>11 DEF ExposureIInv, Walks, Walked, Backed, ShownIsInherited

\* The hook ends with what it shows, and remembers its working set.
LEMMA ShowToolsOK ==
  ASSUME McpExposureAssumption, ExposureIInv, NEW s \in Callers, NEW profile \in Labels,
         NEW offered \in SUBSET McpTools, NEW visible \in SUBSET McpTools,
         NEW wanted \in SUBSET Labels,
         wanted = (IF request[s].game THEN {DndLazy} ELSE Inherited(s, request[s].seen)),
         ShowTools(s, profile, offered, visible),
         Selected(s, offered) \subseteq visible, wanted \subseteq {profile},
         profile \in McpProfiles => visible \subseteq ToolsOf[profile],
         UNCHANGED <<chosenMcp, connected, enabled>>
  PROVE  ExposureIInv'
<1>1. /\ Remembers(discoveries) /\ Backed(discoveries, promised)
      /\ promised \in [Callers -> PromiseRecs] /\ exposure \in [Callers -> ShownRecs]
      /\ request \in [Callers -> HookRecs]
  BY DEF ExposureIInv, ExposureTypes
<1>. DEFINE kept == Selected(s, offered)
            e == [session |-> s, definitions |-> offered, selected |-> kept, profile |-> profile]
            shown == [profile |-> profile, tools |-> visible, wanted |-> wanted]
<1>2. kept \in SUBSET McpTools
  BY Zenon
<1>3. discoveries' = Remember(s, e)
  BY DEF ShowTools
<1>4. promised[s].tools \cap offered \subseteq kept
  <2>1. CASE Known(s)
    <3>1. kept = Snapshot(s).selected \cap offered
      BY <2>1 DEF Selected
    <3>2. promised[s].tools \subseteq Snapshot(s).selected
      BY <1>1, <2>1, SnapshotIs DEF Backed
    <3>. QED
      BY <3>1, <3>2
  <2>2. CASE ~Known(s)
    <3>1. promised[s].tools = {}
      BY <1>1, <2>2 DEF Known, StepSnapshots, Backed
    <3>. QED
      BY <3>1
  <2>. QED
    BY <2>1, <2>2
<1>5. /\ exposure' = [exposure EXCEPT ![s] = shown]
      /\ request' = [request EXCEPT ![s] = NoRequest]
  BY Zenon DEF ShowTools
<1>. HIDE DEF kept
<1>6. /\ e \in SnapshotRecs /\ e.session = s /\ e.selected = kept
      /\ shown \in ShownRecs /\ shown.profile = profile /\ shown.tools = visible
      /\ shown.wanted = wanted
  BY <1>2 DEF SnapshotRecs, ShownRecs
<1>. HIDE DEF e, shown
<1>7. /\ Remembers(discoveries')
      /\ \E i \in DOMAIN discoveries' : discoveries'[i] = e
      /\ \A i \in DOMAIN discoveries' :
           \/ discoveries'[i] = e
           \/ /\ discoveries'[i].session # s
              /\ \E j \in DOMAIN discoveries : discoveries'[i] = discoveries[j]
  BY <1>1, <1>3, <1>6, RememberIs
<1>. DEFINE StillKnown(t) == \E i \in DOMAIN discoveries' : discoveries'[i].session = t
            q == [promised[s] EXCEPT !.tools = @ \cap offered, !.due = FALSE]
<1>8. q \in PromiseRecs /\ q.tools = promised[s].tools \cap offered
  <2>1. promised[s] \in PromiseRecs
    BY <1>1
  <2>2. \A d \in BOOLEAN :
          [promised[s] EXCEPT !.tools = @ \cap offered, !.due = d] \in PromiseRecs
    BY <2>1 DEF PromiseRecs
  <2>3. q \in PromiseRecs
    BY <2>2, Zenon
  <2>4. q.tools = promised[s].tools \cap offered
    BY <2>1, Zenon DEF PromiseRecs
  <2>. QED
    BY <2>3, <2>4
<1>9. promised' = [t \in Callers |-> IF ~StillKnown(t) THEN NoPromise
                     ELSE IF t # s THEN promised[t]
                     ELSE IF promised[s].profile = profile THEN q ELSE NoPromise]
  BY Zenon DEF ShowTools
<1>. HIDE DEF q
<1>10. /\ \A t \in Callers : promised'[t] \in PromiseRecs
       /\ \A t \in Callers : ~StillKnown(t) => promised'[t].tools = {}
       /\ \A t \in Callers : t # s => promised'[t].tools \subseteq promised[t].tools
       /\ \A t \in Callers : t # s => promised'[t] \in {promised[t], NoPromise}
       /\ promised'[s].tools \subseteq kept
  BY <1>1, <1>4, <1>8, <1>9, ExposureConstants
<1>11. promised' \in [Callers -> PromiseRecs]
  BY <1>9, <1>10
<1>12. \A i \in DOMAIN discoveries : discoveries[i].session \in Callers
  BY <1>1 DEF Remembers, SnapshotRecs
<1>13. Backed(discoveries', promised')
  <2>1. ASSUME NEW i \in DOMAIN discoveries'
        PROVE  promised'[discoveries'[i].session].tools \subseteq discoveries'[i].selected
    BY <1>1, <1>6, <1>7, <1>10, <1>12 DEF Backed
  <2>. QED
    BY <1>10, <2>1 DEF Backed
<1>14. /\ exposure' \in [Callers -> ShownRecs] /\ exposure'[s] = shown
       /\ \A t \in Callers : t # s => exposure'[t] = exposure[t]
       /\ request' \in [Callers -> HookRecs] /\ request'[s].at = "none"
       /\ \A t \in Callers : t # s => request'[t] = request[t]
  BY <1>1, <1>5, <1>6, ExposureConstants
<1>15. ShownIsInherited'
  BY <1>6, <1>14 DEF ExposureIInv, ShownIsInherited
<1>16. PromiseKept'
  <2>1. ASSUME NEW t \in Callers, ~promised'[t].due
        PROVE  promised'[t].tools \subseteq exposure'[t].tools
    <3>1. CASE t = s
      BY <1>6, <1>10, <1>14, <3>1 DEF kept
    <3>2. CASE t # s
      BY <1>10, <1>14, <2>1, <3>2, ExposureConstants DEF ExposureIInv, PromiseKept
    <3>. QED
      BY <3>1, <3>2
  <2>. QED
    BY <2>1 DEF PromiseKept
<1>17. Walks'
  BY <1>14 DEF ExposureIInv, Walks, Walked
<1>18. ExposureTypes'
  BY <1>7, <1>11, <1>14 DEF ExposureIInv, ExposureTypes
<1>. QED
  BY <1>13, <1>15, <1>16, <1>17, <1>18 DEF ExposureIInv

\* The sessions asked are those walked past and the one the walk stands at.
LEMMA WalkedIsAsked ==
  ASSUME McpExposureAssumption, NEW s \in Callers, NEW t \in Callers \cup {NoCaller},
         NEW c, Walked(s, t, c), t \in Callers => c[t] # Unset
  PROVE  Inherited(s, c) \subseteq (IF t \in Callers THEN {c[t]} ELSE {})
<1>1. PICK W \in SUBSET Callers :
        /\ \A u \in W : c[u] = Unset /\ ParentOf[u] \in W \cup {t}
        /\ s \in W \cup {t}
  BY DEF Walked
<1>. DEFINE S == W \cup ({t} \cap Callers)
<1>2. S \in SUBSET Callers /\ s \in S
  BY <1>1
<1>3. \A u \in S : c[u] = Unset /\ ParentOf[u] # NoCaller => ParentOf[u] \in S
  BY <1>1 DEF McpExposureAssumption
<1>4. SessionsAsked(s, c) \subseteq S
  BY <1>2, <1>3 DEF SessionsAsked
<1>. QED
  BY <1>1, <1>4 DEF Inherited

\* A session's request shows the nearest choice, or what its own words resolve to.
LEMMA ShowProfileOK ==
  ASSUME McpExposureAssumption, ExposureIInv, NEW s \in Callers, NEW auto \in McpProfiles,
         ShowProfile(s, auto)
  PROVE  ExposureIInv'
<1>. DEFINE t == request[s].reached
            c == request[s].seen
            mode == IF t = NoCaller THEN Unset ELSE c[t]
            profile == IF mode = Unset THEN auto ELSE mode
            offered == request[s].tools \cap ToolsOf[profile] \cap enabled
            visible == IF Lazy(offered) THEN Selected(s, offered) ELSE offered
            wanted == IF request[s].game THEN {DndLazy} ELSE Inherited(s, c)
<1>1. /\ t \in Callers \cup {NoCaller} /\ c \in [Callers -> McpProfiles \cup {Unset}]
      /\ request[s].tools \in SUBSET McpTools
      /\ request[s].game = FALSE /\ Walked(s, t, c)
  BY DEF ShowProfile, ExposureIInv, ExposureTypes, Walks, HookRecs
<1>2. t \in Callers => c[t] # Unset /\ mode = c[t]
  BY <1>1 DEF ShowProfile, McpExposureAssumption
<1>3. ShowTools(s, profile, offered, visible)
  BY Zenon DEF ShowProfile
<1>4. wanted \subseteq (IF t \in Callers THEN {c[t]} ELSE {})
  BY <1>1, <1>2, WalkedIsAsked
<1>5. profile \in McpProfiles /\ wanted \subseteq {profile}
  BY <1>1, <1>2, <1>4
<1>6. /\ offered \in SUBSET McpTools /\ offered \subseteq ToolsOf[profile]
      /\ Selected(s, offered) \subseteq offered
  BY <1>1, <1>5 DEF Selected
<1>7. /\ visible \in SUBSET McpTools /\ Selected(s, offered) \subseteq visible
      /\ visible \subseteq ToolsOf[profile]
  BY <1>6
<1>8. UNCHANGED <<chosenMcp, connected, enabled>>
  BY Zenon DEF ShowProfile, ShowTools
<1>9. profile \in Labels /\ wanted \in SUBSET Labels
  BY <1>5 DEF Labels
<1>10. wanted = (IF request[s].game THEN {DndLazy} ELSE Inherited(s, request[s].seen))
  OBVIOUS
<1>. HIDE DEF wanted, visible, offered, profile
<1>. QED
  BY <1>3, <1>5, <1>6, <1>7, <1>8, <1>9, <1>10, ShowToolsOK

\* A game session's request shows its allowlist.
LEMMA ShowGameOK ==
  ASSUME McpExposureAssumption, ExposureIInv, NEW s \in Callers, ShowGame(s)
  PROVE  ExposureIInv'
<1>. DEFINE offered == request[s].tools \cap DndTools
            wanted == IF request[s].game THEN {DndLazy} ELSE Inherited(s, request[s].seen)
<1>1. request[s].game /\ wanted = {DndLazy} /\ ShowTools(s, DndLazy, offered, offered)
  BY DEF ShowGame
<1>2. /\ offered \in SUBSET McpTools /\ Selected(s, offered) \subseteq offered
      /\ DndLazy \in Labels /\ wanted \in SUBSET Labels /\ wanted \subseteq {DndLazy}
      /\ DndLazy \notin McpProfiles
  BY <1>1 DEF McpExposureAssumption, Selected, Labels
<1>3. UNCHANGED <<chosenMcp, connected, enabled>>
  BY Zenon DEF ShowGame, ShowTools
<1>4. wanted = (IF request[s].game THEN {DndLazy} ELSE Inherited(s, request[s].seen))
  OBVIOUS
<1>. HIDE DEF wanted, offered
<1>. QED
  BY <1>1, <1>2, <1>3, <1>4, ShowToolsOK

\* Every step keeps the invariant.
LEMMA ExposureStepOK ==
  ASSUME McpExposureAssumption, ExposureIInv, [ExposureNext]_mcpVars
  PROVE  ExposureIInv'
<1>1. CASE UNCHANGED mcpVars
  BY ZenonT(40), <1>1 DEF ExposureIInv, ExposureTypes, Walks, Walked, Backed, ShownIsInherited, PromiseKept,
              Remembers, mcpVars
<1>2. CASE \E s \in Callers : \/ \E game \in BOOLEAN : RequestStarts(s, game)
                              \/ ObserveMcp(s) \/ ModeFor(s) \/ WalkUp(s) \/ HookFails(s)
  BY <1>2, HookStepsOK
<1>3. CASE \E s \in Callers, matches \in SUBSET McpTools : Discover(s, matches)
  BY <1>3, DiscoverOK
<1>4. CASE \E s \in Callers, auto \in McpProfiles : ShowProfile(s, auto)
  BY <1>4, ShowProfileOK
<1>5. CASE \E s \in Callers : ShowGame(s)
  BY <1>5, ShowGameOK
<1>6. CASE \/ \E s \in Callers, p \in McpProfiles : ChooseProfile(s, p)
           \/ \E t \in McpTools : ToggleHere(t) \/ ToggleElsewhere(t) \/ StatusChanges(t)
  BY <1>6, AlterationsOK
<1>7. CASE ReloadAll
  BY <1>7, ReloadAllOK
<1>. QED
  BY <1>1, <1>2, <1>3, <1>4, <1>5, <1>6, <1>7, Zenon DEF ExposureNext

\* Whatever is chosen, toggled, observed and reloaded while hooks are under way,
\* a request shows the profile of the nearest session with a choice, only its
\* tools, and what mcp_discover promised (config-manager.js, mcp-discovery.js).
THEOREM ExposuresAreSound == ExposureSpec => []ExposureSound
<1>1. ExposureInit => ExposureIInv
  BY McpExposureAssumption, ExposureInitOK
<1>2. ExposureIInv /\ [ExposureNext]_mcpVars => ExposureIInv'
  BY McpExposureAssumption, ExposureStepOK
<1>3. ExposureIInv => ExposureSound
  BY DEF ExposureIInv, ExposureSound
<1>. QED
  BY <1>1, <1>2, <1>3, PTL DEF ExposureSpec

-----------------------------------------------------------------------------
(* The wizards of the web server (WebServerControl).  A menu that was alone *)
(* shows the autostart there is, and so does the command it sends.          *)

WizardRecs == [at : {"closed", "opening", "deploy", "menu", "refresh", "busy"},
               seen : Services, listed : SUBSET Users]
ControlSteps == {"install", "enable", "run", "read", "restart", "add", "remove"}
ControlRecs == [kind : {"none", "deploy", "toggle", "default", "apply", "port", "user-add",
                        "user-remove"},
                running : BOOLEAN, autostart : BOOLEAN, user : SUBSET Users,
                todo : Seq(ControlSteps)]

WebServerTypes ==
  /\ webServer \in Services /\ webUsers \subseteq Users
  /\ wizards \in [Wizards -> WizardRecs] /\ control \in [Wizards -> ControlRecs]
  /\ alone \in [Wizards -> BOOLEAN] /\ reverted = FALSE

WebServerIInv ==
  /\ WebServerTypes
  /\ \A w \in Wizards :
       /\ control[w].kind # "none" => wizards[w].at = "busy"
       /\ alone[w] /\ wizards[w].at = "menu" => wizards[w].seen.autostart = webServer.autostart
       /\ alone[w] /\ control[w].kind = "toggle" => control[w].autostart = webServer.autostart

\* The values of a wizard and of a command.
LEMMA WizardFacts ==
  /\ Closed \in WizardRecs /\ Closed.at = "closed"
  /\ NoControl \in ControlRecs /\ NoControl.kind = "none"
  /\ <<"enable", "run">> \in Seq(ControlSteps)
<1>1. <<>> \in Seq(ControlSteps) /\ <<"enable", "run">> \in Seq(ControlSteps)
  BY EmptySeq DEF ControlSteps
<1> QED BY <1>1 DEF Closed, WizardRecs, Services, NoControl, ControlRecs

\* A wizard that changes nothing of the service, and what it knows then.
LEMMA WizardGoes ==
  ASSUME WebServerIInv, NEW w \in Wizards, NEW x \in WizardRecs, NEW c \in ControlRecs,
         NEW a \in BOOLEAN, UNCHANGED <<webServer, webUsers, reverted>>,
         wizards' = [wizards EXCEPT ![w] = x], control' = [control EXCEPT ![w] = c],
         alone' = [alone EXCEPT ![w] = a],
         c.kind # "none" => x.at = "busy",
         a /\ x.at = "menu" => x.seen.autostart = webServer.autostart,
         a /\ c.kind = "toggle" => c.autostart = webServer.autostart
  PROVE  WebServerIInv'
<1>1. /\ wizards' \in [Wizards -> WizardRecs] /\ control' \in [Wizards -> ControlRecs]
      /\ alone' \in [Wizards -> BOOLEAN]
      /\ wizards'[w] = x /\ control'[w] = c /\ alone'[w] = a
      /\ \A v \in Wizards : v # w => /\ wizards'[v] = wizards[v] /\ control'[v] = control[v]
                                     /\ alone'[v] = alone[v]
  BY DEF WebServerIInv, WebServerTypes
<1>2. WebServerTypes'
  BY <1>1 DEF WebServerIInv, WebServerTypes
<1> QED BY <1>1, <1>2 DEF WebServerIInv

\* What a wizard, its command and its solitude are now.
LEMMA WizardNow ==
  ASSUME WebServerIInv, NEW w \in Wizards
  PROVE  /\ wizards[w] \in WizardRecs /\ control[w] \in ControlRecs /\ alone[w] \in BOOLEAN
         /\ wizards = [wizards EXCEPT ![w] = wizards[w]]
         /\ control = [control EXCEPT ![w] = control[w]]
         /\ alone = [alone EXCEPT ![w] = alone[w]]
BY DEF WebServerIInv, WebServerTypes

\* A wizard opens, reads the status or closes.
LEMMA WizardStepsOK ==
  ASSUME WebServerIInv, NEW w \in Wizards,
         OpenWizard(w) \/ StatusAnswers(w) \/ StatusFails(w) \/ CloseWizard(w) \/ ListUsers(w)
  PROVE  WebServerIInv'
<1>1. /\ wizards[w] \in WizardRecs /\ control[w] \in ControlRecs /\ alone[w] \in BOOLEAN
      /\ control[w].kind # "none" => wizards[w].at = "busy"
      /\ control' = [control EXCEPT ![w] = control[w]]
      /\ UNCHANGED <<webServer, webUsers, reverted>>
  BY WizardNow DEF WebServerIInv, OpenWizard, StatusAnswers, StatusFails, CloseWizard, ListUsers
<1>2. CASE OpenWizard(w)
  <2>1. /\ wizards' = [wizards EXCEPT ![w] = [wizards[w] EXCEPT !.at = "opening"]]
        /\ alone' = [alone EXCEPT ![w] = TRUE] /\ control[w].kind = "none"
    BY <1>1, <1>2 DEF OpenWizard
  <2>2. /\ [wizards[w] EXCEPT !.at = "opening"] \in WizardRecs
        /\ [wizards[w] EXCEPT !.at = "opening"].at = "opening"
    BY <1>1 DEF WizardRecs
  <2> QED BY <1>1, <2>1, <2>2, WizardGoes
<1>3. CASE StatusAnswers(w)
  <2> DEFINE x == [at |-> IF webServer.deployed \/ wizards[w].at = "refresh" THEN "menu" ELSE "deploy",
                   seen |-> webServer, listed |-> {}]
  <2>1. wizards' = [wizards EXCEPT ![w] = x] /\ alone' = [alone EXCEPT ![w] = alone[w]]
    BY <1>3, WizardNow DEF StatusAnswers
  <2>2. x \in WizardRecs /\ x.seen = webServer
    BY DEF WizardRecs, WebServerIInv, WebServerTypes
  <2>3. control[w].kind = "none"
    BY <1>1, <1>3 DEF StatusAnswers
  <2> HIDE DEF x
  <2> QED BY <1>1, <2>1, <2>2, <2>3, WizardGoes
<1>4. CASE StatusFails(w)
  <2> DEFINE x == IF wizards[w].at = "opening" THEN Closed
                  ELSE [wizards[w] EXCEPT !.at = "menu", !.listed = {}]
  <2>1. wizards' = [wizards EXCEPT ![w] = x] /\ alone' = [alone EXCEPT ![w] = FALSE]
    BY <1>4 DEF StatusFails
  <2>2. x \in WizardRecs
    BY <1>1, WizardFacts DEF WizardRecs
  <2>3. control[w].kind = "none"
    BY <1>1, <1>4 DEF StatusFails
  <2> HIDE DEF x
  <2> QED BY <1>1, <2>1, <2>2, <2>3, WizardGoes
<1>5. CASE CloseWizard(w)
  <2>1. /\ wizards' = [wizards EXCEPT ![w] = Closed] /\ alone' = [alone EXCEPT ![w] = alone[w]]
        /\ control[w].kind = "none"
    BY <1>1, <1>5, WizardNow DEF CloseWizard
  <2> QED BY <1>1, <2>1, WizardFacts, WizardGoes
<1>6. CASE ListUsers(w)
  <2> DEFINE x == [wizards[w] EXCEPT !.listed = webUsers]
  <2>1. /\ wizards' = [wizards EXCEPT ![w] = x] /\ alone' = [alone EXCEPT ![w] = alone[w]]
        /\ wizards[w].at = "menu" /\ control[w].kind = "none"
    BY <1>1, <1>6, WizardNow DEF ListUsers
  <2>2. x \in WizardRecs /\ x.at = wizards[w].at /\ x.seen = wizards[w].seen
    BY <1>1 DEF WizardRecs, WebServerIInv, WebServerTypes
  <2>3. alone[w] => wizards[w].seen.autostart = webServer.autostart
    BY <2>1 DEF WebServerIInv
  <2> HIDE DEF x
  <2> QED BY <1>1, <2>1, <2>2, <2>3, WizardGoes
<1> QED BY <1>2, <1>3, <1>4, <1>5, <1>6

\* A wizard runs a command.
LEMMA RunControlOK ==
  ASSUME WebServerIInv, NEW w \in Wizards, NEW c \in ControlRecs, RunControl(w, c),
         alone[w] /\ c.kind = "toggle" => c.autostart = webServer.autostart
  PROVE  WebServerIInv'
<1>1. /\ wizards' = [wizards EXCEPT ![w] = [wizards[w] EXCEPT !.at = "busy"]]
      /\ control' = [control EXCEPT ![w] = c] /\ alone' = [alone EXCEPT ![w] = alone[w]]
      /\ UNCHANGED <<webServer, webUsers, reverted>> /\ alone[w] \in BOOLEAN
  BY WizardNow DEF RunControl
<1>2. /\ [wizards[w] EXCEPT !.at = "busy"] \in WizardRecs
      /\ [wizards[w] EXCEPT !.at = "busy"].at = "busy"
  BY WizardNow DEF WizardRecs
<1> QED BY <1>1, <1>2, WizardGoes

\* The commands the wizards make.
CommandKinds == {"deploy", "toggle", "default", "apply", "port", "user-add", "user-remove"}

\* A command that carries what the menu shows.
LEMMA SettingCommandOK ==
  ASSUME NEW kind \in CommandKinds, NEW run \in BOOLEAN, NEW auto \in BOOLEAN,
         NEW todo \in Seq(ControlSteps)
  PROVE  LET c == [NoControl EXCEPT !.kind = kind, !.running = run, !.autostart = auto,
                                    !.todo = todo]
         IN c \in ControlRecs /\ c.kind = kind /\ c.autostart = auto
BY WizardFacts DEF ControlRecs, CommandKinds

\* A command that sets the autostart.
LEMMA AutostartCommandOK ==
  ASSUME NEW kind \in CommandKinds, NEW auto \in BOOLEAN, NEW todo \in Seq(ControlSteps)
  PROVE  LET c == [NoControl EXCEPT !.kind = kind, !.autostart = auto, !.todo = todo]
         IN c \in ControlRecs /\ c.kind = kind
BY WizardFacts DEF ControlRecs, CommandKinds

\* A command about the port.
LEMMA PortCommandOK ==
  ASSUME NEW kind \in CommandKinds, NEW todo \in Seq(ControlSteps)
  PROVE  LET c == [NoControl EXCEPT !.kind = kind, !.todo = todo]
         IN c \in ControlRecs /\ c.kind = kind
BY WizardFacts DEF ControlRecs, CommandKinds

\* A command about users.
LEMMA UserCommandOK ==
  ASSUME NEW kind \in CommandKinds, NEW u \in SUBSET Users, NEW todo \in Seq(ControlSteps)
  PROVE  LET c == [NoControl EXCEPT !.kind = kind, !.user = u, !.todo = todo]
         IN c \in ControlRecs /\ c.kind = kind
BY WizardFacts DEF ControlRecs, CommandKinds

\* The steps of the commands.
LEMMA TodosOK ==
  /\ <<"install">> \o Apply \in Seq(ControlSteps) /\ Apply \in Seq(ControlSteps)
  /\ <<"read">> \o Apply \in Seq(ControlSteps)
  /\ \A step \in ControlSteps : <<step>> \in Seq(ControlSteps)
<1>1. \A step \in ControlSteps : <<step>> \in Seq(ControlSteps)
  OBVIOUS
<1>2. Apply \in Seq(ControlSteps)
  BY WizardFacts DEF Apply
<1>3. "install" \in ControlSteps /\ "read" \in ControlSteps
  BY DEF ControlSteps
<1>4. \A s, t \in Seq(ControlSteps) : s \o t \in Seq(ControlSteps)
  BY ConcatProperties
<1> QED BY <1>1, <1>2, <1>3, <1>4

\* A wizard's choice becomes a command; the one that toggles the server sends the
\* autostart that the wizard shows.
LEMMA WebWizardCommandsOK ==
  ASSUME WebServerIInv, NEW w \in Wizards, NEW run \in BOOLEAN, NEW auto \in BOOLEAN,
         NEW u,
         \/ Deploy(w, run, auto) \/ ApplyBoth(w, run, auto) \/ ToggleServer(w, run)
         \/ Autostart(w, auto) \/ ChangePort(w)
         \/ u \in Users /\ (AddUser(w, u) \/ RemoveUser(w, u))
  PROVE  WebServerIInv'
<1>1. CASE Deploy(w, run, auto)
  <2> DEFINE c == [NoControl EXCEPT !.kind = "deploy", !.running = run, !.autostart = auto,
                                    !.todo = <<"install">> \o Apply]
  <2>1. "deploy" \in CommandKinds /\ "deploy" # "toggle"
    BY DEF CommandKinds
  <2>2. <<"install">> \o Apply \in Seq(ControlSteps)
    BY TodosOK
  <2>3. c \in ControlRecs /\ c.kind # "toggle"
    BY <2>1, <2>2, SettingCommandOK, Zenon
  <2>4. RunControl(w, c)
    BY <1>1 DEF Deploy
  <2> HIDE DEF c
  <2> QED BY <2>3, <2>4, RunControlOK
<1>2. CASE ApplyBoth(w, run, auto)
  <2> DEFINE c == [NoControl EXCEPT !.kind = "apply", !.running = run, !.autostart = auto,
                                    !.todo = Apply]
  <2>1. "apply" \in CommandKinds /\ "apply" # "toggle"
    BY DEF CommandKinds
  <2>2. Apply \in Seq(ControlSteps)
    BY TodosOK
  <2>3. c \in ControlRecs /\ c.kind # "toggle"
    BY <2>1, <2>2, SettingCommandOK, Zenon
  <2>4. RunControl(w, c)
    BY <1>2 DEF ApplyBoth
  <2> HIDE DEF c
  <2> QED BY <2>3, <2>4, RunControlOK
<1>3. CASE ToggleServer(w, run)
  <2>1. wizards[w].seen.autostart \in BOOLEAN
    BY WizardNow DEF WizardRecs, Services
  <2>2. PICK wasAuto \in BOOLEAN : wasAuto = wizards[w].seen.autostart
    BY <2>1
  <2> DEFINE c == [NoControl EXCEPT !.kind = "toggle", !.running = run, !.autostart = wasAuto,
                                    !.todo = Apply]
  <2>3. wizards[w].at = "menu" /\ RunControl(w, c)
    BY <1>3, <2>2 DEF ToggleServer
  <2>4. alone[w] => wasAuto = webServer.autostart
    BY <2>2, <2>3 DEF WebServerIInv
  <2>5. "toggle" \in CommandKinds /\ Apply \in Seq(ControlSteps)
    BY TodosOK DEF CommandKinds
  <2>6. c \in ControlRecs
    BY <2>5, SettingCommandOK, Zenon
  <2>7. c.autostart = wasAuto
    BY DEF NoControl
  <2> HIDE DEF c
  <2> QED BY <2>3, <2>4, <2>6, <2>7, RunControlOK
<1>4. CASE Autostart(w, auto)
  <2> DEFINE c == [NoControl EXCEPT !.kind = "default", !.autostart = auto,
                                    !.todo = <<"read">> \o Apply]
  <2>1. c \in ControlRecs /\ c.kind # "toggle"
    BY TodosOK, AutostartCommandOK DEF CommandKinds, ControlSteps
  <2>2. RunControl(w, c)
    BY <1>4 DEF Autostart
  <2> HIDE DEF c
  <2> QED BY <2>1, <2>2, RunControlOK
<1>5. CASE ChangePort(w)
  <2> DEFINE c == [NoControl EXCEPT !.kind = "port", !.todo = <<"restart">>]
  <2>1. c \in ControlRecs /\ c.kind # "toggle"
    BY TodosOK, PortCommandOK DEF CommandKinds, ControlSteps
  <2>2. RunControl(w, c)
    BY <1>5 DEF ChangePort
  <2> HIDE DEF c
  <2> QED BY <2>1, <2>2, RunControlOK
<1>6. CASE u \in Users /\ AddUser(w, u)
  <2> DEFINE c == [NoControl EXCEPT !.kind = "user-add", !.user = {u}, !.todo = <<"add">>]
  <2>1. "user-add" \in CommandKinds /\ "user-add" # "toggle"
    BY DEF CommandKinds
  <2>2. <<"add">> \in Seq(ControlSteps)
    BY TodosOK DEF ControlSteps
  <2>3. {u} \in SUBSET Users
    BY <1>6
  <2>4. c \in ControlRecs /\ c.kind # "toggle"
    BY <2>1, <2>2, <2>3, UserCommandOK, Zenon
  <2>5. RunControl(w, c)
    BY <1>6 DEF AddUser
  <2> HIDE DEF c
  <2> QED BY <2>4, <2>5, RunControlOK
<1>7. CASE u \in Users /\ RemoveUser(w, u)
  <2> DEFINE c == [NoControl EXCEPT !.kind = "user-remove", !.user = {u}, !.todo = <<"remove">>]
  <2>1. "user-remove" \in CommandKinds /\ "user-remove" # "toggle"
    BY DEF CommandKinds
  <2>2. <<"remove">> \in Seq(ControlSteps)
    BY TodosOK DEF ControlSteps
  <2>3. {u} \in SUBSET Users
    BY <1>7
  <2>4. c \in ControlRecs /\ c.kind # "toggle"
    BY <2>1, <2>2, <2>3, UserCommandOK, Zenon
  <2>5. RunControl(w, c)
    BY <1>7 DEF RemoveUser
  <2> HIDE DEF c
  <2> QED BY <2>4, <2>5, RunControlOK
<1> QED BY <1>1, <1>2, <1>3, <1>4, <1>5, <1>6, <1>7

\* The next step of a command changes the autostart to what the command says, or not.
LEMMA WebEffectOK ==
  ASSUME WebServerTypes, NEW c \in ControlRecs, ControlEffect(c)
  PROVE  /\ webServer' \in Services /\ webUsers' \subseteq Users
         /\ webServer'.autostart \in {webServer.autostart, c.autostart}
<1>1. c.running \in BOOLEAN /\ c.autostart \in BOOLEAN /\ c.user \subseteq Users
  BY DEF ControlRecs
<1>2. /\ [webServer EXCEPT !.deployed = TRUE] \in Services
      /\ [webServer EXCEPT !.deployed = TRUE].autostart = webServer.autostart
      /\ \A b \in BOOLEAN : /\ [webServer EXCEPT !.autostart = b] \in Services
                            /\ [webServer EXCEPT !.autostart = b].autostart = b
                            /\ [webServer EXCEPT !.running = b] \in Services
                            /\ [webServer EXCEPT !.running = b].autostart = webServer.autostart
  BY DEF WebServerTypes, Services
<1>3. webUsers' \in {webUsers, webUsers \cup c.user, webUsers \ c.user}
  BY DEF ControlEffect
<1>4. webServer' \in {webServer, [webServer EXCEPT !.deployed = TRUE],
                      [webServer EXCEPT !.autostart = c.autostart],
                      [webServer EXCEPT !.running = c.running]}
  BY DEF ControlEffect
<1> QED BY <1>1, <1>2, <1>3, <1>4 DEF WebServerTypes

\* Only the wizard whose command it is stays alone.
LEMMA NotAloneOK ==
  ASSUME alone \in [Wizards -> BOOLEAN], NEW w \in Wizards
  PROVE  /\ NotAlone(w) \in [Wizards -> BOOLEAN] /\ (NotAlone(w)[w] => alone[w])
         /\ \A v \in Wizards : v # w => NotAlone(w)[v] = FALSE
<1>1. \A v \in Wizards : (alone[v] /\ v = w) \in BOOLEAN
  BY Zenon
<1> QED BY <1>1, Zenon DEF NotAlone

\* A command does its next step.
LEMMA WizardStepOK ==
  ASSUME WebServerIInv, NEW w \in Wizards, Steps(w)
  PROVE  WebServerIInv'
<1> DEFINE c == control[w]
           running == IF Head(c.todo) = "read" THEN webServer.running ELSE c.running
           d == [c EXCEPT !.todo = Tail(c.todo), !.running = running]
<1>1. /\ c \in ControlRecs /\ c.kind # "none" /\ c.todo # <<>> /\ ControlEffect(c)
      /\ control' = [control EXCEPT ![w] = d]
      /\ alone' = NotAlone(w) /\ wizards' = wizards /\ wizards[w].at = "busy"
      /\ reverted' = (reverted \/ (/\ c.kind = "toggle" /\ alone[w]
                                   /\ webServer'.autostart # webServer.autostart))
  BY ZenonT(40), WizardNow DEF Steps, MenuIdle, WebServerIInv, WebServerTypes
<1>2. /\ webServer' \in Services /\ webUsers' \subseteq Users
      /\ webServer'.autostart \in {webServer.autostart, c.autostart}
  BY <1>1, WebEffectOK DEF WebServerIInv
<1>3. running \in BOOLEAN /\ Tail(c.todo) \in Seq(ControlSteps)
  BY <1>1, HeadTailProperties DEF ControlRecs, WebServerIInv, WebServerTypes, Services
<1>4. d \in ControlRecs /\ d.kind = c.kind /\ d.autostart = c.autostart
  <2> HIDE DEF running, c
  <2> QED BY <1>1, <1>3 DEF ControlRecs
<1>5. alone[w] /\ c.kind = "toggle" => c.autostart = webServer.autostart
  BY DEF WebServerIInv
<1>6. reverted' = FALSE
  BY <1>1, <1>2, <1>5 DEF WebServerIInv, WebServerTypes
<1>7. /\ alone' \in [Wizards -> BOOLEAN] /\ (alone'[w] => alone[w])
      /\ \A v \in Wizards : v # w => alone'[v] = FALSE
  BY <1>1, NotAloneOK DEF WebServerIInv, WebServerTypes
<1> HIDE DEF d
<1>8. /\ control' \in [Wizards -> ControlRecs] /\ control'[w] = d
      /\ \A v \in Wizards : v # w => control'[v] = control[v]
  BY <1>1, <1>4 DEF WebServerIInv, WebServerTypes
<1>9. WebServerTypes'
  BY <1>1, <1>2, <1>6, <1>7, <1>8 DEF WebServerIInv, WebServerTypes
<1>10. ASSUME NEW v \in Wizards
       PROVE  /\ control'[v].kind # "none" => wizards'[v].at = "busy"
              /\ alone'[v] /\ wizards'[v].at = "menu" =>
                   wizards'[v].seen.autostart = webServer'.autostart
              /\ alone'[v] /\ control'[v].kind = "toggle" =>
                   control'[v].autostart = webServer'.autostart
  <2>1. CASE v = w
    BY <1>1, <1>2, <1>4, <1>5, <1>7, <1>8, <2>1
  <2>2. CASE v # w
    BY <1>1, <1>7, <1>8, <2>2 DEF WebServerIInv
  <2> QED BY <2>1, <2>2
<1> QED BY <1>9, <1>10 DEF WebServerIInv

\* A command ends.
LEMMA ControlEndsOK ==
  ASSUME WebServerIInv, NEW w \in Wizards, ControlSucceeds(w) \/ ControlFails(w)
  PROVE  WebServerIInv'
<1> DEFINE x == IF AfterControl(w) = "closed" THEN Closed
                ELSE [wizards[w] EXCEPT !.at = AfterControl(w)]
<1>1. PICK a \in BOOLEAN : alone' = [alone EXCEPT ![w] = a]
  BY WizardNow DEF ControlSucceeds, ControlFails
<1>2. /\ wizards' = [wizards EXCEPT ![w] = x] /\ control' = [control EXCEPT ![w] = NoControl]
      /\ UNCHANGED <<webServer, webUsers, reverted>>
  BY DEF ControlSucceeds, ControlFails, Ends
<1>3. AfterControl(w) \in {"refresh", "closed"}
  BY DEF AfterControl
<1>4. x \in WizardRecs /\ x.at \in {"refresh", "closed"}
  BY <1>3, WizardNow, WizardFacts DEF WizardRecs
<1> HIDE DEF x
<1> QED BY <1>1, <1>2, <1>4, WizardFacts, WizardGoes

\* No wizard is open at first.
LEMMA WebServerInitOK == WebServerInit => WebServerIInv
BY WizardFacts, WebServerAssumption DEF WebServerInit, WebServerIInv, WebServerTypes, Services

\* The invariant is inductive.
LEMMA WebServerStepOK ==
  WebServerIInv /\ [WebServerNext]_webServerVars => WebServerIInv'
<1>1. WebServerIInv /\ UNCHANGED webServerVars => WebServerIInv'
  BY DEF webServerVars, WebServerIInv, WebServerTypes
<1> QED BY <1>1, WizardStepsOK, WebWizardCommandsOK, WizardStepOK, ControlEndsOK
        DEF WebServerNext

\* Starting or stopping the server from a menu that was alone leaves the autostart as it
\* is, for every number of wizards, users and commands.
THEOREM AutostartIsKept == WebServerSpec => []AutostartStays
<1>1. WebServerIInv => AutostartStays
  BY DEF WebServerIInv, WebServerTypes, AutostartStays
<1> QED BY <1>1, WebServerInitOK, WebServerStepOK, PTL DEF WebServerSpec

-----------------------------------------------------------------------------
(* The automatic wait (DndWait).  A read that no doorbell interrupted saw   *)
(* every input whose doorbell rang before it ended.                         *)

WaitRecs == [on : BOOLEAN, scan : Nat, read : {"no", "sent", "served", "waking"},
             seen : Nat, poked : BOOLEAN, due : BOOLEAN, backoff : BOOLEAN]
LinkRecs == [up : BOOLEAN, live : BOOLEAN, cursor : Nat]

WaitTypes ==
  /\ posted \in Nat /\ drained \in Nat /\ wait \in WaitRecs /\ link \in LinkRecs
  /\ wokenFor \subseteq Nat /\ unheard \in Nat

\* The input a wake is awaited for is the newest that woke the model.
WaitIInv ==
  /\ WaitTypes
  /\ drained <= posted /\ link.cursor <= posted
  /\ wait.seen <= posted /\ \A k \in wokenFor : k <= posted
  /\ wait.read \in {"sent", "served"} => wait.due
  /\ wait.read \in {"served", "waking"} => \A k \in wokenFor : k <= wait.seen
  /\ wait.read = "waking" =>
       wait.on /\ unheard = 0 /\ wait.seen \in wokenFor /\ wait.scan < wait.seen
  /\ wait.on /\ wait.read = "served" /\ ~wait.poked => link.cursor <= wait.seen
  /\ wait.read # "no" => wait.on
  /\ QuietWaitHasSeen

\* No wait.
LEMMA NoWaitOK ==
  /\ NoWait \in WaitRecs /\ NoWait.on = FALSE /\ NoWait.read = "no" /\ NoWait.due = TRUE
  /\ NoWait.seen = 0
BY DEF NoWait, WaitRecs

\* The wait is off, or is to read at once.
LEMMA WaitReset ==
  ASSUME WaitIInv, posted' \in Nat, drained' \in Nat, wokenFor' \subseteq Nat, link' \in LinkRecs,
         drained' <= posted', link'.cursor <= posted', \A k \in wokenFor' : k <= posted',
         wait' \in WaitRecs, wait'.read = "no", wait'.due, wait'.seen <= posted',
         unheard' = 0
  PROVE  WaitIInv'
BY DEF WaitIInv, WaitTypes, QuietWaitHasSeen

\* The wait and the link stay, and what is remembered of them does not shrink.
LEMMA WaitStays ==
  ASSUME WaitIInv, UNCHANGED <<wait, link, wokenFor>>, posted' \in Nat, posted <= posted',
         drained' \in Nat, drained' <= posted', unheard' = unheard
  PROVE  WaitIInv'
BY DEF WaitIInv, WaitTypes, QuietWaitHasSeen, LinkRecs, WaitRecs

\* The link only rings, connects and is lost.
LEMMA LinkStepsOK ==
  ASSUME WaitIInv, Doorbell \/ LinkChanges \/ LinkLive
  PROVE  WaitIInv'
<1>1. /\ wait \in WaitRecs /\ link \in LinkRecs /\ link.cursor \in Nat /\ posted \in Nat
      /\ UNCHANGED <<posted, drained, wokenFor>>
  BY DEF WaitIInv, WaitTypes, LinkRecs, Doorbell, LinkChanges, LinkLive
<1>2. /\ [wait EXCEPT !.poked = TRUE, !.due = TRUE] \in WaitRecs
      /\ [wait EXCEPT !.due = TRUE] \in WaitRecs
  BY <1>1 DEF WaitRecs
<1>3. CASE Doorbell
  <2>1. /\ link' = [link EXCEPT !.cursor = @ + 1] /\ link.cursor < posted /\ wait' = Poked
        /\ unheard' = 0
    BY <1>3 DEF Doorbell
  <2>2. link' \in LinkRecs /\ link'.cursor = link.cursor + 1 /\ link'.cursor <= posted
    BY <1>1, <2>1 DEF LinkRecs
  <2>3. CASE WaitingNow
    <3>1. /\ wait' \in WaitRecs /\ wait'.due = TRUE /\ wait'.poked = TRUE
          /\ wait'.read = wait.read /\ wait'.on = wait.on /\ wait'.seen = wait.seen
          /\ wait'.scan = wait.scan
      BY <1>1, <1>2, <2>1, <2>3 DEF Poked, WaitRecs
    <3>2. wait.read # "waking"
      BY <2>3 DEF WaitingNow
    <3> QED BY <1>1, <2>1, <2>2, <3>1, <3>2 DEF WaitIInv, WaitTypes, QuietWaitHasSeen
  <2>4. CASE ~WaitingNow
    <3>1. wait' = wait
      BY <2>1, <2>4 DEF Poked
    <3>2. ~wait.on \/ wait.read = "waking"
      BY <2>4 DEF WaitingNow
    <3> QED BY <1>1, <2>1, <2>2, <3>1, <3>2 DEF WaitIInv, WaitTypes, QuietWaitHasSeen
  <2> QED BY <2>3, <2>4
<1>4. CASE LinkChanges \/ LinkLive
  <2>1. link' \in LinkRecs /\ link'.cursor = link.cursor
    <3>1. PICK up \in BOOLEAN, live \in BOOLEAN : link' = [link EXCEPT !.up = up, !.live = live]
      <4>1. LinkChanges => link' = [link EXCEPT !.up = ~link.up, !.live = FALSE]
        BY DEF LinkChanges
      <4>2. LinkLive => link' = [link EXCEPT !.up = link.up, !.live = TRUE]
        BY <1>1 DEF LinkLive, LinkRecs
      <4>3. link.up \in BOOLEAN /\ (~link.up) \in BOOLEAN
        BY <1>1 DEF LinkRecs
      <4> QED BY <1>4, <4>1, <4>2, <4>3, ZenonT(40)
    <3> QED BY <1>1, <3>1 DEF LinkRecs
  <2>2. /\ unheard' = unheard
        /\ wait' = wait \/ wait' = [wait EXCEPT !.due = TRUE]
    BY <1>4 DEF LinkChanges, LinkLive
  <2>3. CASE wait' = wait
    BY <1>1, <2>1, <2>2, <2>3 DEF WaitIInv, WaitTypes, QuietWaitHasSeen
  <2>4. CASE wait' = [wait EXCEPT !.due = TRUE]
    <3>1. /\ wait' \in WaitRecs /\ wait'.due = TRUE /\ wait'.read = wait.read
          /\ wait'.on = wait.on /\ wait'.poked = wait.poked /\ wait'.seen = wait.seen
          /\ wait'.scan = wait.scan
      BY <1>1, <1>2, <2>4 DEF WaitRecs
    <3> QED BY <1>1, <2>1, <2>2, <3>1 DEF WaitIInv, WaitTypes, QuietWaitHasSeen
  <2> QED BY <2>2, <2>3, <2>4
<1> QED BY <1>3, <1>4

\* A delay is over, or the safety read is due.
LEMMA WaitTimersOK ==
  ASSUME WaitIInv, DelayOver \/ SafetyRead
  PROVE  WaitIInv'
<1>1. wait \in WaitRecs /\ UNCHANGED <<posted, drained, wokenFor, link, unheard>>
  BY DEF WaitIInv, WaitTypes, DelayOver, SafetyRead
<1>2. CASE DelayOver
  <2>1. wait' = [wait EXCEPT !.backoff = FALSE]
    BY <1>2 DEF DelayOver
  <2>2. /\ wait' \in WaitRecs /\ wait'.due = wait.due /\ wait'.read = wait.read
        /\ wait'.on = wait.on /\ wait'.poked = wait.poked /\ wait'.seen = wait.seen
        /\ wait'.scan = wait.scan
    BY <1>1, <2>1 DEF WaitRecs
  <2> QED BY <1>1, <2>2 DEF WaitIInv, WaitTypes, QuietWaitHasSeen
<1>3. CASE SafetyRead
  <2>1. wait' = [wait EXCEPT !.due = TRUE] /\ wait.read = "no"
    BY <1>3 DEF SafetyRead
  <2>2. /\ wait' \in WaitRecs /\ wait'.due = TRUE /\ wait'.read = "no"
        /\ wait'.on = wait.on /\ wait'.seen = wait.seen /\ wait'.scan = wait.scan
    BY <1>1, <2>1 DEF WaitRecs
  <2> QED BY <1>1, <2>2 DEF WaitIInv, WaitTypes, QuietWaitHasSeen
<1> QED BY <1>2, <1>3

\* A read begins, is served and fails.
LEMMA WaitReadsOK ==
  ASSUME WaitIInv, ReadStarts \/ ReadServed \/ ReadFails
  PROVE  WaitIInv'
<1>1. wait \in WaitRecs /\ UNCHANGED <<posted, drained, wokenFor, link, unheard>>
  BY DEF WaitIInv, WaitTypes, ReadStarts, ReadServed, ReadFails
<1>0. /\ wait.seen \in Nat /\ wait.scan \in Nat /\ posted \in Nat
      /\ \A k \in wokenFor : k <= posted
  BY <1>1 DEF WaitIInv, WaitTypes, WaitRecs
<1>2. CASE ReadStarts
  <2>1. wait' = [wait EXCEPT !.read = "sent", !.poked = FALSE] /\ wait.due /\ wait.on
    BY <1>2 DEF ReadStarts
  <2>2. /\ wait' \in WaitRecs /\ wait'.due = wait.due /\ wait'.read = "sent"
        /\ wait'.on = wait.on /\ wait'.seen = wait.seen /\ wait'.scan = wait.scan
    BY <1>1, <2>1 DEF WaitRecs
  <2> QED BY <1>1, <2>1, <2>2 DEF WaitIInv, WaitTypes, QuietWaitHasSeen
<1>3. CASE ReadServed
  <2>1. /\ wait' = [wait EXCEPT !.read = "served", !.seen = posted] /\ posted \in Nat
        /\ wait.read = "sent" /\ link.cursor <= posted
    BY <1>3 DEF ReadServed, WaitIInv, WaitTypes
  <2>2. /\ wait' \in WaitRecs /\ wait'.due = wait.due /\ wait'.read = "served"
        /\ wait'.on = wait.on /\ wait'.seen = posted /\ wait'.scan = wait.scan
    BY <1>1, <2>1 DEF WaitRecs
  <2> QED BY <1>0, <1>1, <2>1, <2>2 DEF WaitIInv, WaitTypes, QuietWaitHasSeen
<1>4. CASE ReadFails
  <2>1. /\ wait' = [wait EXCEPT !.read = "no", !.seen = 0, !.backoff = TRUE]
        /\ wait.read \in {"sent", "served"}
    BY <1>4 DEF ReadFails
  <2>2. /\ wait' \in WaitRecs /\ wait'.due = wait.due /\ wait'.read = "no"
        /\ wait'.on = wait.on /\ wait'.seen = 0 /\ wait'.scan = wait.scan
    BY <1>1, <2>1 DEF WaitRecs
  <2>3. wait'.due
    BY <2>1, <2>2 DEF WaitIInv
  <2> QED BY <1>0, <1>1, <2>2, <2>3 DEF WaitIInv, WaitTypes, QuietWaitHasSeen
<1> QED BY <1>2, <1>3, <1>4

\* When a read that was answered is followed by another.
LEMMA DueFacts ==
  ASSUME WaitIInv
  PROVE  DueAfterRead \in BOOLEAN /\ (~DueAfterRead => ~wait.poked)
<1>1. wait.poked \in BOOLEAN /\ link.live \in BOOLEAN
  BY DEF WaitIInv, WaitTypes, WaitRecs, LinkRecs
<1> QED BY <1>1, Zenon DEF DueAfterRead

\* A read sends a wake, or waits quietly for the next doorbell.
LEMMA ReadAnsweredOK ==
  ASSUME WaitIInv, ReadWakes \/ ReadQuiet
  PROVE  WaitIInv'
<1>1. /\ wait \in WaitRecs /\ wait.read = "served" /\ wait.seen \in Nat /\ wait.scan \in Nat
      /\ UNCHANGED <<posted, drained, link>> /\ unheard' = 0 /\ wait.on /\ wait.seen <= posted
      /\ link \in LinkRecs /\ link.cursor \in Nat /\ wokenFor \subseteq Nat
      /\ posted \in Nat /\ drained \in Nat /\ drained <= posted /\ link.cursor <= posted
      /\ \A k \in wokenFor : k <= posted /\ k <= wait.seen
  BY DEF WaitIInv, WaitTypes, WaitRecs, LinkRecs, ReadWakes, ReadQuiet
<1> DEFINE b == DueAfterRead
<1>2. b \in BOOLEAN /\ (~b => ~wait.poked)
  BY DueFacts
<1>3. CASE ReadWakes
  <2>1. /\ wait' = [wait EXCEPT !.read = "waking", !.due = b]
        /\ wokenFor' = wokenFor \cup {wait.seen} /\ wait.seen > wait.scan
    BY <1>3 DEF ReadWakes
  <2> HIDE DEF b
  <2>2. /\ wait' \in WaitRecs /\ wait'.read = "waking" /\ wait'.on /\ wait'.seen = wait.seen
        /\ wait'.scan = wait.scan
    BY <1>1, <1>2, <2>1 DEF WaitRecs
  <2>3. wokenFor' \subseteq Nat /\ \A k \in wokenFor' : k <= posted /\ k <= wait.seen
    BY <1>1, <2>1
  <2> QED BY <1>1, <2>1, <2>2, <2>3 DEF WaitIInv, WaitTypes, QuietWaitHasSeen
<1>4. CASE ReadQuiet
  <2>1. /\ wait' = [wait EXCEPT !.read = "no", !.seen = 0, !.due = b, !.scan = wait.seen]
        /\ wokenFor' = wokenFor
    BY <1>4 DEF ReadQuiet, AfterRead
  <2>0. ~wait.poked => link.cursor <= wait.seen
    BY <1>1 DEF WaitIInv
  <2> HIDE DEF b
  <2>2. /\ wait' \in WaitRecs /\ wait'.read = "no" /\ wait'.due = b
        /\ wait'.scan = wait.seen /\ wait'.on = wait.on /\ wait'.seen = 0
    BY <1>1, <1>2, <2>1 DEF WaitRecs
  <2>3. ~wait'.due => wait'.scan >= link.cursor
    BY <1>1, <1>2, <2>0, <2>2
  <2> QED BY <1>1, <2>1, <2>2, <2>3 DEF WaitIInv, WaitTypes, QuietWaitHasSeen
<1> QED BY <1>3, <1>4

\* The input of a wake that failed is the one forgotten.
LEMMA ForgetsFailed ==
  ASSUME wokenFor \subseteq Nat, NEW k \in wokenFor, \A j \in wokenFor : j <= k
  PROVE  ForgetLast = wokenFor \ {k}
<1>1. Newest(wokenFor) \in wokenFor /\ \A j \in wokenFor : j <= Newest(wokenFor)
  BY DEF Newest
<1>2. Newest(wokenFor) = k
  <2>1. Newest(wokenFor) \in Nat /\ k \in Nat
    BY <1>1
  <2>2. Newest(wokenFor) <= k /\ k <= Newest(wokenFor)
    BY <1>1
  <2> HIDE DEF Newest
  <2> QED BY <2>1, <2>2
<1> QED BY <1>2 DEF ForgetLast

\* A wake is delivered or fails; one of an entry that is gone changes nothing here.
LEMMA WakeAnsweredOK ==
  ASSUME WaitIInv, WakeDelivered \/ WakeFails
  PROVE  WaitIInv'
<1>1. /\ wait \in WaitRecs /\ wait.seen \in Nat /\ wait.scan \in Nat
      /\ UNCHANGED <<posted, drained, link>> /\ link \in LinkRecs /\ wokenFor \subseteq Nat
      /\ posted \in Nat /\ drained \in Nat /\ drained <= posted /\ link.cursor <= posted
      /\ \A k \in wokenFor : k <= posted /\ unheard \in Nat
  BY DEF WaitIInv, WaitTypes, WaitRecs, WakeDelivered, WakeFails
<1>2. CASE UNCHANGED <<wait, wokenFor, unheard>>
  BY <1>1, <1>2 DEF WaitIInv, WaitTypes, QuietWaitHasSeen
<1>3. CASE WakeDelivered /\ wait.read = "waking" /\ wait' = NoWait
  <2>1. unheard' = 0 /\ wokenFor' = wokenFor
    BY <1>3 DEF WaitIInv, WakeDelivered
  <2> QED BY <1>1, <1>3, <2>1, NoWaitOK, WaitReset
<1>4. CASE /\ WakeFails /\ wait.read = "waking" /\ wokenFor' = ForgetLast
           /\ wait' = [wait EXCEPT !.read = "no", !.seen = 0, !.backoff = TRUE]
           /\ unheard' = IF wait.due THEN 0 ELSE wait.seen
  <2>1. /\ wait.on /\ wait.seen \in wokenFor /\ wait.scan < wait.seen
        /\ \A k \in wokenFor : k <= wait.seen
    BY <1>4 DEF WaitIInv
  <2>2. wokenFor' = wokenFor \ {wait.seen}
    BY <1>1, <1>4, <2>1, ForgetsFailed
  <2>3. /\ wait' \in WaitRecs /\ wait'.read = "no" /\ wait'.on /\ wait'.seen = 0
        /\ wait'.scan = wait.scan /\ wait'.due = wait.due
    BY <1>1, <1>4, <2>1 DEF WaitRecs
  <2>4. wait.seen # 0 /\ wait.due \in BOOLEAN
    BY <1>1, <2>1 DEF WaitRecs
  <2> QED BY <1>1, <1>4, <2>1, <2>2, <2>3, <2>4 DEF WaitIInv, WaitTypes, QuietWaitHasSeen
<1>5. CASE WakeDelivered /\ UNCHANGED wait
  BY <1>2, <1>5 DEF WakeDelivered
<1> QED BY <1>2, <1>3, <1>4, <1>5 DEF WakeDelivered, WakeFails

\* The session's steps leave the wait, or stop it.
LEMMA WaitSessionOK ==
  ASSUME WaitIInv,
         InputPosted \/ TurnStarts \/ NarratorReads \/ TurnSucceeds \/ TurnFails
           \/ TurnInterrupted \/ OperatorWrites \/ ModelSelected \/ HostRestarts
  PROVE  WaitIInv'
<1>1. /\ posted \in Nat /\ drained \in Nat /\ link \in LinkRecs /\ wokenFor \subseteq Nat
      /\ drained <= posted /\ link.cursor <= posted /\ \A k \in wokenFor : k <= posted
  BY DEF WaitIInv, WaitTypes
<1>2. CASE InputPosted \/ TurnStarts \/ NarratorReads \/ TurnSucceeds
  <2>1. /\ UNCHANGED <<wait, link, wokenFor, unheard>>
        /\ \/ posted' = posted + 1 /\ drained' = drained
           \/ posted' = posted /\ drained' = drained
           \/ posted' = posted /\ drained' = posted
    BY <1>2 DEF InputPosted, TurnStarts, NarratorReads, TurnSucceeds
  <2>2. posted' \in Nat /\ posted <= posted' /\ drained' \in Nat /\ drained' <= posted'
    BY <1>1, <2>1
  <2> QED BY <2>1, <2>2, WaitStays
<1>3. CASE TurnFails \/ TurnInterrupted \/ OperatorWrites \/ ModelSelected
  <2>1. /\ wait' = NoWait /\ UNCHANGED <<posted, drained, link>> /\ unheard' = 0
        /\ wokenFor' = wokenFor \/ wokenFor' = ForgetLast
    BY <1>3 DEF TurnFails, TurnInterrupted, OperatorWrites, ModelSelected
  <2>2. wokenFor' \subseteq Nat /\ \A k \in wokenFor' : k <= posted
    BY <1>1, <2>1 DEF ForgetLast
  <2> QED BY <1>1, <2>1, <2>2, NoWaitOK, WaitReset
<1>4. CASE HostRestarts
  <2>1. /\ wait' = NoWait /\ UNCHANGED <<posted, drained>> /\ wokenFor' = {} /\ unheard' = 0
        /\ link' = [up |-> FALSE, live |-> FALSE, cursor |-> drained]
    BY <1>4 DEF HostRestarts
  <2>2. link' \in LinkRecs /\ link'.cursor = drained
    BY <1>1, <2>1 DEF LinkRecs
  <2> QED BY <1>1, <2>1, <2>2, NoWaitOK, WaitReset
<1> QED BY <1>2, <1>3, <1>4

\* The watcher is armed again, unless it waits already or must not.
LEMMA ArmedOK ==
  ASSUME WaitIInv, attempts \in Nat, Armed
  PROVE  WaitIInv'
<1>1. /\ UNCHANGED <<posted, drained, wokenFor, link>> /\ wait \in WaitRecs
      /\ wait' \in {StartWait, wait} /\ unheard' = IF wait' = wait THEN unheard ELSE 0
      /\ posted \in Nat /\ drained \in Nat /\ link \in LinkRecs /\ wokenFor \subseteq Nat
      /\ drained <= posted /\ link.cursor <= posted /\ \A k \in wokenFor : k <= posted
  BY DEF Armed, WaitIInv, WaitTypes
<1>2. CASE wait' = wait
  BY <1>1, <1>2 DEF WaitIInv, WaitTypes, QuietWaitHasSeen
<1>3. CASE wait' # wait
  <2> DEFINE late == attempts > 0
  <2>1. wait' = [NoWait EXCEPT !.on = TRUE, !.scan = drained, !.backoff = late]
    BY <1>1, <1>3 DEF StartWait
  <2>2. late \in BOOLEAN
    BY SMT
  <2> HIDE DEF late
  <2>3. wait' \in WaitRecs /\ wait'.read = "no" /\ wait'.due /\ wait'.seen = 0
    BY <1>1, <2>1, <2>2, NoWaitOK DEF WaitRecs
  <2> QED BY <1>1, <1>3, <2>3, WaitReset
<1> QED BY <1>2, <1>3

\* The failed turns are counted by a number.
LEMMA AttemptsOK ==
  ASSUME DndWaitAssumption, attempts \in Nat, [DndWaitNext]_dndWaitVars
  PROVE  attempts' \in Nat
<1>1. CASE TurnFails
  BY <1>1 DEF TurnFails
<1>2. CASE attempts' = attempts \/ attempts' = 0
  BY <1>2
<1>3. DndWaitNext => TurnFails \/ attempts' = attempts \/ attempts' = 0
  <2>1. ReadWakes \/ WakeDelivered \/ WakeFails \/ ReadQuiet \/ ReadFails \/ ReadStarts
          \/ ReadServed \/ SafetyRead \/ DelayOver
          => attempts' = attempts
    BY DEF ReadWakes, WakeDelivered, WakeFails, ReadQuiet, ReadFails, ReadStarts, ReadServed,
           SafetyRead, DelayOver
  <2>2. InputPosted \/ Doorbell \/ LinkChanges \/ LinkLive \/ TurnStarts \/ NarratorReads
          \/ TurnSucceeds => attempts' = attempts \/ attempts' = 0
    BY DEF InputPosted, Doorbell, LinkChanges, LinkLive, TurnStarts, NarratorReads,
           TurnSucceeds
  <2>3. TurnInterrupted \/ OperatorWrites \/ ModelSelected \/ Armed \/ HostRestarts
          => attempts' = attempts \/ attempts' = 0
    BY DEF TurnInterrupted, OperatorWrites, ModelSelected, Armed, HostRestarts
  <2> QED BY <2>1, <2>2, <2>3 DEF DndWaitNext
<1> QED BY <1>1, <1>2, <1>3 DEF dndWaitVars

WaitInductive == WaitIInv /\ attempts \in Nat

\* A narrator that does not wait yet.
LEMMA WaitInitOK ==
  ASSUME DndWaitInit
  PROVE  WaitInductive
<1>1. link \in LinkRecs /\ link.cursor = 0
  BY DEF DndWaitInit, LinkRecs
<1> QED BY <1>1, NoWaitOK
        DEF DndWaitInit, WaitInductive, WaitIInv, WaitTypes, QuietWaitHasSeen

\* Every step of the wait keeps the invariant.
LEMMA WaitStepOK ==
  ASSUME DndWaitAssumption, WaitInductive, [DndWaitNext]_dndWaitVars
  PROVE  WaitInductive'
<1>1. WaitIInv /\ attempts \in Nat /\ attempts' \in Nat
  BY AttemptsOK DEF WaitInductive
<1>2. CASE DndWaitNext
  BY <1>1, <1>2, WaitSessionOK, ArmedOK, LinkStepsOK, WaitTimersOK, WaitReadsOK,
     ReadAnsweredOK, WakeAnsweredOK
  DEF DndWaitNext, WaitInductive
<1>3. CASE UNCHANGED dndWaitVars
  BY <1>1, <1>3 DEF dndWaitVars, WaitInductive, WaitIInv, WaitTypes, QuietWaitHasSeen
<1> QED BY <1>2, <1>3

\* A wait that only the next doorbell will read again has seen every input whose
\* doorbell rang, unless its last wake failed; and the input of that wake is kept for
\* the next read (dnd-watch.js, tick, finish and receive).
THEOREM WaitsMissNothing == DndWaitSpec => []QuietWaitHasSeen
<1>1. DndWaitInit => WaitInductive
  BY WaitInitOK
<1>2. WaitInductive /\ [DndWaitNext]_dndWaitVars => WaitInductive'
  BY WaitStepOK, DndWaitAssumption
<1>3. WaitInductive => QuietWaitHasSeen
  BY DEF WaitIInv, WaitInductive
<1> QED BY <1>1, <1>2, <1>3, PTL DEF DndWaitSpec

-----------------------------------------------------------------------------
(* What a session has read (DndServices, BaselineSpec).  The acknowledged   *)
(* revision only moves to one that the same answer tells the narrator.      *)

CursorRecs == [rev : Nat, base : Nat, delta : BOOLEAN]
KnownRecs == [revision : Nat, restore : BOOLEAN, page : CursorRecs]
CallRecs == [op : {"read", "page", "write", "bare"}, proj : Projections, base : Nat,
             delta : BOOLEAN, context : Nat, cursor : CursorRecs, stage : {"sent", "served"}, rev : Nat,
             partial : BOOLEAN]

BaselineIInv ==
  /\ campaign \in Nat /\ contextNo \in Nat /\ fullFallback \in BOOLEAN /\ early = FALSE
  /\ known \in [Projections -> KnownRecs] /\ calls \subseteq CallRecs /\ transcript \subseteq Nat
  /\ \A p \in Projections : known[p].revision # 0 => known[p].revision \in transcript

\* What is known of nothing, and the calls that are made.
LEMMA BaselineFacts ==
  /\ NoCursor \in CursorRecs /\ NothingKnown \in KnownRecs /\ NothingKnown.revision = 0
  /\ [NothingKnown EXCEPT !.restore = TRUE] \in KnownRecs
  /\ [NothingKnown EXCEPT !.restore = TRUE].revision = 0
  /\ "live" \in Projections
BY BaselineAssumption DEF NoCursor, NothingKnown, CursorRecs, KnownRecs

\* A new call is a call, whatever base or cursor it is given.
LEMMA NewCallOK ==
  ASSUME contextNo \in Nat, NEW p \in Projections, NEW op \in {"read", "page", "write", "bare"}
  PROVE  /\ NewCall(op, p) \in CallRecs
         /\ \A base \in Nat, delta \in BOOLEAN :
              [NewCall(op, p) EXCEPT !.base = base, !.delta = delta] \in CallRecs
         /\ \A cursor \in CursorRecs : [NewCall(op, p) EXCEPT !.cursor = cursor] \in CallRecs
<1>1. NewCall(op, p) \in CallRecs
  BY BaselineFacts DEF NewCall, CallRecs
<1> QED BY <1>1 DEF CallRecs

\* The narrator is told an answer: a difference to what it was told, or a whole state.
LEMMA ToldOK ==
  ASSUME transcript \subseteq Nat, NEW base \in Nat, NEW rev \in Nat
  PROVE  /\ transcript \subseteq Told(base, rev) /\ Told(base, rev) \subseteq Nat
         /\ base = 0 \/ base \in transcript => rev \in Told(base, rev)
BY DEF Told

\* What an answer acknowledges, the narrator was told.
LEMMA AcknowledgedOK ==
  ASSUME BaselineIInv, NEW p \in Projections, NEW base \in Nat, NEW delta \in BOOLEAN,
         NEW rev \in Nat
  PROVE  LET a == Acknowledged(p, base, delta, rev)
         IN a \in KnownRecs /\ (a.revision # 0 => a.revision \in Told(base, rev))
<1>1. known[p] \in KnownRecs /\ known[p].revision \in Nat
  BY DEF BaselineIInv, KnownRecs
<1>2. CASE delta /\ Follows(base, known[p]) /\ rev >= known[p].revision
  <2>1. Acknowledged(p, base, delta, rev) = [NothingKnown EXCEPT !.revision = rev]
    BY <1>2 DEF Acknowledged
  <2>2. /\ [NothingKnown EXCEPT !.revision = rev] \in KnownRecs
        /\ [NothingKnown EXCEPT !.revision = rev].revision = rev
    BY BaselineFacts DEF KnownRecs
  <2>3. base = 0 \/ base \in transcript
    BY <1>2 DEF Follows, BaselineIInv
  <2> QED BY <2>1, <2>2, <2>3, ToldOK DEF BaselineIInv
<1>3. CASE ~(delta /\ Follows(base, known[p]) /\ rev >= known[p].revision)
  <2>1. Acknowledged(p, base, delta, rev) = [known[p] EXCEPT !.page = NoCursor]
    BY <1>3 DEF Acknowledged
  <2>2. /\ [known[p] EXCEPT !.page = NoCursor] \in KnownRecs
        /\ [known[p] EXCEPT !.page = NoCursor].revision = known[p].revision
    BY <1>1, BaselineFacts DEF KnownRecs
  <2>3. transcript \subseteq Told(base, rev)
    BY ToldOK DEF BaselineIInv
  <2> QED BY <2>1, <2>2, <2>3 DEF BaselineIInv
<1> QED BY <1>2, <1>3

\* Nothing is known at first.
LEMMA BaselineInitOK == BaselineInit => BaselineIInv
<1> SUFFICES ASSUME BaselineInit PROVE BaselineIInv
  OBVIOUS
<1>1. known = [p \in Projections |-> NothingKnown]
  BY DEF BaselineInit
<1>2. /\ known \in [Projections -> KnownRecs]
      /\ \A p \in Projections : known[p].revision = 0
  BY <1>1, BaselineFacts
<1>3. campaign \in Nat /\ contextNo \in Nat /\ fullFallback \in BOOLEAN /\ early = FALSE
  BY DEF BaselineInit
<1>4. calls \subseteq CallRecs /\ transcript \subseteq Nat
  BY DEF BaselineInit
<1> QED BY <1>2, <1>3, <1>4 DEF BaselineIInv

\* A call is sent.
LEMMA SendOK ==
  ASSUME BaselineIInv, NEW x \in CallRecs, Send(x), fullFallback' \in BOOLEAN,
         UNCHANGED <<campaign, contextNo, known, transcript>>, early' = FALSE
  PROVE  BaselineIInv'
BY DEF BaselineIInv, Send

\* A query is sent, of a read or of a write.
LEMMA ReadParamsOK ==
  ASSUME BaselineIInv, NEW op \in {"read", "write"}, NEW p \in Projections, NEW base \in Nat,
         NEW delta \in BOOLEAN, ReadParams(op, p, base, delta),
         UNCHANGED <<campaign, contextNo, known, transcript>>, early' = FALSE
  PROVE  BaselineIInv'
<1>1. [NewCall(op, p) EXCEPT !.base = base, !.delta = delta] \in CallRecs
  BY NewCallOK DEF BaselineIInv
<1>2. fullFallback' \in BOOLEAN
  BY Zenon DEF ReadParams
<1> QED BY <1>1, <1>2, SendOK DEF ReadParams

\* A call that starts takes nothing back.
LEMMA BaselineSendsOK ==
  ASSUME BaselineIInv,
         \/ StartBareWrite
         \/ \E p \in Projections :
              \/ StartPage(p)
              \/ \E base \in 0 .. MaxRevision, delta \in BOOLEAN :
                   StartReading(p, base, delta) \/ StartWrite(p, base, delta)
  PROVE  BaselineIInv'
<1>1. contextNo \in Nat /\ early = FALSE /\ fullFallback \in BOOLEAN
  BY DEF BaselineIInv
<1>2. ASSUME StartBareWrite PROVE BaselineIInv'
  <2>1. early' = FALSE
    BY <1>1, <1>2 DEF StartBareWrite, Drained
  <2>2. NewCall("bare", "live") \in CallRecs
    BY <1>1, NewCallOK, BaselineFacts
  <2> QED BY <1>1, <1>2, <2>1, <2>2, SendOK DEF StartBareWrite
<1>3. ASSUME NEW p \in Projections, StartPage(p) PROVE BaselineIInv'
  <2>1. known[p].page \in CursorRecs
    BY DEF BaselineIInv, KnownRecs
  <2>2. [NewCall("page", p) EXCEPT !.cursor = known[p].page] \in CallRecs
    BY <1>1, <2>1, NewCallOK
  <2> QED BY <1>1, <1>3, <2>2, SendOK DEF StartPage
<1>4. ASSUME NEW p \in Projections, NEW base \in 0 .. MaxRevision, NEW delta \in BOOLEAN,
             StartReading(p, base, delta)
      PROVE  BaselineIInv'
  <2>1. base \in Nat
    OBVIOUS
  <2> QED BY <1>1, <1>4, <2>1, ReadParamsOK DEF StartReading
<1>5. ASSUME NEW p \in Projections, NEW base \in 0 .. MaxRevision, NEW delta \in BOOLEAN,
             StartWrite(p, base, delta)
      PROVE  BaselineIInv'
  <2>1. base \in Nat
    OBVIOUS
  <2>2. early' = FALSE
    BY <1>1, <1>5 DEF StartWrite, Drained
  <2> QED BY <1>5, <2>1, <2>2, ReadParamsOK DEF StartWrite
<1> QED BY <1>2, <1>3, <1>4, <1>5

\* The server answers with a revision of the campaign.
LEMMA ServeOK ==
  ASSUME BaselineIInv, NEW x \in calls, Serve(x)
  PROVE  BaselineIInv'
<1>1. x \in CallRecs /\ x.cursor.rev \in Nat /\ campaign \in Nat
  BY DEF BaselineIInv, CallRecs, CursorRecs
<1>2. PICK partial \in BOOLEAN, base \in {x.base, 0} :
        calls' = (calls \ {x}) \cup
                 {[x EXCEPT !.stage = "served", !.partial = partial, !.base = base,
                            !.rev = IF x.op = "page" THEN x.cursor.rev ELSE campaign]}
  BY DEF Serve
<1>3. (IF x.op = "page" THEN x.cursor.rev ELSE campaign) \in Nat /\ base \in Nat
  BY <1>1 DEF CallRecs
<1>4. \A rev \in Nat : [x EXCEPT !.stage = "served", !.partial = partial, !.base = base,
                                 !.rev = rev] \in CallRecs
  BY <1>1, <1>3 DEF CallRecs
<1> QED BY <1>2, <1>3, <1>4 DEF BaselineIInv, Serve

\* An answer changes what is known of its projection, or nothing, and tells no less.
LEMMA BaselineAnswered ==
  ASSUME BaselineIInv, NEW x \in calls, NEW p \in Projections, NEW k \in KnownRecs,
         calls' = calls \ {x}, UNCHANGED <<campaign, contextNo, early>>,
         fullFallback' \in BOOLEAN, known' = [known EXCEPT ![p] = k],
         transcript \subseteq transcript', transcript' \subseteq Nat,
         k.revision # 0 => k.revision \in transcript'
  PROVE  BaselineIInv'
<1>1. /\ known' \in [Projections -> KnownRecs] /\ known'[p] = k
      /\ \A q \in Projections : q # p => known'[q] = known[q]
  BY DEF BaselineIInv
<1> QED BY <1>1 DEF BaselineIInv

\* What is observed of an answer moves the revision to one that the answer tells.
LEMMA ObservesOK ==
  ASSUME BaselineIInv, NEW x \in calls, Observes(x), calls' = calls \ {x},
         UNCHANGED <<campaign, contextNo, fullFallback, early>>
  PROVE  BaselineIInv'
<1> DEFINE p == x.proj
<1>1. x \in CallRecs /\ p \in Projections /\ x.base \in Nat /\ x.rev \in Nat /\ x.delta \in BOOLEAN
  BY DEF BaselineIInv, CallRecs
<1>2. /\ known \in [Projections -> KnownRecs] /\ known[p] \in KnownRecs
      /\ known = [known EXCEPT ![p] = known[p]]
      /\ known[p].revision # 0 => known[p].revision \in transcript
      /\ fullFallback' \in BOOLEAN /\ transcript \subseteq Nat
  BY <1>1 DEF BaselineIInv
<1>3. transcript \subseteq transcript' /\ transcript' \subseteq Nat
  BY <1>1, <1>2, ToldOK DEF Observes
<1>4. CASE ~Lands(x)
  <2>1. known' = known
    BY <1>4 DEF Observes
  <2> QED BY <1>1, <1>2, <1>3, <2>1, BaselineAnswered
<1>5. CASE Lands(x) /\ x.partial
  <2> DEFINE k == [known[p] EXCEPT !.page = [rev |-> x.rev, base |-> x.base, delta |-> x.delta]]
  <2>1. k \in KnownRecs /\ k.revision = known[p].revision
    BY <1>1, <1>2 DEF KnownRecs, CursorRecs
  <2>2. known' = [known EXCEPT ![p] = k]
    BY <1>5 DEF Observes
  <2> HIDE DEF k
  <2> QED BY <1>1, <1>2, <1>3, <2>1, <2>2, BaselineAnswered
<1>6. CASE Lands(x) /\ ~x.partial
  <2> DEFINE k == Acknowledged(p, x.base, x.delta, x.rev)
  <2>1. known' = [known EXCEPT ![p] = k] /\ transcript' = Told(x.base, x.rev)
    BY <1>6 DEF Observes
  <2>2. k \in KnownRecs /\ (k.revision # 0 => k.revision \in transcript')
    BY <1>1, <2>1, AcknowledgedOK
  <2> HIDE DEF k
  <2> QED BY <1>1, <1>2, <1>3, <2>1, <2>2, BaselineAnswered
<1> QED BY <1>4, <1>5, <1>6

\* The last page of an answer does the same.
LEMMA PageAnsweredOK ==
  ASSUME BaselineIInv, NEW x \in calls, PageAnswered(x)
  PROVE  BaselineIInv'
<1> DEFINE p == x.proj
           c == x.cursor
<1>1. p \in Projections /\ c.base \in Nat /\ c.rev \in Nat /\ c.delta \in BOOLEAN
  BY DEF BaselineIInv, CallRecs, CursorRecs
<1>2. /\ known \in [Projections -> KnownRecs] /\ known[p] \in KnownRecs
      /\ known = [known EXCEPT ![p] = known[p]]
      /\ known[p].revision # 0 => known[p].revision \in transcript
      /\ fullFallback \in BOOLEAN /\ transcript \subseteq Nat
  BY <1>1 DEF BaselineIInv
<1>3. calls' = calls \ {x} /\ UNCHANGED <<campaign, contextNo, fullFallback, early>>
  BY DEF PageAnswered
<1>4. transcript \subseteq transcript' /\ transcript' \subseteq Nat
  <2>1. transcript' = transcript \/ transcript' = Told(c.base, c.rev)
    BY DEF PageAnswered
  <2>2. transcript \subseteq Told(c.base, c.rev) /\ Told(c.base, c.rev) \subseteq Nat
    BY <1>1, <1>2, ToldOK
  <2> QED BY <1>2, <2>1, <2>2
<1>5. CASE Lands(x) /\ known[p].page = c
  <2> DEFINE k == Acknowledged(p, c.base, c.delta, c.rev)
  <2>1. known' = [known EXCEPT ![p] = k] /\ transcript' = Told(c.base, c.rev)
    BY <1>5 DEF PageAnswered, Lands
  <2>2. k \in KnownRecs /\ (k.revision # 0 => k.revision \in transcript')
    BY <1>1, <2>1, AcknowledgedOK
  <2> HIDE DEF k
  <2> QED BY <1>1, <1>2, <1>3, <1>4, <2>1, <2>2, BaselineAnswered
<1>6. CASE ~(Lands(x) /\ known[p].page = c)
  <2>1. known' = known
    BY <1>6 DEF PageAnswered
  <2> QED BY <1>1, <1>2, <1>3, <1>4, <2>1, BaselineAnswered
<1> QED BY <1>5, <1>6

\* Every answer and failure keeps the invariant.
LEMMA BaselineAnswersOK ==
  ASSUME BaselineIInv, NEW x \in calls,
         \/ ReadAnswered(x) \/ PageAnswered(x)
         \/ WriteAnswered(x) \/ WriteFails(x) \/ ReadFailedForGood(x)
  PROVE  BaselineIInv'
<1>1. ASSUME ReadAnswered(x) PROVE BaselineIInv'
  BY <1>1, ObservesOK DEF ReadAnswered
<1>2. ASSUME WriteAnswered(x) PROVE BaselineIInv'
  <2>1. calls' = calls \ {x} /\ UNCHANGED <<campaign, contextNo, fullFallback, early>>
    BY <1>2 DEF WriteAnswered
  <2>2. CASE Observes(x)
    BY <2>1, <2>2, ObservesOK
  <2>3. CASE UNCHANGED <<known, transcript>>
    BY <2>1, <2>3 DEF BaselineIInv
  <2> QED BY <1>2, <2>2, <2>3 DEF WriteAnswered
<1>3. ASSUME WriteFails(x) PROVE BaselineIInv'
  <2>1. calls' = calls \ {x} /\ UNCHANGED <<campaign, contextNo, fullFallback, transcript, early>>
    BY <1>3 DEF WriteFails
  <2>2. \/ known' = known
        \/ known' = [q \in Projections |-> [NothingKnown EXCEPT !.restore = TRUE]]
    BY <1>3 DEF WriteFails
  <2> QED BY <2>1, <2>2, BaselineFacts DEF BaselineIInv
<1>4. ASSUME ReadFailedForGood(x) PROVE BaselineIInv'
  <2>1. /\ calls' = calls \ {x}
        /\ UNCHANGED <<campaign, contextNo, known, transcript, early>>
    BY <1>4 DEF ReadFailedForGood
  <2>2. fullFallback' \in BOOLEAN
    BY <1>4, Zenon DEF ReadFailedForGood
  <2> QED BY <2>1, <2>2 DEF BaselineIInv
<1> QED BY <1>1, <1>2, <1>3, <1>4, PageAnsweredOK

\* The invariant is inductive.
LEMMA BaselineStepOK == BaselineIInv /\ [BaselineNext]_baselineVars => BaselineIInv'
<1>1. BaselineIInv /\ UNCHANGED baselineVars => BaselineIInv'
  BY DEF baselineVars, BaselineIInv
<1>2. ASSUME BaselineIInv, CampaignMoves PROVE BaselineIInv'
  <2>1. campaign' \in Nat
    BY <1>2 DEF BaselineIInv, CampaignMoves
  <2> QED BY <1>2, <2>1 DEF BaselineIInv, CampaignMoves
<1>3. ASSUME BaselineIInv, ResetSession PROVE BaselineIInv'
  <2>1. known' = [p \in Projections |-> NothingKnown]
    BY <1>3 DEF ResetSession
  <2>2. /\ known' \in [Projections -> KnownRecs]
        /\ \A p \in Projections : known'[p].revision = 0
    BY <2>1, BaselineFacts
  <2>3. contextNo \in Nat
    BY <1>3 DEF BaselineIInv
  <2>4. contextNo' \in Nat
    BY <1>3, <2>3 DEF ResetSession
  <2>5. fullFallback' = FALSE /\ transcript' = {}
    BY <1>3 DEF ResetSession
  <2>6. campaign' \in Nat /\ early' = FALSE /\ calls' \subseteq CallRecs
    BY <1>3 DEF BaselineIInv, ResetSession
  <2> QED BY <2>2, <2>4, <2>5, <2>6 DEF BaselineIInv
<1> QED BY <1>1, <1>2, <1>3, BaselineSendsOK, ServeOK, BaselineAnswersOK DEF BaselineNext

\* The acknowledged revision of a campaign can be reconstructed from what the
\* narrator was told, for every number of calls, revisions and resets, and of writes
\* that bring the state after them.
THEOREM BaselinesAreProven == BaselineSpec => []BaselineProven
<1>1. BaselineIInv => BaselineProven
  BY DEF BaselineIInv, BaselineProven
<1> QED BY <1>1, BaselineInitOK, BaselineStepOK, PTL DEF BaselineSpec

-----------------------------------------------------------------------------
(* The game skills and the machine kept awake (DndServices).                *)

SkillIInv ==
  /\ hadAll \in BOOLEAN /\ (hadAll = TRUE => gameSkills.list = "complete")
  /\ gameSkills \in [list : {"none", "partial", "complete"}, fresh : BOOLEAN]

\* The first state.
LEMMA SkillInitOK == ASSUME SkillInit PROVE SkillIInv
BY DEF SkillInit, SkillIInv, NoSkills

\* Every step keeps the invariant.
LEMMA SkillStepOK ==
  ASSUME SkillIInv, [SkillNext]_skillVars
  PROVE  SkillIInv'
<1>1. ASSUME NEW t \in SkillTurns, SkillTaken(t) PROVE SkillIInv'
  <2>1. CASE skillAsk[t].got = "complete"
    <3>1. gameSkills' = [list |-> "complete", fresh |-> TRUE] /\ hadAll' = TRUE
      BY <1>1, <2>1, Zenon DEF SkillTaken
    <3>. QED
      BY <3>1 DEF SkillIInv
  <2>2. CASE skillAsk[t].got # "complete" /\ gameSkills.list = "complete"
    <3>1. UNCHANGED <<gameSkills, hadAll>>
      BY <1>1, <2>2, Zenon DEF SkillTaken, CompleteKept
    <3>. QED
      BY <3>1 DEF SkillIInv
  <2>3. CASE skillAsk[t].got # "complete" /\ gameSkills.list # "complete"
    <3>1. hadAll' = hadAll
          /\ gameSkills' \in {gameSkills, [list |-> "partial", fresh |-> TRUE]}
      BY <1>1, <2>3 DEF SkillTaken, CompleteKept
    <3>2. hadAll \in BOOLEAN /\ (hadAll = TRUE => gameSkills.list = "complete")
          /\ gameSkills \in [list : {"none", "partial", "complete"}, fresh : BOOLEAN]
      BY DEF SkillIInv
    <3>3. hadAll' \in BOOLEAN /\ hadAll' # TRUE
      BY <2>3, <3>1, <3>2, Zenon
    <3>4. gameSkills' \in [list : {"none", "partial", "complete"}, fresh : BOOLEAN]
      <4>1. [list |-> "partial", fresh |-> TRUE]
              \in [list : {"none", "partial", "complete"}, fresh : BOOLEAN]
        OBVIOUS
      <4>. QED
        BY <3>1, <3>2, <4>1, Zenon
    <3>. QED
      BY <3>3, <3>4, Zenon DEF SkillIInv
  <2>. QED
    BY <2>1, <2>2, <2>3
<1>2. ASSUME NEW t \in SkillTurns, SkillAsk(t) \/ SkillListed(t) PROVE SkillIInv'
  <2>1. UNCHANGED <<gameSkills, hadAll>>
    BY <1>2, Zenon DEF SkillAsk, SkillListed
  <2>. QED
    BY <2>1 DEF SkillIInv
<1>3. CASE SkillsExpire
  <2>1. hadAll' = hadAll /\ gameSkills' = [gameSkills EXCEPT !.fresh = FALSE]
    BY <1>3 DEF SkillsExpire
  <2>. QED
    BY <2>1 DEF SkillIInv
<1>4. CASE SkillsUpdated
  <2>1. hadAll' = FALSE /\ gameSkills' = NoSkills
    BY <1>4 DEF SkillsUpdated
  <2>. QED
    BY <2>1 DEF SkillIInv, NoSkills
<1>5. CASE CatalogFills \/ UNCHANGED skillVars
  BY <1>5 DEF SkillIInv, CatalogFills, skillVars
<1>. QED
  BY <1>1, <1>2, <1>3, <1>4, <1>5, Zenon DEF SkillNext

\* However the attempts of the turns, expiries and changes of the skills interleave, a
\* partial list never replaces a complete one (context-lanes.js).
THEOREM CompleteListsStay == SkillSpec => []CompleteStays
<1>1. SkillInit => SkillIInv
  BY SkillInitOK
<1>2. SkillIInv /\ [SkillNext]_skillVars => SkillIInv'
  BY SkillStepOK
<1>3. SkillIInv => CompleteStays
  BY DEF SkillIInv, CompleteStays
<1>. QED
  BY <1>1, <1>2, <1>3, PTL DEF SkillSpec

\* A hold that was kept still holds; what was heard is busy.
AwakeIInv ==
  /\ awakeHeld \in BOOLEAN /\ holdKept \in BOOLEAN /\ (holdKept = TRUE => awakeHeld = TRUE)
  /\ keeper \in {"none", "alive", "ended"}
  /\ KeptAwake

\* The first state.
LEMMA AwakeInitOK == ASSUME AwakeInit PROVE AwakeIInv
BY DEF AwakeInit, AwakeIInv, KeptAwake

\* Every step keeps the invariant.
LEMMA AwakeStepOK ==
  ASSUME AwakeIInv, [AwakeNext]_awakeVars
  PROVE  AwakeIInv'
<1>. USE DEF AwakeIInv, KeptAwake
<1>1. ASSUME NEW s, RunStarts(s) PROVE AwakeIInv'
  BY <1>1 DEF RunStarts, Observe, SyncKeeper, StaysAwake, EnsureKeeper
<1>2. ASSUME NEW s, RunEnds(s) PROVE AwakeIInv'
  BY <1>2 DEF RunEnds, Observe, SyncKeeper, StaysAwake, EnsureKeeper
<1>3. ASSUME NEW s, RunGetsOld(s) PROVE AwakeIInv'
  BY <1>3 DEF RunGetsOld
<1>4. CASE Renew
  BY <1>4 DEF Renew, SyncKeeper, StaysAwake, EnsureKeeper
<1>5. CASE KeeperExits \/ AwakeLoad \/ UNCHANGED awakeVars
  BY <1>5 DEF KeeperExits, AwakeLoad, awakeVars
<1>6. CASE HoldAwake
  BY <1>6 DEF HoldAwake, EnsureKeeper
<1>7. CASE ReleaseAwake
  BY <1>7 DEF ReleaseAwake
<1>8. CASE AwakeUnload
  BY <1>8 DEF AwakeUnload
<1>. QED
  BY <1>1, <1>2, <1>3, <1>4, <1>5, <1>6, <1>7, <1>8 DEF AwakeNext

\* Only the keeper's own end, or an unload, leaves the machine to sleep while a session
\* that was heard of runs or a hold is kept (keep-awake.js).
THEOREM MachinesAreKeptAwake == AwakeSpec => []KeptAwake
<1>1. AwakeInit => AwakeIInv
  BY AwakeInitOK
<1>2. AwakeIInv /\ [AwakeNext]_awakeVars => AwakeIInv'
  BY AwakeStepOK
<1>3. AwakeIInv => KeptAwake
  BY DEF AwakeIInv
<1>. QED
  BY <1>1, <1>2, <1>3, PTL DEF AwakeSpec

-----------------------------------------------------------------------------
(* The routes of the narrator (DndServices, RouteSpec).  A plan that was    *)
(* neither failed nor displaced is that of a kept decision.                 *)

PlanRecs == [chat : Gamers, turn : Nat, state : {"asked", "decided", "failed"}]
DecisionRecs == [chat : Gamers, turn : Nat, plan : Nat]

RouteIInv ==
  /\ routePlans \in Seq(PlanRecs) /\ decisions \subseteq DecisionRecs /\ IsFiniteSet(decisions)
  /\ \A d \in decisions : /\ d.plan \in 1..Len(routePlans)
                          /\ routePlans[d.plan].chat = d.chat /\ routePlans[d.plan].turn = d.turn
                          /\ routePlans[d.plan].state # "failed"
  /\ \A i \in 1..Len(routePlans) :
       routePlans[i].state # "failed" /\ i \notin displaced => \E d \in decisions : d.plan = i
  /\ routedAgain = FALSE

\* The first state.
LEMMA RouteInitOK == ASSUME RouteInit PROVE RouteIInv
BY EmptySeq, FS_EmptySet DEF RouteInit, RouteIInv

\* The bound never drops the newest decision.
LEMMA NewestStays ==
  ASSUME DndServicesAssumption, NEW ds \in SUBSET DecisionRecs, IsFiniteSet(ds), NEW d \in ds,
         \A e \in ds \ {d} : e.plan < d.plan
  PROVE  d \in DecisionsBounded(ds)
<1>1. SUFFICES ASSUME Cardinality(ds) > MaxDecisions, d \in Oldest(ds)
               PROVE  FALSE
  BY DEF DecisionsBounded
<1>2. ds = {d}
  BY <1>1 DEF Oldest, DecisionRecs
<1>3. Cardinality(ds) = 1
  BY <1>2, FS_Singleton
<1>. QED
  BY <1>1, <1>3 DEF DndServicesAssumption

\* A turn without a decision is classified; it had none, or its plan failed or was displaced.
LEMMA ClassifyOK ==
  ASSUME DndServicesAssumption, RouteIInv, NEW s \in Gamers, NEW time \in Nat,
         NarratorAsks(s, time), ~\E d \in DecidedFor(s) : d.turn = time
  PROVE  RouteIInv'
<1>. DEFINE n == Len(routePlans) + 1
            new == [chat |-> s, turn |-> time, plan |-> n]
            all == OtherDecisions(s) \union {new}
            kept == DecisionsBounded(all)
            plan == [chat |-> s, turn |-> time, state |-> "asked"]
<1>1. /\ routePlans \in Seq(PlanRecs) /\ decisions \subseteq DecisionRecs /\ IsFiniteSet(decisions)
      /\ routedAgain = FALSE /\ Len(routePlans) \in Nat
      /\ \A i \in 1..Len(routePlans) : routePlans[i] \in PlanRecs
  BY LenProperties, ElementOfSeq DEF RouteIInv
<1>2. /\ routePlans' = Append(routePlans, plan) /\ decisions' = kept
      /\ displaced' = displaced \union (PlansIn(decisions) \ PlansIn(kept))
      /\ routedAgain' = (routedAgain \/ \E i \in DOMAIN routePlans :
           routePlans[i].chat = s /\ routePlans[i].turn = time
             /\ routePlans[i].state # "failed" /\ i \notin displaced)
  BY Zenon DEF NarratorAsks
<1>3. /\ plan \in PlanRecs /\ plan.chat = s /\ plan.turn = time /\ plan.state = "asked"
      /\ new \in DecisionRecs /\ new.plan = n /\ new.chat = s /\ new.turn = time /\ n \in Nat
  BY <1>1 DEF PlanRecs, DecisionRecs
<1>. HIDE DEF plan, new, kept
<1>4. /\ routePlans' \in Seq(PlanRecs) /\ Len(routePlans') = n
      /\ \A i \in 1..Len(routePlans) : routePlans'[i] = routePlans[i]
      /\ routePlans'[n] = plan
  BY <1>1, <1>2, <1>3, AppendProperties
<1>5. \A d \in decisions : d.plan < n /\ d.plan \in Nat
  BY <1>1 DEF RouteIInv, DecisionRecs
<1>6. all \in SUBSET DecisionRecs /\ IsFiniteSet(all) /\ \A e \in all \ {new} : e.plan < new.plan
  <2>1. OtherDecisions(s) \subseteq decisions
    BY DEF OtherDecisions
  <2>2. IsFiniteSet(OtherDecisions(s))
    BY <1>1, <2>1, FS_Subset
  <2>3. IsFiniteSet(all)
    BY <2>2, FS_AddElement
  <2>. QED
    BY <1>1, <1>3, <1>5, <2>1, <2>3
<1>7. new \in kept /\ kept \subseteq all /\ IsFiniteSet(kept)
  <2>1. new \in kept
    BY <1>6, NewestStays DEF kept
  <2>2. kept \subseteq all
    BY DEF DecisionsBounded, kept
  <2>3. IsFiniteSet(kept)
    BY <1>6, <2>2, FS_Subset
  <2>. QED
    BY <2>1, <2>2, <2>3
<1>8. \A d \in kept : d = new \/ d \in decisions
  BY <1>7 DEF OtherDecisions
<1>9. routedAgain' = FALSE
  <2>1. ASSUME NEW i \in DOMAIN routePlans, routePlans[i].chat = s, routePlans[i].turn = time,
               routePlans[i].state # "failed", i \notin displaced
        PROVE  FALSE
    <3>1. i \in 1..Len(routePlans)
      BY <1>1, <2>1
    <3>2. PICK d \in decisions : d.plan = i
      BY <2>1, <3>1 DEF RouteIInv
    <3>3. d.chat = s /\ d.turn = time
      BY <2>1, <3>2 DEF RouteIInv
    <3>. QED
      BY <3>3 DEF DecidedFor
  <2>. QED
    BY <1>1, <1>2, <2>1, Zenon
<1>10. \A d \in decisions' :
         /\ d.plan \in 1..Len(routePlans')
         /\ routePlans'[d.plan].chat = d.chat /\ routePlans'[d.plan].turn = d.turn
         /\ routePlans'[d.plan].state # "failed"
  BY <1>1, <1>2, <1>3, <1>4, <1>8 DEF RouteIInv
<1>11. ASSUME NEW i \in 1..Len(routePlans'), routePlans'[i].state # "failed", i \notin displaced'
       PROVE  \E d \in decisions' : d.plan = i
  <2>1. CASE i = n
    BY <1>2, <1>3, <1>7, <2>1
  <2>2. CASE i # n
    <3>1. i \in 1..Len(routePlans)
      BY <1>1, <1>4, <2>2
    <3>2. PICK d \in decisions : d.plan = i
      BY <1>2, <1>4, <1>11, <3>1 DEF RouteIInv
    <3>3. i \in PlansIn(decisions)
      BY <3>2 DEF PlansIn
    <3>4. i \in PlansIn(kept)
      BY <1>2, <1>11, <3>3
    <3>. QED
      BY <1>2, <3>4 DEF PlansIn
  <2>. QED
    BY <2>1, <2>2
<1>12. decisions' \subseteq DecisionRecs /\ IsFiniteSet(decisions')
  BY <1>2, <1>6, <1>7
<1>. QED
  BY <1>4, <1>9, <1>10, <1>11, <1>12 DEF RouteIInv

\* The state of a plan changes; a failed one loses its decision.
LEMMA RouterOK ==
  ASSUME RouteIInv, NEW n \in DOMAIN routePlans, RouterFails(n) \/ RouterAnswers(n)
  PROVE  RouteIInv'
<1>1. /\ routePlans \in Seq(PlanRecs) /\ n \in 1..Len(routePlans) /\ routePlans[n] \in PlanRecs
      /\ Len(routePlans) \in Nat /\ \A i \in 1..Len(routePlans) : routePlans[i] \in PlanRecs
  BY LenProperties, ElementOfSeq DEF RouteIInv
<1>2. PICK state \in {"decided", "failed"} :
        /\ routePlans' = [routePlans EXCEPT ![n].state = state]
        /\ decisions' = (IF state = "failed" THEN {d \in decisions : d.plan # n} ELSE decisions)
        /\ UNCHANGED <<displaced, routedAgain>>
  <2>1. CASE RouterAnswers(n)
    BY <2>1 DEF RouterAnswers
  <2>2. CASE RouterFails(n) /\ Strict
    BY <2>2 DEF RouterFails, FailureForgotten
  <2>3. CASE RouterFails(n) /\ ~Strict
    BY <2>3 DEF RouterFails
  <2>. QED
    BY <2>1, <2>2, <2>3
<1>. DEFINE r == [routePlans[n] EXCEPT !.state = state]
<1>3. r \in PlanRecs /\ r.chat = routePlans[n].chat /\ r.turn = routePlans[n].turn
      /\ r.state = state
  BY <1>1 DEF PlanRecs
<1>4. routePlans' = [routePlans EXCEPT ![n] = r]
  BY <1>2, Zenon
<1>. HIDE DEF r
<1>5. /\ routePlans' \in Seq(PlanRecs) /\ Len(routePlans') = Len(routePlans)
      /\ routePlans'[n] = r
      /\ \A i \in 1..Len(routePlans) : i # n => routePlans'[i] = routePlans[i]
  BY <1>1, <1>3, <1>4, ExceptSeq
<1>6. decisions' \subseteq decisions /\ IsFiniteSet(decisions')
  <2>1. decisions' \subseteq decisions
    BY <1>2
  <2>. QED
    BY <2>1, FS_Subset DEF RouteIInv
<1>7. \A d \in decisions' :
        /\ d.plan \in 1..Len(routePlans')
        /\ routePlans'[d.plan].chat = d.chat /\ routePlans'[d.plan].turn = d.turn
        /\ routePlans'[d.plan].state # "failed"
  BY <1>1, <1>2, <1>3, <1>5, <1>6 DEF RouteIInv
<1>8. ASSUME NEW i \in 1..Len(routePlans'), routePlans'[i].state # "failed", i \notin displaced'
      PROVE  \E d \in decisions' : d.plan = i
  <2>1. routePlans[i].state # "failed"
    BY <1>1, <1>2, <1>3, <1>5, <1>8 DEF RouterFails, RouterAnswers
  <2>2. PICK d \in decisions : d.plan = i
    BY <1>2, <1>5, <1>8, <2>1 DEF RouteIInv
  <2>3. d \in decisions'
    BY <1>2, <1>3, <1>5, <1>8, <2>2
  <2>. QED
    BY <2>2, <2>3
<1>. QED
  BY <1>2, <1>5, <1>6, <1>7, <1>8 DEF RouteIInv

\* Every step keeps the invariant.
LEMMA RouteStepOK ==
  ASSUME DndServicesAssumption, RouteIInv, [RouteNext]_routeVars
  PROVE  RouteIInv'
<1>1. ASSUME NEW s \in Gamers, NEW time \in 1..MaxGameTurns, NarratorAsks(s, time)
      PROVE  RouteIInv'
  <2>1. time \in Nat
    OBVIOUS
  <2>2. CASE \E d \in DecidedFor(s) : d.turn = time
    <3>1. UNCHANGED <<routePlans, decisions, displaced, routedAgain>>
      BY <1>1, <2>2 DEF NarratorAsks
    <3>. QED
      BY <3>1 DEF RouteIInv
  <2>3. CASE ~\E d \in DecidedFor(s) : d.turn = time
    BY <1>1, <2>1, <2>3, ClassifyOK
  <2>. QED
    BY <2>2, <2>3
<1>2. CASE \E n \in DOMAIN routePlans : RouterFails(n) \/ RouterAnswers(n)
  BY <1>2, RouterOK
<1>3. CASE \/ \E s \in Gamers : GameTurn(s)
           \/ \E a \in narrations : NarratorGoes(a)
           \/ UNCHANGED routeVars
  BY <1>3 DEF RouteIInv, GameTurn, NarratorGoes, routeVars
<1>. QED
  BY <1>1, <1>2, <1>3, Zenon DEF RouteNext

\* Whatever the order of steps, answers and failures, a turn is classified again only
\* after its plan failed or its decision gave way (dnd-super-orchestrator.js).
THEOREM TurnsAreRoutedOnce == RouteSpec => []RoutedOnce
<1>1. RouteInit => RouteIInv
  BY RouteInitOK
<1>2. RouteIInv /\ [RouteNext]_routeVars => RouteIInv'
  BY DndServicesAssumption, RouteStepOK
<1>3. RouteIInv => RoutedOnce
  BY DEF RouteIInv, RoutedOnce
<1>. QED
  BY <1>1, <1>2, <1>3, PTL DEF RouteSpec

-----------------------------------------------------------------------------
(* The art job (DndServices, ArtSpec).  An image that was made has a file,  *)
(* its record still says generating, or was forgotten; the index is read as *)
(* empty before it is extended; our asset was published.                    *)

ArtRecs == [status : {"planned", "generating", "generated", "published", "existing", "ready"},
            file : BOOLEAN, publication : BOOLEAN, grant : BOOLEAN, uploaded : BOOLEAN,
            asset : BOOLEAN]
SeenRecs == [job : {"none", "available", "failed", "claimed", "ready", "us", "other"},
             head : Nat, push : Nat, result : BOOLEAN]
JobRecs == [status : {"available", "failed", "claimed", "ready"}, by : {"none", "us", "other"}]
LibraryRecs == [head : Nat, listed : {0, 1}]
OdmRecs == [staged : BOOLEAN, asset : BOOLEAN, image : BOOLEAN]

ArtTypes ==
  /\ art \in ArtRecs /\ artSeen \in SeenRecs /\ artJob \in JobRecs
  /\ artLibrary \in LibraryRecs /\ odm \in OdmRecs /\ artImages \in Nat
  /\ artForgot \in Nat
ArtStages ==
  /\ artStage = "generate" => /\ art.status = "generating" /\ art.file = FALSE
                             /\ artImages <= artForgot
  /\ artStage \in {"publish", "push", "submit", "upload", "asset", "finish"} => art.file = TRUE
  /\ artStage = "push" => artLibrary.listed = 0
  /\ artStage \in {"submit", "upload", "asset", "finish"} => art.publication = TRUE
ArtRecord ==
  /\ artImages <= 1 + artForgot
  /\ art.file = FALSE /\ art.status # "generating" => artImages <= artForgot
  /\ art.file = TRUE => artImages >= 1
  /\ art.publication = TRUE => art.file = TRUE /\ artLibrary.listed = 1
  /\ artSeen.result = TRUE => odm.asset = TRUE
  /\ odm.asset = TRUE => art.publication = TRUE
  /\ art.asset = TRUE => odm.asset = TRUE

ArtIInv == ArtTypes /\ ArtStages /\ ArtRecord

\* Nothing was read.
LEMMA NothingSeenOK == NothingSeen \in SeenRecs /\ NothingSeen.result = FALSE
BY DEF NothingSeen, SeenRecs

\* The first state.
LEMMA ArtInitOK ==
  ASSUME ArtInit
  PROVE  ArtIInv
<1>1. /\ NewArt \in ArtRecs /\ NewArt.file = FALSE /\ NewArt.publication = FALSE
      /\ NewArt.asset = FALSE
  BY DEF NewArt, ArtRecs
<1>2. /\ artJob \in JobRecs /\ artJob.status = "available"
      /\ artLibrary \in LibraryRecs /\ odm \in OdmRecs /\ odm.asset = FALSE
      /\ artImages = 0 /\ artForgot = 0
  BY DEF ArtInit, JobRecs, LibraryRecs, OdmRecs
<1>. QED
  BY <1>1, <1>2, NothingSeenOK DEF ArtInit, ArtIInv, ArtTypes, ArtStages, ArtRecord

\* The target has an image: a generation under way is forgotten.
LEMMA ArtExistsOK ==
  ASSUME ArtIInv, NEW kept \in {art, [art EXCEPT !.grant = FALSE]}, ArtExists(kept),
         UNCHANGED <<artJob, artLibrary, odm, artImages>>
  PROVE  ArtIInv'
<1>1. /\ art' = [kept EXCEPT !.status = "existing"]
      /\ artStage' = "idle" /\ artSeen' = NothingSeen
  BY DEF ArtExists, ArtStops
<1>2. /\ art \in ArtRecs /\ kept \in ArtRecs /\ kept.file = art.file
      /\ kept.publication = art.publication /\ kept.asset = art.asset
  BY DEF ArtIInv, ArtTypes, ArtRecs
<1>3. /\ art' \in ArtRecs /\ art'.file = art.file /\ art'.publication = art.publication
      /\ art'.asset = art.asset /\ art'.status = "existing"
  BY <1>1, <1>2 DEF ArtRecs
<1>4. /\ artImages \in Nat /\ artForgot \in Nat /\ artForgot' \in Nat /\ artForgot' >= artForgot
      /\ (art.status = "generating" => artForgot' = artForgot + 1)
      /\ (art.status # "generating" => artForgot' = artForgot)
  BY DEF ArtExists, ArtIInv, ArtTypes
<1>5. /\ artImages <= 1 + artForgot'
      /\ art.file = FALSE => artImages <= artForgot'
      /\ art.file = TRUE => artImages >= 1
  BY <1>4 DEF ArtIInv, ArtRecord
<1>6. ArtTypes'
  BY <1>1, <1>3, <1>4, NothingSeenOK DEF ArtIInv, ArtTypes
<1>7. ArtRecord'
  BY <1>1, <1>3, <1>5, NothingSeenOK DEF ArtIInv, ArtRecord
<1>. QED
  BY <1>1, <1>6, <1>7 DEF ArtIInv, ArtStages

\* A run starts: it reads the plan, and may stop.
LEMMA ArtRunOK ==
  ASSUME ArtIInv, ArtRun
  PROVE  ArtIInv'
<1>1. UNCHANGED <<artJob, artLibrary, odm, artImages>>
  BY DEF ArtRun, artOutside
<1>2. CASE artJob.status = "ready" /\ ~art.asset
  <2>1. ArtExists([art EXCEPT !.grant = FALSE])
    BY <1>2, Zenon DEF ArtRun
  <2>. QED
    BY <1>1, <2>1, ArtExistsOK
<1>3. CASE ~(artJob.status = "ready" /\ ~art.asset)
  <2>. DEFINE job == IF artJob.status = "claimed" THEN artJob.by ELSE artJob.status
  <2>1. /\ artStage' \in {"look", "claim"} /\ UNCHANGED <<art, artForgot>>
        /\ artSeen' = [NothingSeen EXCEPT !.job = job]
    BY <1>3 DEF ArtRun
  <2>2. job \in {"none", "available", "failed", "claimed", "ready", "us", "other"}
    BY DEF ArtIInv, ArtTypes, JobRecs
  <2>. HIDE DEF job
  <2>3. artSeen' \in SeenRecs /\ artSeen'.result = FALSE
    BY <2>1, <2>2, NothingSeenOK DEF SeenRecs
  <2>. QED
    BY <1>1, <2>1, <2>3 DEF ArtIInv, ArtTypes, ArtStages, ArtRecord
<1>. QED
  BY <1>2, <1>3

\* It looks for an image of the target, and may stop.
LEMMA ArtLookOK ==
  ASSUME ArtIInv, ArtLook
  PROVE  ArtIInv'
<1>1. UNCHANGED <<artJob, artLibrary, odm, artImages>>
  BY DEF ArtLook, artOutside
<1>2. CASE odm.image /\ ~art.file
  <2>1. ArtExists(art)
    BY <1>2, Zenon DEF ArtLook
  <2>. QED
    BY <1>1, <2>1, ArtExistsOK
<1>3. CASE ~(odm.image /\ ~art.file)
  <2>1. artStage' = "claim" /\ UNCHANGED <<art, artSeen, artForgot>>
    BY <1>3, Zenon DEF ArtLook
  <2>. QED
    BY <1>1, <2>1 DEF ArtIInv, ArtTypes, ArtStages, ArtRecord
<1>. QED
  BY <1>2, <1>3

\* Claiming the job leaves the record.
LEMMA ArtClaimOK ==
  ASSUME ArtIInv, ArtClaim
  PROVE  ArtIInv'
<1>1. UNCHANGED <<art, artLibrary, odm, artImages, artForgot>>
  BY DEF ArtClaim
<1>2. /\ artStage' \in {"image", "idle"} /\ artSeen' \in {artSeen, NothingSeen}
      /\ artJob' \in {artJob, [status |-> "claimed", by |-> "us"]}
  BY DEF ArtClaim, ArtStops
<1>3. /\ artJob' \in JobRecs
      /\ artSeen' \in SeenRecs /\ (artSeen'.result = TRUE => artSeen' = artSeen)
  BY <1>2, NothingSeenOK DEF ArtIInv, ArtTypes, JobRecs
<1>. QED
  BY <1>1, <1>2, <1>3 DEF ArtIInv, ArtTypes, ArtStages, ArtRecord

\* An image is only started when none was made, or what was made is forgotten.
LEMMA ArtGenerateOK ==
  ASSUME ArtIInv, ArtGenerate
  PROVE  ArtIInv'
<1>1. UNCHANGED <<artJob, artLibrary, odm, artImages, artForgot>> /\ artStage = "image"
  BY DEF ArtGenerate, artOutside
<1>2. CASE art.file
  BY <1>1, <1>2 DEF ArtGenerate, ArtIInv, ArtTypes, ArtStages, ArtRecord, ArtRecs
<1>3. CASE ~art.file /\ MayGenerate
  <2>1. /\ art' = [art EXCEPT !.status = "generating"] /\ artStage' = "generate"
        /\ artSeen' = artSeen /\ art.status # "generating"
    BY <1>3 DEF ArtGenerate, MayGenerate
  <2>2. /\ art' \in ArtRecs /\ art'.status = "generating" /\ art'.file = art.file
        /\ art'.publication = art.publication /\ art'.asset = art.asset /\ art.file = FALSE
    BY <1>3, <2>1 DEF ArtIInv, ArtTypes, ArtRecs
  <2>. QED
    BY <1>1, <2>1, <2>2 DEF ArtIInv, ArtTypes, ArtStages, ArtRecord
<1>4. CASE ~art.file /\ ~MayGenerate
  <2>1. art' = art /\ artStage' = "idle" /\ artSeen' = NothingSeen
    BY <1>4 DEF ArtGenerate, ArtStops
  <2>. QED
    BY <1>1, <2>1, NothingSeenOK DEF ArtIInv, ArtTypes, ArtStages, ArtRecord
<1>. QED
  BY <1>2, <1>3, <1>4

\* The image is made once; a lost answer leaves the record at generating.
LEMMA ArtImageOK ==
  ASSUME ArtIInv, NEW replied \in BOOLEAN, ArtImage(replied)
  PROVE  ArtIInv'
<1>1. /\ UNCHANGED <<artJob, artLibrary, odm, artForgot>> /\ art.status = "generating"
      /\ art.file = FALSE /\ artImages <= artForgot /\ artImages \in Nat /\ artForgot \in Nat
      /\ artImages' = artImages + 1
  BY DEF ArtImage, ArtIInv, ArtTypes, ArtStages
<1>2. artImages' \in Nat /\ artImages' <= 1 + artForgot' /\ artImages' >= 1
  BY <1>1
<1>3. CASE replied
  <2>1. /\ art' = [art EXCEPT !.file = TRUE, !.status = "generated"] /\ artStage' = "publish"
        /\ artSeen' = artSeen
    BY <1>3 DEF ArtImage
  <2>2. /\ art' \in ArtRecs /\ art'.file = TRUE /\ art'.publication = art.publication
        /\ art'.asset = art.asset
    BY <2>1 DEF ArtIInv, ArtTypes, ArtRecs
  <2>. QED
    BY <1>1, <1>2, <2>1, <2>2 DEF ArtIInv, ArtTypes, ArtStages, ArtRecord
<1>4. CASE ~replied
  <2>1. art' = art /\ artStage' = "idle" /\ artSeen' = NothingSeen
    BY <1>4 DEF ArtImage, ArtStops
  <2>. QED
    BY <1>1, <1>2, <2>1, NothingSeenOK DEF ArtIInv, ArtTypes, ArtStages, ArtRecord
<1>. QED
  BY <1>3, <1>4

\* The index is read: the image is listed, or the ref is moved from this head.
LEMMA ArtReadIndexOK ==
  ASSUME ArtIInv, ArtReadIndex
  PROVE  ArtIInv'
<1>1. /\ UNCHANGED <<artJob, artLibrary, odm, artImages, artForgot>> /\ artStage = "publish"
      /\ art.file = TRUE /\ art \in ArtRecs /\ artSeen \in SeenRecs
      /\ artLibrary.head \in Nat /\ artLibrary.listed \in {0, 1}
  BY DEF ArtReadIndex, artOutside, ArtIInv, ArtStages, ArtTypes, LibraryRecs
<1>2. CASE art.publication
  <2>1. artStage' = "submit" /\ art' = art /\ artSeen' = artSeen
    BY <1>2 DEF ArtReadIndex
  <2>2. art.publication = TRUE
    BY <1>2 DEF ArtIInv, ArtTypes, ArtRecs
  <2>. QED
    BY <1>1, <2>1, <2>2 DEF ArtIInv, ArtTypes, ArtStages, ArtRecord
<1>3. CASE ~art.publication /\ ImageListed
  <2>1. /\ artStage' = "submit" /\ artSeen' = artSeen
        /\ art' = [art EXCEPT !.publication = TRUE, !.status = "published"]
        /\ artLibrary.listed > 0
    BY <1>3 DEF ArtReadIndex, ImageListed
  <2>2. /\ art' \in ArtRecs /\ art'.file = TRUE /\ art'.publication = TRUE
        /\ art'.asset = art.asset
    BY <1>1, <2>1 DEF ArtRecs
  <2>3. artLibrary.listed = 1
    BY <1>1, <2>1
  <2>. QED
    BY <1>1, <2>1, <2>2, <2>3 DEF ArtIInv, ArtTypes, ArtStages, ArtRecord
<1>4. CASE ~art.publication /\ ~ImageListed
  <2>1. /\ artStage' = "push" /\ art' = art
        /\ artSeen' = [artSeen EXCEPT !.head = artLibrary.head, !.push = @ + 1]
        /\ ~(artLibrary.listed > 0)
    BY <1>4 DEF ArtReadIndex, ImageListed
  <2>2. artSeen' \in SeenRecs /\ artSeen'.result = artSeen.result
    <3>1. artSeen' = [artSeen EXCEPT !.head = artLibrary.head, !.push = artSeen.push + 1]
      BY <2>1
    <3>2. artSeen.push \in Nat /\ artSeen.push + 1 \in Nat
      BY <1>1 DEF SeenRecs
    <3>. QED
      BY <1>1, <3>1, <3>2, Zenon DEF SeenRecs
  <2>3. artLibrary.listed = 0
    BY <1>1, <2>1
  <2>. QED
    BY <1>1, <2>1, <2>2, <2>3 DEF ArtIInv, ArtTypes, ArtStages, ArtRecord
<1>. QED
  BY <1>2, <1>3, <1>4

\* The ref moves from an index without the image, acknowledged or not.
LEMMA ArtPushOK ==
  ASSUME ArtIInv, NEW replied \in BOOLEAN, ArtPush(replied)
  PROVE  ArtIInv'
<1>1. /\ UNCHANGED <<artJob, odm, artImages, artForgot>> /\ artStage = "push" /\ art.file = TRUE
      /\ artLibrary \in LibraryRecs /\ artLibrary.listed = 0
      /\ art.publication = FALSE
  BY DEF ArtPush, ArtIInv, ArtStages, ArtTypes, ArtRecord, ArtRecs
<1>2. CASE artLibrary.head = artSeen.head
  <2>1. artLibrary' = [head |-> artLibrary.head + 1, listed |-> artLibrary.listed + 1]
    BY <1>2, Zenon DEF ArtPush
  <2>2. artLibrary' \in LibraryRecs /\ artLibrary'.listed = 1
    BY <1>1, <2>1 DEF LibraryRecs
  <2>3. CASE replied
    <3>1. /\ art' = [art EXCEPT !.publication = TRUE, !.status = "published"]
          /\ artStage' = "submit" /\ artSeen' = artSeen
      BY <1>2, <2>3, Zenon DEF ArtPush
    <3>2. /\ art' \in ArtRecs /\ art'.file = TRUE /\ art'.publication = TRUE
          /\ art'.asset = art.asset
      BY <1>1, <3>1 DEF ArtIInv, ArtTypes, ArtRecs
    <3>. QED
      BY <1>1, <2>2, <3>1, <3>2 DEF ArtIInv, ArtTypes, ArtStages, ArtRecord
  <2>4. CASE ~replied
    <3>1. /\ art' = art /\ artStage' \in {"publish", "idle"} /\ artSeen' \in {artSeen, NothingSeen}
      BY <1>2, <2>4 DEF ArtPush, ArtStops
    <3>2. artSeen' \in SeenRecs /\ (artSeen'.result = TRUE => artSeen' = artSeen)
      BY <3>1, NothingSeenOK DEF ArtIInv, ArtTypes
    <3>. QED
      BY <1>1, <2>2, <3>1, <3>2 DEF ArtIInv, ArtTypes, ArtStages, ArtRecord
  <2>. QED
    BY <2>3, <2>4
<1>3. CASE artLibrary.head # artSeen.head
  <2>1. /\ artLibrary' = artLibrary /\ art' = art /\ artStage' \in {"publish", "idle"}
        /\ artSeen' \in {artSeen, NothingSeen}
    BY <1>3 DEF ArtPush, ArtStops
  <2>2. artSeen' \in SeenRecs /\ (artSeen'.result = TRUE => artSeen' = artSeen)
    BY <2>1, NothingSeenOK DEF ArtIInv, ArtTypes
  <2>. QED
    BY <1>1, <2>1, <2>2 DEF ArtIInv, ArtTypes, ArtStages, ArtRecord
<1>. QED
  BY <1>2, <1>3

\* ODM holds the asset once it accepted a submission.
LEMMA AssetSubmittedOK ==
  ASSUME ArtIInv, AssetSubmitted
  PROVE  odm' \in OdmRecs /\ odm'.asset = TRUE /\ artJob' \in JobRecs
<1>1. /\ odm' = IF odm.asset THEN odm ELSE [odm EXCEPT !.asset = TRUE, !.image = TRUE]
      /\ artJob' \in {artJob, [status |-> "ready", by |-> "us"]}
  BY DEF AssetSubmitted
<1>2. odm' \in OdmRecs /\ odm'.asset = TRUE
  BY <1>1 DEF ArtIInv, ArtTypes, OdmRecs
<1>3. artJob \in JobRecs /\ [status |-> "ready", by |-> "us"] \in JobRecs
  BY DEF ArtIInv, ArtTypes, JobRecs
<1>. QED
  BY <1>1, <1>2, <1>3

\* The same submission first: what it finds accepted is there.
LEMMA ArtSubmitFirstOK ==
  ASSUME ArtIInv, NEW replied \in BOOLEAN, ArtSubmitFirst(replied)
  PROVE  ArtIInv'
<1>1. /\ UNCHANGED <<art, artLibrary, artImages, artForgot>> /\ artStage' \in {"finish", "upload"}
      /\ art.file = TRUE /\ art.publication = TRUE
  BY DEF ArtSubmitFirst, ArtIInv, ArtStages
<1>2. CASE ~art.asset /\ art.grant /\ ~art.uploaded
  <2>. DEFINE b == AssetAccepted /\ replied
  <2>1. b \in BOOLEAN /\ (b = TRUE => AssetAccepted)
    BY Zenon DEF AssetAccepted
  <2>2. artSeen' = [artSeen EXCEPT !.result = b]
    BY <1>2, Zenon DEF ArtSubmitFirst
  <2>. HIDE DEF b
  <2>3. artSeen' \in SeenRecs /\ artSeen'.result = b
    BY <2>1, <2>2 DEF ArtIInv, ArtTypes, SeenRecs
  <2>4. /\ odm' \in OdmRecs /\ artJob' \in JobRecs
        /\ (AssetAccepted => odm'.asset = TRUE)
        /\ ~AssetAccepted => UNCHANGED <<odm, artJob>>
    <3>1. CASE AssetAccepted
      <4>1. AssetSubmitted
        BY <1>2, <3>1, Zenon DEF ArtSubmitFirst
      <4>. QED
        BY <3>1, <4>1, AssetSubmittedOK
    <3>2. CASE ~AssetAccepted
      <4>1. UNCHANGED <<odm, artJob>>
        BY <1>2, <3>2, Zenon DEF ArtSubmitFirst
      <4>. QED
        BY <3>2, <4>1 DEF ArtIInv, ArtTypes
    <3>. QED
      BY <3>1, <3>2
  <2>5. ArtRecord'
    BY <1>1, <2>1, <2>3, <2>4 DEF ArtIInv, ArtRecord
  <2>. QED
    BY <1>1, <2>3, <2>4, <2>5 DEF ArtIInv, ArtTypes, ArtStages
<1>3. CASE ~(~art.asset /\ art.grant /\ ~art.uploaded)
  <2>1. UNCHANGED <<odm, artJob, artSeen>>
    BY <1>3, Zenon DEF ArtSubmitFirst
  <2>. QED
    BY <1>1, <2>1 DEF ArtIInv, ArtTypes, ArtStages, ArtRecord
<1>. QED
  BY <1>2, <1>3

\* The grant is saved, the bytes are staged.
LEMMA ArtUploadOK ==
  ASSUME ArtIInv, NEW replied \in BOOLEAN, ArtUpload(replied)
  PROVE  ArtIInv'
<1>1. /\ UNCHANGED <<artJob, artLibrary, artImages, artForgot>> /\ artStage = "upload"
      /\ art.file = TRUE /\ art.publication = TRUE
      /\ art \in ArtRecs /\ odm \in OdmRecs
  BY DEF ArtUpload, ArtIInv, ArtStages, ArtTypes
<1>2. /\ odm' \in {odm, [odm EXCEPT !.staged = TRUE], [odm EXCEPT !.staged = FALSE]}
      /\ art' \in {art, [art EXCEPT !.grant = TRUE], [art EXCEPT !.uploaded = TRUE]}
      /\ artStage' \in {"upload", "asset", "idle"} /\ artSeen' \in {artSeen, NothingSeen}
  BY <1>1 DEF ArtUpload, ArtStops
<1>3. /\ odm' \in OdmRecs /\ odm'.asset = odm.asset
      /\ art' \in ArtRecs /\ art'.file = art.file /\ art'.publication = art.publication
      /\ art'.asset = art.asset /\ art'.status = art.status
  BY <1>1, <1>2 DEF OdmRecs, ArtRecs
<1>4. artSeen' \in SeenRecs /\ (artSeen'.result = TRUE => artSeen' = artSeen)
  BY <1>2, NothingSeenOK DEF ArtIInv, ArtTypes
<1>. QED
  BY <1>1, <1>2, <1>3, <1>4 DEF ArtIInv, ArtTypes, ArtStages, ArtRecord

\* The asset was accepted before, or is now.
LEMMA ArtAssetOK ==
  ASSUME ArtIInv, NEW replied \in BOOLEAN, ArtAsset(replied)
  PROVE  ArtIInv'
<1>1. /\ UNCHANGED <<artLibrary, artImages, artForgot>> /\ art.file = TRUE /\ art.publication = TRUE
      /\ art \in ArtRecs
  BY DEF ArtAsset, ArtIInv, ArtStages, ArtTypes
<1>2. odm' \in OdmRecs /\ odm'.asset = TRUE /\ artJob' \in JobRecs
  <2>1. CASE artSeen.result
    <3>1. UNCHANGED <<odm, artJob>> /\ artSeen.result = TRUE
      BY <2>1 DEF ArtAsset, ArtIInv, ArtTypes, SeenRecs
    <3>. QED
      BY <3>1 DEF ArtIInv, ArtTypes, ArtRecord
  <2>2. CASE ~artSeen.result
    <3>1. AssetSubmitted
      BY <2>2, Zenon DEF ArtAsset
    <3>. QED
      BY <3>1, AssetSubmittedOK
  <2>. QED
    BY <2>1, <2>2
<1>3. /\ art' \in {art, [art EXCEPT !.asset = TRUE]}
      /\ artStage' \in {"finish", "idle"} /\ artSeen' \in {artSeen, NothingSeen}
  BY DEF ArtAsset, ArtStops
<1>4. /\ art' \in ArtRecs /\ art'.file = TRUE /\ art'.publication = TRUE
      /\ art'.status = art.status
  BY <1>1, <1>3 DEF ArtRecs
<1>5. artSeen' \in SeenRecs
  BY <1>3, NothingSeenOK DEF ArtIInv, ArtTypes
<1>. QED
  BY <1>1, <1>2, <1>3, <1>4, <1>5 DEF ArtIInv, ArtTypes, ArtStages, ArtRecord

\* The run ends, well or not.
LEMMA ArtEndsOK ==
  ASSUME ArtIInv, ArtFinish \/ ArtBreaks
  PROVE  ArtIInv'
<1>1. /\ UNCHANGED <<artJob, artLibrary, odm, artImages, artForgot>> /\ artStage' = "idle"
      /\ artSeen' = NothingSeen
  BY DEF ArtFinish, ArtBreaks, ArtFails, ArtStops, artOutside
<1>2. CASE ArtBreaks
  <2>1. art' = art
    BY <1>2 DEF ArtBreaks, ArtFails
  <2>. QED
    BY <1>1, <2>1, NothingSeenOK DEF ArtIInv, ArtTypes, ArtStages, ArtRecord
<1>3. CASE ArtFinish
  <2>1. art' = [art EXCEPT !.status = "ready", !.grant = FALSE] /\ art.file = TRUE
    BY <1>3 DEF ArtFinish, ArtIInv, ArtStages
  <2>2. /\ art' \in ArtRecs /\ art'.file = TRUE /\ art'.publication = art.publication
        /\ art'.asset = art.asset
    BY <2>1 DEF ArtIInv, ArtTypes, ArtRecs
  <2>. QED
    BY <1>1, <2>1, <2>2, NothingSeenOK DEF ArtIInv, ArtTypes, ArtStages, ArtRecord
<1>. QED
  BY <1>2, <1>3

\* The lease of the job and the commits of others.
LEMMA OutsideOK ==
  ASSUME ArtIInv, JobMoves \/ LibraryMoves
  PROVE  ArtIInv'
<1>1. UNCHANGED <<art, artStage, artSeen, artImages, artForgot>>
  BY DEF JobMoves, LibraryMoves
<1>2. CASE JobMoves
  <2>1. PICK next \in {artJob, [status |-> "available", by |-> "none"],
                      [status |-> "claimed", by |-> "other"], [status |-> "ready", by |-> "other"]},
             image \in BOOLEAN :
          artJob' = next /\ odm' = [odm EXCEPT !.image = image]
    BY <1>2 DEF JobMoves
  <2>2. artLibrary' = artLibrary
    BY <1>2 DEF JobMoves
  <2>3. artJob' \in JobRecs
    BY <2>1 DEF ArtIInv, ArtTypes, JobRecs
  <2>4. odm' \in OdmRecs /\ odm'.asset = odm.asset
    BY <2>1 DEF ArtIInv, ArtTypes, OdmRecs
  <2>. QED
    BY <1>1, <2>2, <2>3, <2>4 DEF ArtIInv, ArtTypes, ArtStages, ArtRecord
<1>3. CASE LibraryMoves
  <2>1. UNCHANGED <<artJob, odm>> /\ artLibrary' = [artLibrary EXCEPT !.head = @ + 1]
    BY <1>3 DEF LibraryMoves
  <2>2. artLibrary' \in LibraryRecs /\ artLibrary'.listed = artLibrary.listed
    BY <2>1 DEF ArtIInv, ArtTypes, LibraryRecs
  <2>. QED
    BY <1>1, <2>1, <2>2 DEF ArtIInv, ArtTypes, ArtStages, ArtRecord
<1>. QED
  BY <1>2, <1>3

\* Every step keeps the invariant.
LEMMA ArtStepOK ==
  ASSUME ArtIInv, [ArtNext]_artVars
  PROVE  ArtIInv'
<1>1. CASE UNCHANGED artVars
  BY <1>1 DEF ArtIInv, ArtTypes, ArtStages, ArtRecord, artVars
<1>2. ASSUME NEW replied \in BOOLEAN,
             ArtImage(replied) \/ ArtPush(replied) \/ ArtSubmitFirst(replied)
               \/ ArtUpload(replied) \/ ArtAsset(replied)
      PROVE  ArtIInv'
  BY <1>2, ArtImageOK, ArtPushOK, ArtSubmitFirstOK, ArtUploadOK, ArtAssetOK
<1>3. CASE ArtRun \/ ArtLook \/ ArtClaim \/ ArtGenerate \/ ArtReadIndex \/ ArtFinish \/ ArtBreaks
           \/ JobMoves \/ LibraryMoves
  BY <1>3, ArtRunOK, ArtLookOK, ArtClaimOK, ArtGenerateOK, ArtReadIndexOK, ArtEndsOK, OutsideOK
<1>. QED
  BY <1>1, <1>2, <1>3, Zenon DEF ArtNext

\* Over any failures, lost answers, crashes, repeated orders and moves of others: an image
\* is generated again only after the target was found to have one during a generation, it
\* is listed at most once, and its asset is one ODM accepted (dnd-art.js).
THEOREM ArtIsMadeOnce == ArtSpec => []ArtOnce
<1>1. ArtInit => ArtIInv
  BY ArtInitOK
<1>2. ArtIInv /\ [ArtNext]_artVars => ArtIInv'
  BY ArtStepOK
<1>3. ArtIInv => ArtOnce
  BY DEF ArtIInv, ArtTypes, ArtRecord, ArtOnce, ArtRecs, LibraryRecs
<1>. QED
  BY <1>1, <1>2, <1>3, PTL DEF ArtSpec

-----------------------------------------------------------------------------
(* A turn of the Hardware Edition (HardwareTurn).  What a record started is *)
(* counted in its results while it is current and never grows afterwards.   *)

WorkerRecs == [no : 1 .. MaxRecords, consult : Consults, aborted : BOOLEAN,
               stage : {"target", "reserving", "fetching"}]
HardwarePlans == {"none", "routing", "ready", "failed"}

\* The consultations of a record that are on their way to a provider, and those that
\* are or were.
ConsultsInFlight(no) == {w \in Own(no) : w.stage # "target"}
Used(no) == {c \in Consults : spent[no][c] > 0 \/ \E w \in ConsultsInFlight(no) : w.consult = c}

HardwareTypes ==
  /\ recordCount \in 0 .. MaxRecords /\ record.no \in 0 .. recordCount
  /\ record.no = 0 => record = NoRecord
  /\ record \in [turn : Turns \cup {"none"}, no : Nat, plan : HardwarePlans]
  /\ workers \subseteq WorkerRecs /\ IsFiniteSet(workers)
  /\ results \subseteq Consults /\ IsFiniteSet(results)
  /\ spent \in [1 .. MaxRecords -> [Consults -> Nat]]

HardwareSpent ==
  /\ record.no # 0 => Used(record.no) \subseteq results
  /\ Cardinality(results) <= CallBudget
  /\ \A no \in 1 .. MaxRecords :
       /\ IsFiniteSet(Used(no)) /\ Cardinality(Used(no)) <= CallBudget
       /\ Cardinality(ConsultsInFlight(no)) <= ActiveLimit
       /\ no > recordCount => Used(no) = {} /\ Own(no) = {}
       /\ \A c \in Consults : spent[no][c] <= 1
  /\ \A v, w \in workers : (/\ v.stage # "target" /\ w.stage # "target"
                            /\ v.no = w.no /\ v.consult = w.consult) => v = w
  /\ \A w \in workers : w.stage = "reserving" => spent[w.no][w.consult] = 0

Fetching == {w \in workers : w.stage = "fetching"}

Fetched == {Reservation(w) : w \in Fetching}
Reservations == [no : 1 .. MaxRecords, consult : Consults]
LedgerRecs == [reserved : SUBSET Reservations, settling : SUBSET Reservations,
               settled : SUBSET Reservations, lost : SUBSET Reservations]

LedgerOK ==
  /\ ledger \in LedgerRecs
  /\ ledger.reserved \ ledger.settled \subseteq Fetched \cup ledger.settling \cup ledger.lost

HardwareSettled == LedgerOK /\ settledTwice = FALSE /\ strayed = FALSE

HardwareIInv == HardwareTypes /\ HardwareSpent /\ HardwareSettled

\* The bounds of one step: what is in flight and used may only be what was, unless a
\* consultation is dispatched.
HardwareShrinks ==
  /\ workers' \subseteq WorkerRecs /\ IsFiniteSet(workers')
  /\ \A no \in 1 .. MaxRecords :
       /\ Cardinality(ConsultsInFlight(no)') <= Cardinality(ConsultsInFlight(no))
       /\ Used(no)' \subseteq Used(no)
       /\ no > recordCount /\ Own(no) = {} => Own(no)' = {}

\* One more element adds at most one.
LEMMA OneMore ==
  ASSUME NEW S, NEW e, IsFiniteSet(S), Cardinality(S) \in Nat
  PROVE  Cardinality(S \cup {e}) <= Cardinality(S) + 1
BY SMTT(30), FS_AddElement

\* What is in flight is finite.
LEMMA InFlightFinite ==
  ASSUME HardwareTypes, NEW no
  PROVE  IsFiniteSet(ConsultsInFlight(no)) /\ Cardinality(ConsultsInFlight(no)) \in Nat
<1>1. ConsultsInFlight(no) \in SUBSET workers
  BY DEF ConsultsInFlight, Own
<1> QED BY <1>1, FS_Subset, FS_CardinalityType DEF HardwareTypes

\* When nothing is dispatched the bounds stay.
LEMMA ShrinksOK ==
  ASSUME HardwareIInv, HardwareTypes', HardwareShrinks,
         recordCount' = recordCount \/ recordCount' = recordCount + 1,
         results' = results \/ results' = {},
         record'.no # 0 => \/ record'.no = record.no /\ results' = results
                           \/ record'.no = recordCount + 1
         ,
         \A no \in 1 .. MaxRecords, c \in Consults : spent'[no][c] <= 1,
         \A v, w \in workers' : (/\ v.stage # "target" /\ w.stage # "target"
                                 /\ v.no = w.no /\ v.consult = w.consult) => v = w,
         \A w \in workers' : w.stage = "reserving" => spent'[w.no][w.consult] = 0
  PROVE  HardwareSpent'
<1>1. Cardinality(results') <= CallBudget
  <2>1. Cardinality(results) <= CallBudget /\ Cardinality({}) <= CallBudget
    BY FS_EmptySet, HardwareAssumption DEF HardwareIInv, HardwareSpent
  <2> QED BY <2>1
<1>2. ASSUME NEW no \in 1 .. MaxRecords
      PROVE  /\ IsFiniteSet(Used(no)') /\ Cardinality(Used(no)') <= CallBudget
             /\ Cardinality(ConsultsInFlight(no)') <= ActiveLimit
             /\ no > recordCount' => Used(no)' = {} /\ Own(no)' = {}
             /\ \A c \in Consults : spent'[no][c] <= 1
  <2>1. /\ IsFiniteSet(Used(no)) /\ Cardinality(Used(no)) <= CallBudget
        /\ Cardinality(ConsultsInFlight(no)) <= ActiveLimit
        /\ no > recordCount => Used(no) = {} /\ Own(no) = {}
    BY DEF HardwareIInv, HardwareSpent
  <2>2. /\ Cardinality(ConsultsInFlight(no)') <= Cardinality(ConsultsInFlight(no))
        /\ Used(no)' \subseteq Used(no)
        /\ no > recordCount /\ Own(no) = {} => Own(no)' = {}
    BY DEF HardwareShrinks
  <2>3. /\ IsFiniteSet(Used(no)') /\ Cardinality(Used(no)') <= Cardinality(Used(no))
        /\ Cardinality(Used(no)') \in Nat /\ Cardinality(Used(no)) \in Nat
    BY <2>1, <2>2, FS_Subset, FS_CardinalityType
  <2>4. Cardinality(ConsultsInFlight(no)') \in Nat /\ Cardinality(ConsultsInFlight(no)) \in Nat
    <3>1. ConsultsInFlight(no)' \in SUBSET workers'
      BY DEF ConsultsInFlight, Own
    <3>2. Cardinality(ConsultsInFlight(no)') \in Nat
      BY <3>1, FS_Subset, FS_CardinalityType DEF HardwareShrinks
    <3> QED BY <3>2, InFlightFinite DEF HardwareIInv
  <2>5. no > recordCount' => no > recordCount
    BY DEF HardwareIInv, HardwareTypes
  <2>6. /\ Cardinality(Used(no)') <= CallBudget
        /\ Cardinality(ConsultsInFlight(no)') <= ActiveLimit
    BY <2>1, <2>2, <2>3, <2>4, HardwareAssumption
  <2> QED BY <2>1, <2>2, <2>3, <2>5, <2>6
<1>3. (record.no # 0 => Used(record.no) \subseteq results)'
  <2>1. CASE record'.no = record.no /\ record.no # 0 /\ results' = results
    <3>1. PICK n \in 1 .. MaxRecords : n = record.no
      BY <2>1, HardwareAssumption DEF HardwareIInv, HardwareTypes
    <3>2. Used(n)' \subseteq Used(n)
      BY <3>1 DEF HardwareShrinks
    <3>3. Used(n) \subseteq results
      BY <2>1, <3>1 DEF HardwareIInv, HardwareSpent
    <3>4. record'.no = n
      BY <2>1, <3>1
    <3> QED BY <2>1, <3>2, <3>3, <3>4
  <2>2. CASE record'.no = recordCount + 1 /\ record'.no # 0
    <3>1. PICK n \in 1 .. MaxRecords : n = recordCount + 1
      BY <2>2 DEF HardwareIInv, HardwareTypes
    <3>2. n > recordCount
      BY <3>1 DEF HardwareIInv, HardwareTypes
    <3>3. Used(n) = {}
      BY <3>2 DEF HardwareIInv, HardwareSpent
    <3>4. Used(n)' = {}
      BY <3>3 DEF HardwareShrinks
    <3>5. record'.no = n
      BY <2>2, <3>1
    <3> QED BY <3>4, <3>5
  <2> QED BY <2>1, <2>2
<1> QED BY <1>1, <1>2, <1>3 DEF HardwareSpent

\* What ConsultsBounded says follows.
LEMMA HardwareKept == HardwareIInv => ConsultsBounded
<1> SUFFICES ASSUME HardwareIInv PROVE ConsultsBounded
  OBVIOUS
<1>1. ASSUME NEW no \in 1 .. MaxRecords
      PROVE  /\ \A c \in Consults : spent[no][c] <= 1
             /\ Cardinality({c \in Consults : spent[no][c] > 0}) <= CallBudget
             /\ InConsult(no) <= ActiveLimit
  <2> DEFINE paid == {c \in Consults : spent[no][c] > 0}
  <2>1. paid \in SUBSET Used(no)
    BY DEF Used
  <2>2. /\ IsFiniteSet(Used(no)) /\ Cardinality(Used(no)) <= CallBudget
        /\ Cardinality(ConsultsInFlight(no)) <= ActiveLimit
        /\ \A c \in Consults : spent[no][c] <= 1
    BY DEF HardwareIInv, HardwareSpent
  <2>3. /\ Cardinality(paid) <= Cardinality(Used(no)) /\ Cardinality(paid) \in Nat
        /\ Cardinality(Used(no)) \in Nat
    BY <2>1, <2>2, FS_Subset, FS_CardinalityType
  <2>4. Cardinality(paid) <= CallBudget
    <3> HIDE DEF paid
    <3> QED BY <2>2, <2>3, HardwareAssumption
  <2> QED BY <2>2, <2>4 DEF InConsult, ConsultsInFlight
<1>2. /\ ledger.reserved \ ledger.settled \subseteq
           {Reservation(w) : w \in {w \in workers : w.stage = "fetching"}}
             \cup ledger.settling \cup ledger.lost
      /\ ~settledTwice /\ ~strayed
  BY DEF HardwareIInv, HardwareSettled, LedgerOK, Fetched, Fetching
<1> QED BY <1>1, <1>2 DEF ConsultsBounded

\* An aborted worker is the same consultation.
LEMMA AbortedWorker ==
  ASSUME NEW w \in WorkerRecs, NEW no
  PROVE  LET v == [w EXCEPT !.aborted = w.aborted \/ w.no = no]
         IN v \in WorkerRecs /\ v.no = w.no /\ v.consult = w.consult /\ v.stage = w.stage
<1> DEFINE b == w.aborted \/ w.no = no
<1>1. b \in BOOLEAN
  BY Zenon
<1> HIDE DEF b
<1>2. /\ [w EXCEPT !.aborted = b] \in WorkerRecs
      /\ [w EXCEPT !.aborted = b].no = w.no /\ [w EXCEPT !.aborted = b].consult = w.consult
      /\ [w EXCEPT !.aborted = b].stage = w.stage
  BY <1>1 DEF WorkerRecs
<1> QED BY <1>2 DEF b

\* An abort leaves every consultation where it is.
LEMMA AbortedOK ==
  ASSUME HardwareIInv, NEW n, workers' = Aborted(n), UNCHANGED <<spent, ledger>>
  PROVE  /\ HardwareShrinks
         /\ \A v, w \in workers' : (/\ v.stage # "target" /\ w.stage # "target"
                                    /\ v.no = w.no /\ v.consult = w.consult) => v = w
         /\ \A w \in workers' : w.stage = "reserving" => spent'[w.no][w.consult] = 0
         /\ LedgerOK'
<1> DEFINE Ab(w) == [w EXCEPT !.aborted = w.aborted \/ w.no = n]
<1>1. \A w \in workers : /\ Ab(w) \in WorkerRecs /\ Ab(w).no = w.no
                         /\ Ab(w).consult = w.consult /\ Ab(w).stage = w.stage
  BY AbortedWorker DEF HardwareIInv, HardwareTypes
<1>2. workers' = {Ab(w) : w \in workers}
  BY DEF Aborted
<1> HIDE DEF Ab
<1>3. IsFiniteSet(workers')
  <2> DEFINE f == [w \in workers |-> Ab(w)]
  <2>1. f \in Surjection(workers, workers')
    BY <1>2 DEF Surjection
  <2> QED BY <2>1, FS_Surjection DEF HardwareIInv, HardwareTypes
<1>4. ASSUME NEW no \in 1 .. MaxRecords
      PROVE  /\ Cardinality(ConsultsInFlight(no)') <= Cardinality(ConsultsInFlight(no))
             /\ Used(no)' \subseteq Used(no)
             /\ no > recordCount /\ Own(no) = {} => Own(no)' = {}
  <2>1. ConsultsInFlight(no)' = {Ab(w) : w \in ConsultsInFlight(no)}
    BY <1>1, <1>2 DEF ConsultsInFlight, Own
  <2> DEFINE f == [w \in ConsultsInFlight(no) |-> Ab(w)]
  <2>2. f \in Surjection(ConsultsInFlight(no), ConsultsInFlight(no)')
    BY <2>1 DEF Surjection
  <2>3. Cardinality(ConsultsInFlight(no)') <= Cardinality(ConsultsInFlight(no))
    <3> HIDE DEF f
    <3> QED BY <2>2, InFlightFinite, FS_Surjection DEF HardwareIInv
  <2>4. \A w \in ConsultsInFlight(no)' : \E v \in ConsultsInFlight(no) : w.consult = v.consult
    BY <1>1, <2>1 DEF ConsultsInFlight, Own
  <2>5. Used(no)' \subseteq Used(no)
    BY <2>4 DEF Used
  <2>6. Own(no) = {} => Own(no)' = {}
    BY <1>1, <1>2 DEF Own
  <2> QED BY <2>3, <2>5, <2>6
<1>5. HardwareShrinks
  BY <1>1, <1>2, <1>3, <1>4 DEF HardwareShrinks
<1>6. \A v, w \in workers' : (/\ v.stage # "target" /\ w.stage # "target"
                              /\ v.no = w.no /\ v.consult = w.consult) => v = w
  BY <1>1, <1>2 DEF HardwareIInv, HardwareSpent
<1>7. \A w \in workers' : w.stage = "reserving" => spent'[w.no][w.consult] = 0
  BY <1>1, <1>2 DEF HardwareIInv, HardwareSpent
<1>8. LedgerOK'
  <2>1. Fetching' = {Ab(w) : w \in Fetching}
    BY <1>1, <1>2 DEF Fetching
  <2>2. \A w \in Fetching : Reservation(Ab(w)) = Reservation(w)
    BY <1>1 DEF Fetching, Reservation
  <2>3. Fetched \subseteq Fetched'
    BY <2>1, <2>2 DEF Fetched
  <2> QED BY <2>3 DEF HardwareIInv, HardwareSettled, LedgerOK
<1> QED BY <1>5, <1>6, <1>7, <1>8

\* A worker ends, or is refused; a worker is only planned.
LEMMA FewerOK ==
  ASSUME HardwareIInv, UNCHANGED spent, workers' \subseteq WorkerRecs, IsFiniteSet(workers'),
         \A w \in workers' \ workers : w.stage = "target" /\ w.no <= recordCount
  PROVE  /\ HardwareShrinks
         /\ \A v, w \in workers' : (/\ v.stage # "target" /\ w.stage # "target"
                                    /\ v.no = w.no /\ v.consult = w.consult) => v = w
         /\ \A w \in workers' : w.stage = "reserving" => spent'[w.no][w.consult] = 0
<1>1. ASSUME NEW no \in 1 .. MaxRecords
      PROVE  /\ Cardinality(ConsultsInFlight(no)') <= Cardinality(ConsultsInFlight(no))
             /\ Used(no)' \subseteq Used(no)
  <2>1. ConsultsInFlight(no)' \in SUBSET ConsultsInFlight(no)
    BY DEF ConsultsInFlight, Own
  <2> QED BY <2>1, InFlightFinite, FS_Subset DEF Used, HardwareIInv
<1>2. \A no \in 1 .. MaxRecords : no > recordCount /\ Own(no) = {} => Own(no)' = {}
  <2>1. \A w \in workers' : w \in workers \/ w.no <= recordCount
    OBVIOUS
  <2>2. \A w \in workers' : w.no \in Nat
    BY HardwareAssumption DEF WorkerRecs
  <2>3. recordCount \in Nat
    BY HardwareAssumption DEF HardwareIInv, HardwareTypes
  <2> QED BY <2>1, <2>2, <2>3 DEF Own
<1>3. \A v, w \in workers' : (/\ v.stage # "target" /\ w.stage # "target"
                              /\ v.no = w.no /\ v.consult = w.consult) => v = w
  <2>1. \A w \in workers' : w.stage # "target" => w \in workers
    OBVIOUS
  <2>2. \A v, w \in workers : (/\ v.stage # "target" /\ w.stage # "target"
                               /\ v.no = w.no /\ v.consult = w.consult) => v = w
    BY DEF HardwareIInv, HardwareSpent
  <2> SUFFICES ASSUME NEW v \in workers', NEW w \in workers',
                      v.stage # "target", w.stage # "target", v.no = w.no,
                      v.consult = w.consult
               PROVE  v = w
    OBVIOUS
  <2>3. v \in workers /\ w \in workers
    BY <2>1
  <2> QED BY <2>2, <2>3
<1>4. \A w \in workers' : w.stage = "reserving" => spent'[w.no][w.consult] = 0
  <2>1. \A w \in workers' : w.stage # "target" => w \in workers
    OBVIOUS
  <2> QED BY <2>1 DEF HardwareIInv, HardwareSpent
<1> QED BY <1>1, <1>2, <1>3, <1>4 DEF HardwareShrinks

\* Nothing was asked at first.
LEMMA HardwareInitOK == HardwareInit => HardwareIInv
<1> SUFFICES ASSUME HardwareInit PROVE HardwareIInv
  OBVIOUS
<1>1. /\ record = NoRecord /\ recordCount = 0 /\ workers = {} /\ results = {}
      /\ ledger = [reserved |-> {}, settling |-> {}, settled |-> {}, lost |-> {}]
      /\ spent = [no \in 1 .. MaxRecords |-> [c \in Consults |-> 0]]
      /\ settledTwice = FALSE /\ strayed = FALSE
  BY DEF HardwareInit
<1>2. HardwareTypes
  BY <1>1, FS_EmptySet, HardwareAssumption DEF HardwareTypes, NoRecord, HardwarePlans
<1>3. \A no \in 1 .. MaxRecords : Used(no) = {} /\ ConsultsInFlight(no) = {} /\ Own(no) = {}
  BY <1>1 DEF Used, ConsultsInFlight, Own
<1>4. record.no = 0
  BY <1>1 DEF NoRecord
<1>5. IsFiniteSet({}) /\ Cardinality({}) <= CallBudget /\ Cardinality({}) <= ActiveLimit
  BY FS_EmptySet, HardwareAssumption
<1>6. HardwareSpent
  <2>1. \A no \in 1 .. MaxRecords, c \in Consults : spent[no][c] <= 1
    BY <1>1
  <2>2. \A no \in 1 .. MaxRecords :
          /\ IsFiniteSet(Used(no)) /\ Cardinality(Used(no)) <= CallBudget
          /\ Cardinality(ConsultsInFlight(no)) <= ActiveLimit
    BY <1>3, <1>5
  <2> QED BY <1>1, <1>3, <1>4, <1>5, <2>1, <2>2 DEF HardwareSpent
<1>7. HardwareSettled
  BY <1>1 DEF HardwareSettled, LedgerOK, LedgerRecs
<1> QED BY <1>2, <1>6, <1>7 DEF HardwareIInv

\* The record goes: its workers are aborted.
LEMMA ForgetOK ==
  ASSUME HardwareIInv, Forget
  PROVE  HardwareIInv'
<1>1. /\ record' = NoRecord /\ workers' = Aborted(record.no) /\ results' = {}
      /\ UNCHANGED <<recordCount, spent, ledger, settledTwice, strayed>>
  BY DEF Forget
<1>2. HardwareTypes'
  BY <1>1, AbortedOK, FS_EmptySet, HardwareAssumption
     DEF HardwareIInv, HardwareTypes, HardwareShrinks, NoRecord, HardwarePlans
<1>3. record'.no = 0
  BY <1>1 DEF NoRecord
<1>4. \A no \in 1 .. MaxRecords, c \in Consults : spent'[no][c] <= 1
  BY <1>1 DEF HardwareIInv, HardwareSpent
<1>5. HardwareSpent'
  BY <1>1, <1>2, <1>3, <1>4, AbortedOK, ShrinksOK
<1>6. HardwareSettled'
  BY <1>1, AbortedOK DEF HardwareIInv, HardwareSettled
<1> QED BY <1>2, <1>5, <1>6 DEF HardwareIInv

\* A turn supersedes the one before it.
LEMMA FirstRequestOK ==
  ASSUME HardwareIInv, NEW t \in Turns, FirstRequest(t)
  PROVE  HardwareIInv'
<1>1. /\ record' = [turn |-> t, no |-> recordCount + 1, plan |-> "routing"]
      /\ recordCount < MaxRecords /\ recordCount' = recordCount + 1 /\ results' = {}
      /\ UNCHANGED <<spent, ledger, settledTwice, strayed>>
  BY DEF FirstRequest
<1>2. \/ workers' = Aborted(record.no)
      \/ workers' = workers
  BY DEF FirstRequest
<1>3. /\ HardwareShrinks
      /\ \A v, w \in workers' : (/\ v.stage # "target" /\ w.stage # "target"
                                 /\ v.no = w.no /\ v.consult = w.consult) => v = w
      /\ \A w \in workers' : w.stage = "reserving" => spent'[w.no][w.consult] = 0
      /\ LedgerOK'
  <2>1. CASE workers' = Aborted(record.no)
    BY <1>1, <2>1, AbortedOK
  <2>2. CASE workers' = workers
    <3>1. workers' \subseteq WorkerRecs /\ IsFiniteSet(workers') /\ workers' \ workers = {}
      BY <2>2 DEF HardwareIInv, HardwareTypes
    <3>2. LedgerOK'
      BY <1>1, <2>2 DEF HardwareIInv, HardwareSettled, LedgerOK, Fetched, Fetching
    <3> QED BY <1>1, <3>1, <3>2, FewerOK
  <2> QED BY <1>2, <2>1, <2>2
<1>4. HardwareTypes'
  <2>1. /\ recordCount + 1 \in 0 .. MaxRecords /\ recordCount + 1 \in 0 .. (recordCount + 1)
        /\ recordCount + 1 # 0
    BY <1>1, HardwareAssumption DEF HardwareIInv, HardwareTypes
  <2>2. /\ record' \in [turn : Turns \cup {"none"}, no : Nat, plan : HardwarePlans]
        /\ record'.no = recordCount + 1
    BY <1>1, <2>1 DEF HardwarePlans
  <2> QED BY <1>1, <1>3, <2>1, <2>2, FS_EmptySet DEF HardwareIInv, HardwareTypes, HardwareShrinks
<1>5. \A no \in 1 .. MaxRecords, c \in Consults : spent'[no][c] <= 1
  BY <1>1 DEF HardwareIInv, HardwareSpent
<1>6. record'.no = recordCount + 1
  BY <1>1
<1>7. HardwareSpent'
  BY <1>1, <1>3, <1>4, <1>5, <1>6, ShrinksOK
<1>8. HardwareSettled'
  BY <1>1, <1>3 DEF HardwareIInv, HardwareSettled
<1> QED BY <1>4, <1>7, <1>8 DEF HardwareIInv

\* The consultations of a record are not touched by its plan and its requests.
LEMMA PlanStepsOK ==
  ASSUME HardwareIInv,
         NextRequest \/ PlanReady \/ \E no \in 1 .. MaxRecords : RequestGoesOn(no)
  PROVE  HardwareIInv'
<1>1. /\ UNCHANGED <<recordCount, workers, results, spent, ledger, settledTwice>>
      /\ record'.no = record.no /\ (record = NoRecord => record' = record)
      /\ record' \in [turn : Turns \cup {"none"}, no : Nat, plan : HardwarePlans]
  <2>1. CASE record' = record
    BY <2>1 DEF HardwareIInv, HardwareTypes, NextRequest, PlanReady, RequestGoesOn
  <2>2. CASE PlanReady
    <3>1. PICK plan \in HardwarePlans : record' = [record EXCEPT !.plan = plan]
      BY <2>2 DEF PlanReady, HardwarePlans
    <3>2. record # NoRecord
      BY <2>2 DEF PlanReady, NoRecord
    <3> QED BY <2>2, <3>1, <3>2 DEF PlanReady, HardwareIInv, HardwareTypes
  <2> QED BY <2>1, <2>2 DEF NextRequest, RequestGoesOn
<1>2. strayed' = FALSE
  BY DEF HardwareIInv, HardwareSettled, NextRequest, PlanReady, RequestGoesOn, StillCurrent
<1>3. HardwareTypes'
  BY <1>1 DEF HardwareIInv, HardwareTypes
<1>4. HardwareSpent'
  <2>1. \A no : Used(no)' = Used(no) /\ ConsultsInFlight(no)' = ConsultsInFlight(no) /\ Own(no)' = Own(no)
    BY <1>1 DEF Used, ConsultsInFlight, Own
  <2>2. Used(record.no)' = Used(record.no)
    BY <1>1 DEF Used, ConsultsInFlight, Own
  <2> QED BY <1>1, <2>1, <2>2 DEF HardwareIInv, HardwareSpent
<1>5. HardwareSettled'
  BY <1>1, <1>2 DEF HardwareIInv, HardwareSettled, LedgerOK, Fetched, Fetching
<1> QED BY <1>3, <1>4, <1>5 DEF HardwareIInv

\* A worker that is planned, answered without a call, refused or ended.
LEMMA WorkerGoes ==
  ASSUME HardwareIInv, UNCHANGED <<record, recordCount, spent>>, results' = results,
         workers' \subseteq WorkerRecs, IsFiniteSet(workers'),
         \A w \in workers' \ workers : w.stage = "target" /\ w.no <= recordCount,
         LedgerOK', settledTwice' = FALSE, strayed' = FALSE
  PROVE  HardwareIInv'
<1>1. HardwareTypes'
  BY DEF HardwareIInv, HardwareTypes
<1>2. \A no \in 1 .. MaxRecords, c \in Consults : spent'[no][c] <= 1
  BY DEF HardwareIInv, HardwareSpent
<1>3. HardwareSpent'
  BY <1>1, <1>2, FewerOK, ShrinksOK
<1> QED BY <1>1, <1>3 DEF HardwareIInv, HardwareSettled

\* A consultation is asked for.
LEMMA ConsultOK ==
  ASSUME HardwareIInv, NEW c \in Consults, Consult(c)
  PROVE  HardwareIInv'
<1>1. record.no \in 1 .. MaxRecords /\ record.no <= recordCount
  BY HardwareAssumption DEF Consult, HardwareIInv, HardwareTypes
<1>2. NewWorker(c) \in WorkerRecs /\ NewWorker(c).stage = "target" /\ NewWorker(c).no = record.no
  BY <1>1 DEF NewWorker, WorkerRecs
<1>3. workers' = workers \cup {NewWorker(c)}
  BY DEF Consult
<1>4. workers' \subseteq WorkerRecs /\ IsFiniteSet(workers')
  BY <1>2, <1>3, FS_AddElement DEF HardwareIInv, HardwareTypes
<1>5. Fetching' = Fetching
  BY <1>2, <1>3 DEF Fetching
<1>6. \A w \in workers' \ workers : w.stage = "target" /\ w.no <= recordCount
  BY <1>1, <1>2, <1>3
<1>7. /\ UNCHANGED <<record, recordCount, spent, results>>
      /\ LedgerOK' /\ settledTwice' = FALSE /\ strayed' = FALSE
  BY <1>5 DEF Consult, HardwareIInv, HardwareSettled, LedgerOK, Fetched
<1> QED BY <1>4, <1>6, <1>7, WorkerGoes

\* A worker that is taken away.
LEMMA TakenAway ==
  ASSUME HardwareIInv, NEW w \in workers, workers' = workers \ {w}
  PROVE  workers' \subseteq WorkerRecs /\ IsFiniteSet(workers') /\ workers' \ workers = {}
BY FS_RemoveElement DEF HardwareIInv, HardwareTypes

\* A refused worker was not sent; what it may have reserved is lost.
LEMMA ReserveRefusedOK ==
  ASSUME HardwareIInv, NEW w \in workers, ReserveRefused(w)
  PROVE  HardwareIInv'
<1>1. /\ workers' = workers \ {w} /\ w.stage = "reserving" /\ w \in WorkerRecs
      /\ UNCHANGED <<record, recordCount, spent>>
  BY DEF ReserveRefused, HardwareIInv, HardwareTypes
<1>2. Fetching' = Fetching
  BY <1>1 DEF Fetching
<1>3. results' = results
  <2>1. CASE record.no # w.no
    BY <2>1 DEF ReserveRefused
  <2>2. CASE record.no = w.no
    <3>1. w.consult \in Used(w.no) /\ w.no # 0
      BY <1>1 DEF Used, ConsultsInFlight, Own, WorkerRecs
    <3>2. w.consult \in results
      BY <2>2, <3>1 DEF HardwareIInv, HardwareSpent
    <3> QED BY <2>2, <3>2 DEF ReserveRefused, Remembered
  <2> QED BY <2>1, <2>2
<1>4. settledTwice' = FALSE /\ strayed' = FALSE
  BY <1>1, <1>2 DEF ReserveRefused, HardwareIInv, HardwareSettled
<1>5. LedgerOK'
  <2>1. Reservation(w) \in Reservations
    BY <1>1 DEF Reservation, Reservations, WorkerRecs
  <2>2. \/ ledger' = ledger
        \/ ledger' = [ledger EXCEPT !.reserved = ledger.reserved \cup {Reservation(w)},
                                    !.lost = ledger.lost \cup {Reservation(w)}]
    BY DEF ReserveRefused
  <2>3. Fetched' = Fetched
    BY <1>2 DEF Fetched
  <2> QED BY <2>1, <2>2, <2>3 DEF HardwareIInv, HardwareSettled, LedgerOK, LedgerRecs
<1> QED BY <1>1, <1>3, <1>4, <1>5, TakenAway, WorkerGoes

\* A worker that ends sends the settle of its own reservation, once.
LEMMA WorkerEndsOK ==
  ASSUME HardwareIInv, NEW w \in workers, NEW ok \in BOOLEAN, WorkerEnds(w, ok)
  PROVE  HardwareIInv'
<1> DEFINE r == Reservation(w)
<1>1. /\ workers' = workers \ {w} /\ w.stage = "fetching" /\ w \in WorkerRecs
      /\ UNCHANGED <<record, recordCount, spent>> /\ Settle(w, ok)
  BY DEF WorkerEnds, HardwareIInv, HardwareTypes
<1>2. ledger' = [ledger EXCEPT !.settling = ledger.settling \cup {r}]
  BY <1>1 DEF Settle, Held
<1>3. r \in Reservations
  BY <1>1 DEF Reservation, Reservations, WorkerRecs
<1>4. Fetching' = Fetching \ {w}
  BY <1>1 DEF Fetching
<1>5. Fetched \subseteq Fetched' \cup {r}
  BY <1>4 DEF Fetched
<1>6. LedgerOK'
  <2> HIDE DEF r
  <2> QED BY <1>2, <1>3, <1>5 DEF HardwareIInv, HardwareSettled, LedgerOK, LedgerRecs
<1>7. settledTwice' = FALSE
  BY <1>1 DEF Settle, Held, HardwareIInv, HardwareSettled
<1>8. strayed' = FALSE
  BY DEF WorkerEnds, NotStale, HardwareIInv, HardwareSettled
<1>9. results' = results
  <2>1. CASE record.no # w.no
    BY <2>1 DEF WorkerEnds
  <2>2. CASE record.no = w.no
    <3>1. w.consult \in Used(w.no) /\ w.no # 0
      BY <1>1 DEF Used, ConsultsInFlight, Own, WorkerRecs
    <3>2. w.consult \in results
      BY <2>2, <3>1 DEF HardwareIInv, HardwareSpent
    <3> QED BY <2>2, <3>2 DEF WorkerEnds, Remembered
  <2> QED BY <2>1, <2>2
<1> QED BY <1>1, <1>6, <1>7, <1>8, <1>9, TakenAway, WorkerGoes

\* A consultation that may go out joins the results of its turn; another one is
\* answered or refused.
LEMMA DispatchOK ==
  ASSUME HardwareIInv, NEW w \in workers, Dispatch(w)
  PROVE  HardwareIInv'
<1> DEFINE v == [w EXCEPT !.stage = "reserving"]
<1>1. /\ w.stage = "target" /\ w \in WorkerRecs
      /\ UNCHANGED <<record, recordCount, spent, ledger, settledTwice, strayed>>
  BY DEF Dispatch, HardwareIInv, HardwareTypes
<1>2. CASE ~MayDispatch(w)
  <2>1. workers' = workers \ {w} /\ results' = results
    BY <1>2 DEF Dispatch
  <2>2. Fetching' = Fetching
    BY <1>1, <2>1 DEF Fetching
  <2>3. LedgerOK' /\ settledTwice' = FALSE /\ strayed' = FALSE
    BY <1>1, <2>2 DEF HardwareIInv, HardwareSettled, LedgerOK, Fetched
  <2> QED BY <1>1, <2>1, <2>3, TakenAway, WorkerGoes
<1>3. CASE MayDispatch(w)
  <2>1. /\ workers' = (workers \ {w}) \cup {v} /\ results' = results \cup {w.consult}
        /\ record.no = w.no /\ w.consult \notin results
        /\ Cardinality(results) < CallBudget /\ Cardinality(ConsultsInFlight(w.no)) < ActiveLimit
    BY <1>3 DEF Dispatch, MayDispatch, InConsult, ConsultsInFlight
  <2>2. v \in WorkerRecs /\ v.no = w.no /\ v.consult = w.consult /\ v.stage = "reserving"
    BY <1>1 DEF WorkerRecs
  <2> HIDE DEF v
  <2>3. HardwareTypes'
    <3>1. IsFiniteSet(workers') /\ IsFiniteSet(results')
      BY <2>1, FS_RemoveElement, FS_AddElement DEF HardwareIInv, HardwareTypes
    <3>2. w.consult \in Consults
      BY <1>1 DEF WorkerRecs
    <3> QED BY <1>1, <2>1, <2>2, <3>1, <3>2 DEF HardwareIInv, HardwareTypes
  <2>4. w.no \in 1 .. MaxRecords /\ w.no # 0
    BY <1>1 DEF WorkerRecs
  <2>5. w.consult \notin Used(w.no)
    BY <2>1, <2>4 DEF HardwareIInv, HardwareSpent
  <2>6. ConsultsInFlight(w.no)' = ConsultsInFlight(w.no) \cup {v} /\ Used(w.no)' = Used(w.no) \cup {w.consult}
    <3>1. ConsultsInFlight(w.no)' = ConsultsInFlight(w.no) \cup {v}
      BY <1>1, <2>1, <2>2 DEF ConsultsInFlight, Own
    <3>2. w.consult \in Consults
      BY <1>1 DEF WorkerRecs
    <3> QED BY <1>1, <2>2, <3>1, <3>2 DEF Used
  <2>7. \A no \in 1 .. MaxRecords : no # w.no =>
          ConsultsInFlight(no)' = ConsultsInFlight(no) /\ Used(no)' = Used(no) /\ Own(no)' = Own(no)
    BY <1>1, <2>1, <2>2 DEF ConsultsInFlight, Own, Used
  <2>8. Cardinality(results') <= CallBudget /\ Used(w.no)' \subseteq results'
    <3>1. Cardinality(results') = Cardinality(results) + 1
      BY <2>1, FS_AddElement DEF HardwareIInv, HardwareTypes
    <3>2. Cardinality(results) \in Nat
      BY FS_CardinalityType DEF HardwareIInv, HardwareTypes
    <3>3. Used(w.no) \subseteq results
      BY <2>1, <2>4 DEF HardwareIInv, HardwareSpent
    <3> QED BY <2>1, <2>6, <3>1, <3>2, <3>3, HardwareAssumption
  <2>9. ASSUME NEW no \in 1 .. MaxRecords
        PROVE  /\ IsFiniteSet(Used(no)') /\ Cardinality(Used(no)') <= CallBudget
               /\ Cardinality(ConsultsInFlight(no)') <= ActiveLimit
               /\ no > recordCount' => Used(no)' = {} /\ Own(no)' = {}
               /\ \A c \in Consults : spent'[no][c] <= 1
    <3>1. CASE no # w.no
      BY <1>1, <2>7, <3>1 DEF HardwareIInv, HardwareSpent
    <3>2. CASE no = w.no
      <4>1. IsFiniteSet(results') /\ Cardinality(results') \in Nat
        BY <2>3, FS_CardinalityType DEF HardwareTypes
      <4>2. /\ IsFiniteSet(Used(no)') /\ Cardinality(Used(no)') <= Cardinality(results')
            /\ Cardinality(Used(no)') \in Nat
        BY <2>8, <3>2, <4>1, FS_Subset, FS_CardinalityType
      <4>3. Cardinality(ConsultsInFlight(no)') <= Cardinality(ConsultsInFlight(no)) + 1
        <5> DEFINE before == ConsultsInFlight(no)
        <5>1. IsFiniteSet(before) /\ Cardinality(before) \in Nat
          BY InFlightFinite DEF HardwareIInv
        <5>2. Cardinality(before \cup {v}) <= Cardinality(before) + 1
          <6> HIDE DEF before
          <6> QED BY <5>1, OneMore
        <5> QED BY <2>6, <3>2, <5>2
      <4>4. Cardinality(ConsultsInFlight(no)') \in Nat /\ Cardinality(ConsultsInFlight(no)) \in Nat
        BY <2>6, <3>2, FS_AddElement, FS_CardinalityType, InFlightFinite DEF HardwareIInv
      <4>5. Cardinality(ConsultsInFlight(no)') <= ActiveLimit
        BY <2>1, <3>2, <4>3, <4>4, HardwareAssumption
      <4>6. Cardinality(Used(no)') <= CallBudget
        BY <2>8, <4>1, <4>2, HardwareAssumption
      <4>7. ~(no > recordCount')
        BY <1>1, <2>1, <3>2, HardwareAssumption DEF HardwareIInv, HardwareTypes
      <4> QED BY <1>1, <4>2, <4>5, <4>6, <4>7 DEF HardwareIInv, HardwareSpent
    <3> QED BY <3>1, <3>2
  <2>10. \A x \in workers : x.stage # "target" => ~(x.no = w.no /\ x.consult = w.consult)
    BY <1>1, <2>5 DEF Used, ConsultsInFlight, Own, WorkerRecs
  <2>11. \A x, y \in workers' : (/\ x.stage # "target" /\ y.stage # "target"
                                 /\ x.no = y.no /\ x.consult = y.consult) => x = y
    <3>1. \A x, y \in workers : (/\ x.stage # "target" /\ y.stage # "target"
                                 /\ x.no = y.no /\ x.consult = y.consult) => x = y
      BY DEF HardwareIInv, HardwareSpent
    <3> QED BY <2>1, <2>2, <2>10, <3>1
  <2>12. \A x \in workers' : x.stage = "reserving" => spent'[x.no][x.consult] = 0
    <3>1. spent[w.no][w.consult] = 0
      BY <1>1, <2>5 DEF Used, WorkerRecs, HardwareIInv, HardwareTypes
    <3>2. \A x \in workers : x.stage = "reserving" => spent[x.no][x.consult] = 0
      BY DEF HardwareIInv, HardwareSpent
    <3> QED BY <1>1, <2>1, <2>2, <3>1, <3>2
  <2>13. (record.no # 0 => Used(record.no) \subseteq results)'
    <3>1. PICK n \in 1 .. MaxRecords : n = w.no
      BY <2>4
    <3> QED BY <1>1, <2>1, <2>8, <3>1
  <2>14. HardwareSpent'
    BY <2>8, <2>9, <2>11, <2>12, <2>13 DEF HardwareSpent
  <2>15. HardwareSettled'
    <3>1. Fetching' = Fetching
      BY <1>1, <2>1, <2>2 DEF Fetching
    <3> QED BY <1>1, <3>1 DEF HardwareIInv, HardwareSettled, LedgerOK, Fetched
  <2> QED BY <2>3, <2>14, <2>15 DEF HardwareIInv
<1> QED BY <1>2, <1>3

\* A consultation reserves and is sent, once.
LEMMA ReserveOK ==
  ASSUME HardwareIInv, NEW w \in workers, Reserve(w)
  PROVE  HardwareIInv'
<1> DEFINE v == [w EXCEPT !.stage = "fetching"]
<1>1. /\ w.stage = "reserving" /\ w \in WorkerRecs /\ workers' = (workers \ {w}) \cup {v}
      /\ ledger' = [ledger EXCEPT !.reserved = ledger.reserved \cup {Reservation(w)}]
      /\ spent' = IF w.aborted THEN spent ELSE [spent EXCEPT ![w.no][w.consult] = @ + 1]
      /\ UNCHANGED <<record, recordCount, results, settledTwice, strayed>>
  BY DEF Reserve, HardwareIInv, HardwareTypes
<1>2. v \in WorkerRecs /\ v.no = w.no /\ v.consult = w.consult /\ v.stage = "fetching"
  BY <1>1 DEF WorkerRecs
<1> HIDE DEF v
<1>3. /\ w.no \in 1 .. MaxRecords /\ w.consult \in Consults
      /\ spent \in [1 .. MaxRecords -> [Consults -> Nat]] /\ spent[w.no][w.consult] = 0
  BY <1>1 DEF WorkerRecs, HardwareIInv, HardwareTypes, HardwareSpent
<1>4. /\ spent' \in [1 .. MaxRecords -> [Consults -> Nat]]
      /\ spent'[w.no][w.consult] <= 1
      /\ \A no \in 1 .. MaxRecords, c \in Consults :
           no # w.no \/ c # w.consult => spent'[no][c] = spent[no][c]
  BY <1>1, <1>3
<1>5. HardwareTypes'
  <2>1. IsFiniteSet(workers')
    BY <1>1, FS_RemoveElement, FS_AddElement DEF HardwareIInv, HardwareTypes
  <2> QED BY <1>1, <1>2, <1>4, <2>1 DEF HardwareIInv, HardwareTypes
<1>6. ASSUME NEW no \in 1 .. MaxRecords
      PROVE  /\ Cardinality(ConsultsInFlight(no)') <= Cardinality(ConsultsInFlight(no))
             /\ Used(no)' \subseteq Used(no)
             /\ no > recordCount /\ Own(no) = {} => Own(no)' = {}
  <2>1. CASE no # w.no
    <3>1. ConsultsInFlight(no)' = ConsultsInFlight(no) /\ Own(no)' = Own(no)
      BY <1>1, <1>2, <2>1 DEF ConsultsInFlight, Own
    <3>2. Used(no)' = Used(no)
      BY <1>4, <2>1, <3>1 DEF Used
    <3> QED BY <3>1, <3>2, InFlightFinite DEF HardwareIInv
  <2>2. CASE no = w.no
    <3>1. ConsultsInFlight(no)' = (ConsultsInFlight(no) \ {w}) \cup {v} /\ w \in ConsultsInFlight(no)
      BY <1>1, <1>2, <2>2 DEF ConsultsInFlight, Own
    <3>2. IsFiniteSet(ConsultsInFlight(no)) /\ Cardinality(ConsultsInFlight(no)) \in Nat
      BY InFlightFinite DEF HardwareIInv
    <3>3. /\ IsFiniteSet(ConsultsInFlight(no) \ {w})
          /\ Cardinality(ConsultsInFlight(no) \ {w}) = Cardinality(ConsultsInFlight(no)) - 1
      BY <3>1, <3>2, FS_RemoveElement
    <3>4. Cardinality(ConsultsInFlight(no)') <= Cardinality(ConsultsInFlight(no))
      <4> DEFINE rest == ConsultsInFlight(no) \ {w}
      <4>1. Cardinality(rest \cup {v}) <= Cardinality(rest) + 1
        <5> HIDE DEF rest
        <5>1. IsFiniteSet(rest) /\ Cardinality(rest) \in Nat
          BY <3>3, FS_CardinalityType DEF rest
        <5> QED BY <5>1, OneMore
      <4> QED BY <3>1, <3>2, <3>3, <4>1
    <3>5. \A c \in Consults : c # w.consult => spent'[no][c] = spent[no][c]
      BY <1>4
    <3>6. w.consult \in Used(no)
      BY <1>3, <3>1 DEF Used
    <3>7. \A x \in ConsultsInFlight(no)' : x = v \/ x \in ConsultsInFlight(no)
      BY <3>1
    <3>8. Used(no)' \subseteq Used(no)
      BY <1>2, <3>5, <3>6, <3>7 DEF Used
    <3> QED BY <1>1, <2>2, <3>4, <3>8 DEF Own
  <2> QED BY <2>1, <2>2
<1>7. HardwareShrinks
  BY <1>5, <1>6 DEF HardwareShrinks, HardwareTypes
<1>8. \A no \in 1 .. MaxRecords, c \in Consults : spent'[no][c] <= 1
  BY <1>4 DEF HardwareIInv, HardwareSpent
<1>9. \A x, y \in workers : (/\ x.stage # "target" /\ y.stage # "target"
                             /\ x.no = y.no /\ x.consult = y.consult) => x = y
  BY DEF HardwareIInv, HardwareSpent
<1>10. \A x, y \in workers' : (/\ x.stage # "target" /\ y.stage # "target"
                               /\ x.no = y.no /\ x.consult = y.consult) => x = y
  BY <1>1, <1>2, <1>9
<1>11. \A x \in workers' : x.stage = "reserving" => spent'[x.no][x.consult] = 0
  <2>1. \A x \in workers' : x.stage = "reserving" => x \in workers /\ x # w
    BY <1>1, <1>2
  <2>2. \A x \in workers : x.stage = "reserving" =>
          /\ spent[x.no][x.consult] = 0 /\ x.no \in 1 .. MaxRecords /\ x.consult \in Consults
          /\ (x # w => x.no # w.no \/ x.consult # w.consult)
    BY <1>1, <1>9 DEF HardwareIInv, HardwareSpent, HardwareTypes, WorkerRecs
  <2> QED BY <1>4, <2>1, <2>2
<1>12. HardwareSpent'
  BY <1>1, <1>5, <1>7, <1>8, <1>10, <1>11, ShrinksOK
<1>13. HardwareSettled'
  <2>1. Fetching' = Fetching \cup {v}
    BY <1>1, <1>2 DEF Fetching
  <2>2. Fetched' = Fetched \cup {Reservation(v)} /\ Reservation(v) = Reservation(w)
    BY <1>2, <2>1 DEF Fetched, Reservation
  <2>3. Reservation(w) \in Reservations
    BY <1>1 DEF Reservation, Reservations, WorkerRecs
  <2>4. LedgerOK'
    BY <1>1, <2>2, <2>3 DEF HardwareIInv, HardwareSettled, LedgerOK, LedgerRecs
  <2> QED BY <1>1, <2>4 DEF HardwareIInv, HardwareSettled
<1> QED BY <1>5, <1>12, <1>13 DEF HardwareIInv

\* A settle arrives on the ledger, or is lost.
LEMMA SettlesOK ==
  ASSUME HardwareIInv, NEW r \in ledger.settling, SettleArrives(r) \/ SettleLost(r)
  PROVE  HardwareIInv'
<1>1. UNCHANGED <<record, recordCount, workers, results, spent, settledTwice, strayed>>
  BY DEF SettleArrives, SettleLost
<1>2. ledger \in LedgerRecs /\ r \in Reservations
  BY DEF HardwareIInv, HardwareSettled, LedgerOK, LedgerRecs
<1>3. \/ ledger' = [ledger EXCEPT !.settling = ledger.settling \ {r},
                                  !.settled = ledger.settled \cup {r}]
      \/ ledger' = [ledger EXCEPT !.settling = ledger.settling \ {r},
                                  !.lost = ledger.lost \cup {r}]
  BY DEF SettleArrives, SettleLost
<1>4. Fetched' = Fetched
  BY <1>1 DEF Fetched, Fetching
<1>5. LedgerOK'
  <2>1. ledger' \in LedgerRecs
    BY <1>2, <1>3 DEF LedgerRecs
  <2>2. /\ ledger'.reserved = ledger.reserved /\ ledger.settled \subseteq ledger'.settled
        /\ ledger.settling \cup ledger.lost \cup ledger.settled
             \subseteq ledger'.settling \cup ledger'.lost \cup ledger'.settled
    BY <1>2, <1>3 DEF LedgerRecs
  <2>3. ledger.reserved \ ledger.settled \subseteq Fetched \cup ledger.settling \cup ledger.lost
    BY DEF HardwareIInv, HardwareSettled, LedgerOK
  <2> QED BY <1>4, <2>1, <2>2, <2>3 DEF LedgerOK
<1>6. HardwareTypes'
  BY <1>1 DEF HardwareIInv, HardwareTypes
<1>7. HardwareSpent'
  <2>1. \A no : Used(no)' = Used(no) /\ ConsultsInFlight(no)' = ConsultsInFlight(no) /\ Own(no)' = Own(no)
    BY <1>1 DEF Used, ConsultsInFlight, Own
  <2>2. Used(record.no)' = Used(record.no)
    BY <1>1 DEF Used, ConsultsInFlight, Own
  <2> QED BY <1>1, <2>1, <2>2 DEF HardwareIInv, HardwareSpent
<1> QED BY <1>1, <1>5, <1>6, <1>7 DEF HardwareIInv, HardwareSettled

\* The invariant is inductive.
LEMMA HardwareStepOK == HardwareIInv /\ [HardwareNext]_hardwareVars => HardwareIInv'
<1>1. ASSUME HardwareIInv, UNCHANGED hardwareVars PROVE HardwareIInv'
  <2>1. /\ HardwareTypes' /\ HardwareSettled'
    BY <1>1 DEF hardwareVars, HardwareIInv, HardwareTypes, HardwareSettled, LedgerOK, Fetched, Fetching
  <2>2. \A no : Used(no)' = Used(no) /\ ConsultsInFlight(no)' = ConsultsInFlight(no) /\ Own(no)' = Own(no)
    BY <1>1 DEF hardwareVars, Used, ConsultsInFlight, Own
  <2>3. Used(record.no)' = Used(record.no)
    BY <1>1 DEF hardwareVars, Used, ConsultsInFlight, Own
  <2>4. HardwareSpent'
    BY <1>1, <2>2, <2>3 DEF hardwareVars, HardwareIInv, HardwareSpent
  <2> QED BY <2>1, <2>4 DEF HardwareIInv
<1> QED BY <1>1, ForgetOK, FirstRequestOK, PlanStepsOK, ConsultOK, DispatchOK, ReserveOK,
           ReserveRefusedOK, WorkerEndsOK, SettlesOK DEF HardwareNext

\* A turn pays once for a consultation and for no more than its budget; no reservation
\* is settled twice, or stays open unless a call about it was lost, for every number of
\* turns and of consultations at once.
THEOREM ConsultsAreBounded == HardwareSpec => []ConsultsBounded
BY HardwareInitOK, HardwareStepOK, HardwareKept, PTL DEF HardwareSpec
=============================================================================
