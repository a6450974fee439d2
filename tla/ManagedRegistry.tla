------------------------- MODULE ManagedRegistry -------------------------
(***************************************************************************)
(* The durable registry of config/plugins/config-manager.js.  Every folder *)
(* that is open runs an instance of the plugin with a copy of its own;     *)
(* all instances save the whole registry under one storage key.  An        *)
(* instance runs its mutations one at a time: it reads the saved registry, *)
(* applies the command, saves, reloads the native registries, and on a     *)
(* failure saves and reloads what it started from.  The wizard of the TUI  *)
(* (add-wizard.js, lib/config-receipt.js) reads the registry as a receipt  *)
(* and sends commands.                                                     *)
(*                                                                         *)
(* An entry of the registry (a provider, a profile, a session's profile)   *)
(* is a member of Entries.  What an entry says is left out.                *)
(***************************************************************************)
EXTENDS Naturals, Sequences

CONSTANTS Folders,      \* folders with an instance each
          WizardFolders, \* those with a TUI open
          Entries,      \* entries of the registry
          MaxRequests,  \* bound: requests of the wizards
          MaxMutations  \* bound: mutations queued in an instance

ASSUME RegistryAssumption ==
  /\ WizardFolders \subseteq Folders /\ Entries # {}
  /\ MaxRequests \in Nat /\ MaxMutations \in Nat \ {0}

VARIABLES saved,      \* the stored registry
          copy,       \* registry: each instance's copy
          mutations,  \* mutationQueue, with the running one at the head
          stage,      \* what the running mutation awaits
          previous,   \* the registry it started from
          receipts,   \* receipts in the inbox or the context of a session
          wizard,     \* stage, request and view of each wizard
          requestsMade,
          answered,   \* the entries that the answered mutations leave
          excused,    \* mutations of two folders overlapped, or a rollback
                      \* could not save and said so
          outdated    \* the registry was saved since the wizard asked

registryVars == <<saved, copy, mutations, stage, previous, receipts, wizard,
                  requestsMade, answered, excused, outdated>>

NoWizard == [stage |-> "closed", request |-> 0, view |-> {}]
Running(f) == Head(mutations[f])
InFlight(f) == stage[f] # "idle"
Stage(f, value) == stage' = [stage EXCEPT ![f] = value]

EnqueueMutation(f, op, entry, request) ==
  /\ Len(mutations[f]) < MaxMutations
  /\ mutations' = [mutations EXCEPT ![f] =
                     Append(@, [op |-> op, entry |-> entry, request |-> request])]

\* The running mutation ends and the next one may start.
MutationEnds(f) ==
  /\ mutations' = [mutations EXCEPT ![f] = Tail(@)]
  /\ Stage(f, "idle")
  /\ previous' = [previous EXCEPT ![f] = {}]
\* Its command answers the wizard: saved or not.
CommandReturns(f) ==
  wizard' = IF wizard[f].stage = "saving" /\ wizard[f].request = Running(f).request
            THEN [wizard EXCEPT ![f] = NoWizard] ELSE wizard

Effect(op, entry, registry) ==
  IF op = "add" THEN registry \cup {entry} ELSE registry \ {entry}

-----------------------------------------------------------------------------
(* An instance *)

\* Faulty variant: a mutation starts from the instance's own copy.
OwnCopy(f) == copy[f]
\* refresh: a mutation starts from the latest saved registry.
Refreshed(f) == saved

Begins(f) == mutations[f] # <<>> /\ stage[f] = "idle"

\* The read resolves and the operation runs up to its first write.
StartChange(f) ==
  /\ Begins(f)
  /\ LET m == Running(f)
         base == Refreshed(f) IN
       /\ m.op \in {"add", "remove", "forget"} /\ (m.op = "add" \/ m.entry \in base)
       /\ previous' = [previous EXCEPT ![f] = base]
       /\ copy' = [copy EXCEPT ![f] = Effect(m.op, m.entry, base)]
  /\ Stage(f, "saving")
  /\ excused' = (excused \/ \E g \in Folders \ {f} : InFlight(g))
  /\ UNCHANGED <<saved, mutations, receipts, wizard, requestsMade, answered, outdated>>

\* A command that its checks refuse, and a session that has no profile: nothing
\* is written.
StartRefused(f) ==
  /\ Begins(f)
  /\ \/ Running(f).op \in {"add", "remove"}
     \/ Running(f).op = "forget" /\ Running(f).entry \notin Refreshed(f)
  /\ copy' = [copy EXCEPT ![f] = Refreshed(f)]
  /\ MutationEnds(f) /\ CommandReturns(f)
  /\ UNCHANGED <<saved, receipts, requestsMade, answered, excused, outdated>>

\* /managed and /refreshmodels only read.
ReadManaged(f) ==
  /\ Begins(f) /\ Running(f).op \in {"managed", "reload"}
  /\ copy' = [copy EXCEPT ![f] = Refreshed(f)]
  /\ receipts' = IF Running(f).op = "reload" THEN receipts
                 ELSE [receipts EXCEPT ![f] =
                         @ \cup {[request |-> Running(f).request, view |-> Refreshed(f)]}]
  /\ MutationEnds(f)
  /\ UNCHANGED <<saved, wizard, requestsMade, answered, excused, outdated>>

\* The storage cannot be read, or holds a newer version: nothing is done.
RefreshFails(f) ==
  /\ Begins(f)
  /\ MutationEnds(f) /\ CommandReturns(f)
  /\ UNCHANGED <<saved, copy, receipts, requestsMade, answered, excused, outdated>>

\* save: the whole registry.  A forgotten session is not reloaded and not
\* rolled back; a command is reloaded, or rolled back if it cannot be saved.
SaveEnds(f) ==
  /\ stage[f] = "saving"
  /\ \/ /\ saved' = copy[f]
        /\ outdated' = [g \in Folders |-> TRUE]
        /\ IF Running(f).op = "forget"
           THEN MutationEnds(f) /\ answered' = answered \ {Running(f).entry}
           ELSE Stage(f, "reloading") /\ UNCHANGED <<mutations, previous, answered>>
     \/ /\ IF Running(f).op = "forget" THEN MutationEnds(f)
           ELSE Stage(f, "restoring") /\ UNCHANGED <<mutations, previous>>
        /\ UNCHANGED <<saved, answered, outdated>>
  /\ UNCHANGED <<copy, receipts, wizard, requestsMade, excused>>

\* reloadAll: providers, MCP servers and skills; one that fails fails the command.
ReloadEnds(f) ==
  /\ stage[f] = "reloading"
  /\ \/ /\ MutationEnds(f) /\ CommandReturns(f)
        /\ answered' = Effect(Running(f).op, Running(f).entry, answered)
     \/ Stage(f, "restoring") /\ UNCHANGED <<mutations, previous, wizard, answered>>
  /\ UNCHANGED <<saved, copy, receipts, requestsMade, excused, outdated>>

\* rollback: the previous registry is saved and reloaded; the error that is
\* answered names a rollback that failed.
RollbackEnds(f) ==
  /\ stage[f] = "restoring"
  /\ copy' = [copy EXCEPT ![f] = previous[f]]
  /\ \/ saved' = previous[f] /\ outdated' = [g \in Folders |-> TRUE] /\ UNCHANGED excused
     \/ excused' = TRUE /\ UNCHANGED <<saved, outdated>>
  /\ MutationEnds(f) /\ CommandReturns(f)
  /\ UNCHANGED <<receipts, requestsMade, answered>>

\* The interval that follows other folders' toggles, and /refreshmodels.
SyncToggles(f) ==
  /\ EnqueueMutation(f, "reload", CHOOSE e \in Entries : TRUE, 0)
  /\ UNCHANGED <<saved, copy, stage, previous, receipts, wizard, requestsMade, answered,
                 excused, outdated>>

\* session.deleted: forgetSessionProfiles.
SessionForgotten(f) ==
  /\ \E e \in Entries : EnqueueMutation(f, "forget", e, 0)
  /\ UNCHANGED <<saved, copy, stage, previous, receipts, wizard, requestsMade, answered,
                 excused, outdated>>

\* The plugin of a folder is disposed and set up again.  What it was running is
\* not awaited: here it had nothing to run.
InstanceRestarts(f) ==
  /\ mutations[f] = <<>>
  /\ copy' = [copy EXCEPT ![f] = saved]
  /\ UNCHANGED <<saved, mutations, stage, previous, receipts, wizard, requestsMade,
                 answered, excused, outdated>>

-----------------------------------------------------------------------------
(* The wizard *)

\* managed: the registry is asked for under a new request ID.
WizardAsks(f) ==
  /\ wizard[f].stage = "closed" /\ requestsMade < MaxRequests
  /\ requestsMade' = requestsMade + 1
  /\ EnqueueMutation(f, "managed", CHOOSE e \in Entries : TRUE, requestsMade + 1)
  /\ wizard' = [wizard EXCEPT ![f] =
                  [stage |-> "reading", request |-> requestsMade + 1, view |-> {}]]
  /\ outdated' = [outdated EXCEPT ![f] = FALSE]
  /\ UNCHANGED <<saved, copy, stage, previous, receipts, answered, excused>>

\* Faulty variant: any receipt of the session is read.
AnyReceipt(f, r) == TRUE
\* The marker of a receipt carries the request ID.
OwnReceipt(f, r) == r.request = wizard[f].request

\* readConfigReceipt: a receipt still in the inbox is taken out of it, one that
\* was admitted to the context is only read.
WizardReads(f) ==
  /\ wizard[f].stage = "reading"
  /\ \E r \in receipts[f] :
       /\ OwnReceipt(f, r)
       /\ wizard' = [wizard EXCEPT ![f].stage = "choosing", ![f].view = r.view]
       /\ \/ receipts' = [receipts EXCEPT ![f] = @ \ {r}]
          \/ UNCHANGED receipts
  /\ UNCHANGED <<saved, copy, mutations, stage, previous, requestsMade, answered,
                 excused, outdated>>

\* The receipt does not come in time, a call fails, or the user gives up.
WizardCloses(f) ==
  /\ wizard[f].stage # "closed"
  /\ wizard' = [wizard EXCEPT ![f] = NoWizard]
  /\ UNCHANGED <<saved, copy, mutations, stage, previous, receipts, requestsMade,
                 answered, excused, outdated>>

WizardSends(f, op, e) ==
  /\ wizard[f].stage = "choosing"
  /\ EnqueueMutation(f, op, e, wizard[f].request)
  /\ wizard' = [wizard EXCEPT ![f].stage = "saving", ![f].view = {}]
  /\ UNCHANGED <<saved, copy, stage, previous, receipts, requestsMade, answered,
                 excused, outdated>>

\* openWizard and saveNative: a new entry, made in dialogs.
WizardAdds(f) == \E e \in Entries : WizardSends(f, "add", e)
\* profileInput and selectProfile: a profile, or the one that is in use.
WizardSelects(f) == \E e \in Entries : WizardSends(f, "add", e)
\* toggleMcp: a choice is made, or one of the view is reset.
WizardToggles(f) ==
  \/ \E e \in Entries : WizardSends(f, "add", e)
  \/ \E e \in wizard[f].view : WizardSends(f, "remove", e)
\* configure: an entry of the view is removed.
WizardRemoves(f) == \E e \in wizard[f].view : WizardSends(f, "remove", e)

RegistryInit ==
  /\ saved = {} /\ answered = {}
  /\ copy = [f \in Folders |-> {}] /\ previous = [f \in Folders |-> {}]
  /\ mutations = [f \in Folders |-> <<>>] /\ stage = [f \in Folders |-> "idle"]
  /\ receipts = [f \in Folders |-> {}] /\ wizard = [f \in Folders |-> NoWizard]
  /\ requestsMade = 0 /\ excused = FALSE
  /\ outdated = [f \in Folders |-> FALSE]

RegistryNext ==
  \E f \in Folders :
    \/ StartChange(f) \/ StartRefused(f) \/ ReadManaged(f) \/ RefreshFails(f)
    \/ SaveEnds(f) \/ ReloadEnds(f) \/ RollbackEnds(f)
    \/ SyncToggles(f) \/ SessionForgotten(f) \/ InstanceRestarts(f)
    \/ /\ f \in WizardFolders
       /\ WizardAsks(f) \/ WizardReads(f) \/ WizardCloses(f)
          \/ WizardAdds(f) \/ WizardSelects(f) \/ WizardToggles(f) \/ WizardRemoves(f)

RegistrySpec == RegistryInit /\ [][RegistryNext]_registryVars

-----------------------------------------------------------------------------
(* Properties *)

\* The plugin's and the wizard's state has its type.
RegistryTypeOK ==
  /\ saved \subseteq Entries /\ answered \subseteq Entries
  /\ copy \in [Folders -> SUBSET Entries] /\ previous \in [Folders -> SUBSET Entries]
  /\ DOMAIN mutations = Folders
  /\ \A f \in Folders : \A i \in 1 .. Len(mutations[f]) :
       mutations[f][i] \in [op : {"add", "remove", "forget", "managed", "reload"},
                            entry : Entries, request : 0 .. MaxRequests]
  /\ stage \in [Folders -> {"idle", "saving", "reloading", "restoring"}]
  /\ \A f \in Folders :
       receipts[f] \subseteq [request : 1 .. MaxRequests, view : SUBSET Entries]
  /\ wizard \in [Folders -> [stage : {"closed", "reading", "choosing", "saving"},
                             request : 0 .. MaxRequests, view : SUBSET Entries]]
  /\ requestsMade \in 0 .. MaxRequests
  /\ excused \in BOOLEAN /\ outdated \in [Folders -> BOOLEAN]

\* While mutations of two folders do not overlap, the saved registry holds what
\* the answered ones left, whatever failed and was rolled back, also when the
\* folder's own copy is old.
AnswersAreSaved ==
  ~excused /\ (\A f \in Folders : ~InFlight(f)) => saved = answered

\* The registry that a wizard offers is the saved one, unless it was saved again
\* since the wizard asked: a late receipt of an earlier request is not shown.
ViewIsCurrent ==
  \A f \in Folders : wizard[f].stage = "choosing" /\ ~outdated[f] => wizard[f].view = saved

\* What both users of the registry rely on: the save and the wizard.
RegistryKept == AnswersAreSaved /\ ViewIsCurrent
=============================================================================
