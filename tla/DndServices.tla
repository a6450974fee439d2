---------------------------- MODULE DndServices ----------------------------
(***************************************************************************)
(* What the D&D plugins do beside the narrator's turn: an art job that is  *)
(* generated, published and submitted (config/plugins/dnd-art.js: ArtSpec),*)
(* the route of a narrator request (dnd-super-orchestrator.js: RouteSpec), *)
(* the game skills a turn is given (context-lanes.js: SkillSpec), the      *)
(* process that keeps the machine awake for a running turn or for the wait *)
(* of the D&D watcher (keep-awake.js: AwakeSpec), and what a session is    *)
(* known to have read of its campaign (dnd-state-cache.js: BaselineSpec).  *)
(***************************************************************************)
EXTENDS Naturals, Sequences, FiniteSets

CONSTANTS MaxArtRuns,   \* bound: runs of the art job
          MaxArtFaults, \* bound: failed or unanswered calls, crashes, moves of others
          Portrait,     \* the target is a character: its image is asked for
          MaxCommits,   \* bound: commits of others to the library
          Pushes,       \* attempts of one publication: 3
          Gamers,       \* sessions that narrate
          Strict,       \* DND_ORCHESTRATOR=on
          MaxGameTurns, \* bound: user turns of a session
          MaxRouted,    \* bound: routing decisions asked
          MaxDecisions, \* decisions kept: 256
          SkillTurns,   \* turns that ask for the game skills
          ColdRetries,  \* GAME_SKILL_COLD_RETRIES
          MaxSkillNews  \* bound: changes of the skill catalog

ASSUME DndServicesAssumption ==
  Pushes \in Nat \ {0} /\ MaxDecisions \in Nat \ {0} /\ ColdRetries \in Nat
  /\ {Strict, Portrait} \subseteq BOOLEAN

-----------------------------------------------------------------------------
(* dnd-art.js: one target of a campaign, and the worker of one plugin        *)

VARIABLES art,        \* the saved record of the job
          artStage,   \* where the run is, "idle" without one
          artSeen,    \* what the run read: the job, the head, its pushes, its result
          artJob,     \* the ODM job: its status and who claimed it
          artLibrary, \* the art repository: its head, and how often the image is listed
          odm,        \* what ODM holds: our bytes staged, our asset accepted, an image
          artImages,  \* images generated for this job
          artForgot,  \* times a generation under way was recorded as existing
          artCount    \* runs and faults so far

artVars == <<art, artStage, artSeen, artJob, artLibrary, odm, artImages, artForgot, artCount>>

NewArt == [status |-> "planned", file |-> FALSE, publication |-> FALSE, grant |-> FALSE,
           uploaded |-> FALSE, asset |-> FALSE]
NothingSeen == [job |-> "none", head |-> 0, push |-> 0, result |-> FALSE]

MayFault == artCount.faults < MaxArtFaults
ArtFault == artCount' = [artCount EXCEPT !.faults = @ + 1]
artOutside == <<artJob, artLibrary, odm, artImages>>

\* The error is saved, the rest of the record stays.
ArtStops == artStage' = "idle" /\ artSeen' = NothingSeen
ArtFails == MayFault /\ ArtFault /\ ArtStops /\ UNCHANGED <<art, artOutside, artForgot>>

\* The target has an image of someone else: whatever the record said, it is existing.
ArtExists(record) ==
  /\ art' = [record EXCEPT !.status = "existing"] /\ ArtStops
  /\ artForgot' = IF art.status = "generating" THEN artForgot + 1 ELSE artForgot

\* dnd_art ensure: one run at a time reads the plan of the campaign.
ArtRun ==
  /\ artStage = "idle" /\ art.status # "ready" /\ artCount.runs < MaxArtRuns
  /\ artCount' = [artCount EXCEPT !.runs = @ + 1]
  /\ IF artJob.status = "ready" /\ ~art.asset
     THEN ArtExists([art EXCEPT !.grant = FALSE])
     ELSE /\ artStage' = IF Portrait THEN "look" ELSE "claim"
          /\ artSeen' = [NothingSeen EXCEPT !.job = IF artJob.status = "claimed" THEN artJob.by
                                                    ELSE artJob.status]
          /\ UNCHANGED <<art, artForgot>>
  /\ UNCHANGED artOutside

\* get_image, asked again in every run before anything is claimed.
ArtLook ==
  /\ artStage = "look"
  /\ IF odm.image /\ ~art.file THEN ArtExists(art)
     ELSE artStage' = "claim" /\ UNCHANGED <<art, artSeen, artForgot>>
  /\ UNCHANGED <<artOutside, artCount>>

\* claim_job, decided on the plan that was read.
ArtClaim ==
  /\ artStage = "claim"
  /\ CASE artSeen.job \in {"available", "failed"} /\ artJob.status \in {"available", "failed"} ->
            /\ artJob' = [status |-> "claimed", by |-> "us"]
            /\ artStage' = "image" /\ UNCHANGED artSeen
       [] artSeen.job \notin {"available", "failed"} /\ (art.asset \/ artSeen.job = "us") ->
            artStage' = "image" /\ UNCHANGED <<artJob, artSeen>>
       [] OTHER -> ArtStops /\ UNCHANGED artJob
  /\ UNCHANGED <<art, artLibrary, odm, artImages, artForgot, artCount>>

\* Faulty variant: an interrupted generation is started again.
MayGenerateAgain == TRUE
\* After a restart nobody knows whether the image was paid for.
MayGenerate == art.status # "generating"

ArtGenerate ==
  /\ artStage = "image"
  /\ IF art.file THEN artStage' = "publish" /\ UNCHANGED <<art, artSeen>>
     ELSE IF MayGenerate
     THEN art' = [art EXCEPT !.status = "generating"] /\ artStage' = "generate" /\ UNCHANGED artSeen
     ELSE ArtStops /\ UNCHANGED art
  /\ UNCHANGED <<artOutside, artForgot, artCount>>

\* The image is made; its file and the record follow, or the answer is lost.
ArtImage(answered) ==
  /\ artStage = "generate" /\ artImages' = artImages + 1
  /\ IF answered
     THEN /\ art' = [art EXCEPT !.file = TRUE, !.status = "generated"]
          /\ artStage' = "publish" /\ UNCHANGED <<artSeen, artCount>>
     ELSE MayFault /\ ArtFault /\ ArtStops /\ UNCHANGED art
  /\ UNCHANGED <<artJob, artLibrary, odm, artForgot>>

\* Faulty variant: the index is extended without looking at it.
ImageListedNever == FALSE
ImageListed == artLibrary.listed > 0

\* publishArt reads the head and its index.
ArtReadIndex ==
  /\ artStage = "publish"
  /\ IF art.publication \/ ImageListed
     THEN /\ artStage' = "submit" /\ UNCHANGED artSeen
          /\ art' = IF art.publication THEN art
                    ELSE [art EXCEPT !.publication = TRUE, !.status = "published"]
     ELSE /\ artStage' = "push" /\ UNCHANGED art
          /\ artSeen' = [artSeen EXCEPT !.head = artLibrary.head, !.push = @ + 1]
  /\ UNCHANGED <<artOutside, artForgot, artCount>>

\* The ref moves only from the head that was read; a refused or unanswered update is
\* tried again against the new head.
ArtPush(answered) ==
  /\ artStage = "push"
  /\ answered \/ (MayFault /\ artLibrary.head = artSeen.head)
  /\ LET moved == artLibrary.head = artSeen.head IN
       /\ artLibrary' = IF moved THEN [head |-> artLibrary.head + 1, listed |-> artLibrary.listed + 1]
                     ELSE artLibrary
       /\ artCount' = IF answered THEN artCount ELSE [artCount EXCEPT !.faults = @ + 1]
       /\ IF moved /\ answered
          THEN /\ art' = [art EXCEPT !.publication = TRUE, !.status = "published"]
               /\ artStage' = "submit" /\ UNCHANGED artSeen
          ELSE /\ UNCHANGED art
               /\ IF artSeen.push < Pushes THEN artStage' = "publish" /\ UNCHANGED artSeen
                  ELSE ArtStops
  /\ UNCHANGED <<artJob, odm, artImages, artForgot>>

\* submit_result: ODM takes the staged bytes of its claimant, and answers a repeated
\* submission with the same asset.
AssetAccepted == odm.asset \/ (odm.staged /\ artJob = [status |-> "claimed", by |-> "us"])
AssetSubmitted == /\ odm' = IF odm.asset THEN odm ELSE [odm EXCEPT !.asset = TRUE, !.image = TRUE]
                  /\ artJob' = IF odm.asset THEN artJob ELSE [status |-> "ready", by |-> "us"]

\* A grant is there and its upload was not acknowledged: the same submission first.
ArtSubmitFirst(answered) ==
  /\ artStage = "submit"
  /\ IF ~art.asset /\ art.grant /\ ~art.uploaded
     THEN /\ IF AssetAccepted THEN AssetSubmitted ELSE UNCHANGED <<odm, artJob>>
          /\ answered \/ MayFault
          /\ artSeen' = [artSeen EXCEPT !.result = AssetAccepted /\ answered]
          /\ artCount' = IF answered THEN artCount ELSE [artCount EXCEPT !.faults = @ + 1]
     ELSE answered /\ UNCHANGED <<odm, artJob, artSeen, artCount>>
  /\ artStage' = IF art.asset THEN "finish" ELSE "upload"
  /\ UNCHANGED <<art, artLibrary, artImages, artForgot>>

\* The grant is saved before the bytes go out; nothing is staged for a new one.
ArtUpload(answered) ==
  /\ artStage = "upload"
  /\ CASE ~art.grant -> /\ answered /\ art' = [art EXCEPT !.grant = TRUE]
                        /\ odm' = [odm EXCEPT !.staged = FALSE]
                        /\ UNCHANGED <<artStage, artSeen, artCount>>
       [] art.grant /\ ~artSeen.result /\ ~art.uploaded ->
            /\ odm' = [odm EXCEPT !.staged = TRUE]
            /\ IF answered
               THEN art' = [art EXCEPT !.uploaded = TRUE] /\ artStage' = "asset"
                    /\ UNCHANGED <<artSeen, artCount>>
               ELSE MayFault /\ ArtFault /\ ArtStops /\ UNCHANGED art
       [] OTHER -> answered /\ artStage' = "asset" /\ UNCHANGED <<art, odm, artSeen,
                                                                  artCount>>
  /\ UNCHANGED <<artJob, artLibrary, artImages, artForgot>>

ArtAsset(answered) ==
  /\ artStage = "asset"
  /\ IF artSeen.result THEN answered /\ UNCHANGED <<odm, artJob>>
     ELSE AssetAccepted /\ AssetSubmitted
  /\ IF answered
     THEN art' = [art EXCEPT !.asset = TRUE] /\ artStage' = "finish"
          /\ UNCHANGED <<artSeen, artCount>>
     ELSE MayFault /\ ArtFault /\ ArtStops /\ UNCHANGED art
  /\ UNCHANGED <<artLibrary, artImages, artForgot>>

ArtFinish ==
  /\ artStage = "finish" /\ art' = [art EXCEPT !.status = "ready", !.grant = FALSE]
  /\ ArtStops /\ UNCHANGED <<artOutside, artForgot, artCount>>

\* A call fails, the plugin is disposed or the process ends.
ArtBreaks == artStage # "idle" /\ ArtFails

\* External: the lease of the job runs out, another worker takes it, gives it up or
\* finishes it; the image of the target is set or taken away, which opens a finished job
\* again; others commit to the library.
JobMoves ==
  /\ \E next \in {artJob, [status |-> "available", by |-> "none"],
                 [status |-> "claimed", by |-> "other"], [status |-> "ready", by |-> "other"]},
       image \in BOOLEAN :
       /\ next = artJob \/ CASE next.status = "claimed" -> artJob.status = "available"
                             [] next.status = "ready" -> artJob.by = "other" /\ image
                             [] OTHER -> artJob.status = "ready" => ~image
       /\ artJob' = next /\ odm' = [odm EXCEPT !.image = image]
       /\ <<artJob', odm'>> # <<artJob, odm>>
  /\ MayFault /\ ArtFault /\ UNCHANGED <<art, artStage, artSeen, artLibrary, artImages, artForgot>>
LibraryMoves ==
  /\ artLibrary.head < MaxCommits + artLibrary.listed
  /\ artLibrary' = [artLibrary EXCEPT !.head = @ + 1]
  /\ UNCHANGED <<art, artStage, artSeen, artJob, odm, artImages, artForgot, artCount>>

ArtInit ==
  /\ art = NewArt /\ artStage = "idle" /\ artSeen = NothingSeen
  /\ artJob = [status |-> "available", by |-> "none"]
  /\ artLibrary = [head |-> 0, listed |-> 0]
  /\ odm = [staged |-> FALSE, asset |-> FALSE, image |-> FALSE] /\ artForgot = 0
  /\ artImages = 0 /\ artCount = [runs |-> 0, faults |-> 0]

ArtNext ==
  \/ ArtRun \/ ArtLook \/ ArtClaim \/ ArtGenerate \/ ArtReadIndex \/ ArtFinish
  \/ \E answered \in BOOLEAN :
       ArtImage(answered) \/ ArtPush(answered) \/ ArtSubmitFirst(answered)
       \/ ArtUpload(answered) \/ ArtAsset(answered)
  \/ ArtBreaks \/ JobMoves \/ LibraryMoves

ArtSpec == ArtInit /\ [][ArtNext]_artVars

ArtTypeOK ==
  /\ art.status \in {"planned", "generating", "generated", "published", "existing", "ready"}
  /\ artCount.runs \in 0..MaxArtRuns /\ artCount.faults \in 0..MaxArtFaults
  /\ artSeen.push \in 0..Pushes

(***************************************************************************)
(* Over any failures, lost answers, crashes, repeated orders and moves of   *)
(* others: an image is generated again only after the target was found to  *)
(* have one while a generation was under way, what is published was        *)
(* generated, it is listed at most once, what the record calls published   *)
(* is listed, and its asset is one ODM accepted.                           *)
(***************************************************************************)
ArtOnce ==
  /\ artImages <= 1 + artForgot /\ artLibrary.listed <= 1
  /\ art.publication => artLibrary.listed = 1 /\ artImages >= 1
  /\ art.asset => odm.asset /\ art.publication

-----------------------------------------------------------------------------
(* dnd-super-orchestrator.js: one decision for a user turn of a session      *)

VARIABLES gameTurn,   \* gameTurn[s]: user turns so far
          narrations, \* narrator requests under way: [chat, turn, plan]
          routePlans, \* the routing plans, oldest first: [chat, turn, state]
          decisions,  \* kept decisions [chat, turn, plan]: the older, the lower plan
          displaced,  \* plans whose decision was replaced or evicted
          routedAgain \* a turn was classified again although its decision stood

routeVars == <<gameTurn, narrations, routePlans, decisions, displaced, routedAgain>>

DecidedFor(s) == {d \in decisions : d.chat = s}
OtherDecisions(s) == decisions \ DecidedFor(s)
PlansIn(ds) == {d.plan : d \in ds}
Oldest(ds) == {d \in ds : \A e \in ds : d.plan <= e.plan}
DecisionsBounded(ds) == IF Cardinality(ds) > MaxDecisions THEN ds \ Oldest(ds) ELSE ds

GameTurn(s) ==
  /\ gameTurn[s] < MaxGameTurns /\ gameTurn' = [gameTurn EXCEPT ![s] = @ + 1]
  /\ UNCHANGED <<narrations, routePlans, decisions, displaced, routedAgain>>

\* decide: a step of the turn joins its plan, another turn starts one.
NarratorAsks(s, turn) ==
  /\ turn \in {gameTurn[s] - 1, gameTurn[s]} /\ turn > 0
  /\ IF \E d \in DecidedFor(s) : d.turn = turn
     THEN \E d \in DecidedFor(s) :
            /\ d.turn = turn /\ d \notin narrations /\ narrations' = narrations \union {d}
            /\ UNCHANGED <<routePlans, decisions, displaced, routedAgain>>
     ELSE LET n == Len(routePlans) + 1
              new == [chat |-> s, turn |-> turn, plan |-> n]
              kept == DecisionsBounded(OtherDecisions(s) \union {new})
          IN /\ n <= MaxRouted
             /\ routePlans' = Append(routePlans, [chat |-> s, turn |-> turn, state |-> "asked"])
             /\ decisions' = kept
             /\ displaced' = displaced \union (PlansIn(decisions) \ PlansIn(kept))
             /\ narrations' = narrations \union {new}
             /\ routedAgain' = (routedAgain \/ \E i \in DOMAIN routePlans :
                  routePlans[i].chat = s /\ routePlans[i].turn = turn
                    /\ routePlans[i].state # "failed" /\ i \notin displaced)
  /\ UNCHANGED gameTurn

\* The router answers.  One that does not fails the turn in strict mode; in auto mode
\* Luna LOW is the decision of the turn.
RouterAnswers(n) ==
  /\ routePlans[n].state = "asked"
  /\ routePlans' = [routePlans EXCEPT ![n].state = "decided"]
  /\ UNCHANGED <<gameTurn, narrations, decisions, displaced, routedAgain>>

\* Faulty variant: the decision of the session is forgotten, whoever's it is.
FailureForgetsAny(n) == OtherDecisions(routePlans[n].chat)
\* A strict failure does not stick to the turn, and takes no newer decision with it.
FailureForgotten(n) == {d \in decisions : d.plan # n}

RouterFails(n) ==
  /\ routePlans[n].state = "asked"
  /\ IF Strict
     THEN /\ routePlans' = [routePlans EXCEPT ![n].state = "failed"]
          /\ decisions' = FailureForgotten(n)
          /\ UNCHANGED displaced
     ELSE /\ routePlans' = [routePlans EXCEPT ![n].state = "decided"]
          /\ UNCHANGED <<decisions, displaced>>
  /\ UNCHANGED <<gameTurn, narrations, routedAgain>>

\* The request goes to the model of its plan, or fails with it.
NarratorGoes(a) ==
  /\ routePlans[a.plan].state # "asked"
  /\ narrations' = narrations \ {a}
  /\ UNCHANGED <<gameTurn, routePlans, decisions, displaced, routedAgain>>

RouteInit ==
  /\ gameTurn = [s \in Gamers |-> 0] /\ narrations = {} /\ routePlans = <<>> /\ decisions = {}
  /\ displaced = {} /\ routedAgain = FALSE

RouteNext ==
  \/ \E s \in Gamers : GameTurn(s) \/ \E turn \in 1..MaxGameTurns : NarratorAsks(s, turn)
  \/ \E n \in DOMAIN routePlans : RouterFails(n) \/ RouterAnswers(n)
  \/ \E a \in narrations : NarratorGoes(a)

RouteSpec == RouteInit /\ [][RouteNext]_routeVars

RouteTypeOK ==
  /\ Len(routePlans) <= MaxRouted /\ Cardinality(decisions) <= MaxDecisions
  /\ \A d \in decisions : d.plan \in DOMAIN routePlans

(***************************************************************************)
(* The steps of a turn share one decision: a turn is classified again only *)
(* after its plan failed or its decision gave way to another one, and no   *)
(* kept decision is that of a failed plan.                                 *)
(***************************************************************************)
RoutedOnce ==
  /\ ~routedAgain
  /\ \A d \in decisions : routePlans[d.plan].state # "failed"

-----------------------------------------------------------------------------
(* context-lanes.js: the game skills put into a narrator's context           *)

VARIABLES catalog,    \* what skill.list gives: "partial" or "complete"
          gameSkills, \* the kept list: [list, fresh], list "none" without one
          skillAsk,   \* skillAsk[t]: attempts so far, the answer under way, the result
          hadAll,     \* a complete list was kept since the skills last changed
          skillNews   \* changes of the catalog

skillVars == <<catalog, gameSkills, skillAsk, hadAll, skillNews>>

NoSkills == [list |-> "none", fresh |-> FALSE]

\* A kept list that has not run out is given at once; else the catalog is read.
SkillAsk(t) ==
  /\ skillAsk[t].stage = "none"
  /\ skillAsk' = [skillAsk EXCEPT ![t] =
       IF gameSkills.fresh THEN [@ EXCEPT !.stage = "done", !.got = gameSkills.list]
       ELSE [@ EXCEPT !.stage = "read", !.kept = gameSkills.list = "complete"]]
  /\ UNCHANGED <<catalog, gameSkills, hadAll, skillNews>>

SkillListed(t) ==
  /\ skillAsk[t].stage = "read"
  /\ skillAsk' = [skillAsk EXCEPT ![t].stage = "listed", ![t].got = catalog]
  /\ UNCHANGED <<catalog, gameSkills, hadAll, skillNews>>

\* Faulty variant: what was kept when the turn began to read decides.
CompleteKeptThen(t) == skillAsk[t].kept
CompleteKept(t) == gameSkills.list = "complete"

\* The list arrives: a complete one is kept, a partial one is tried again and in the
\* end kept for a short time, unless there is a complete one.
SkillTaken(t) ==
  /\ skillAsk[t].stage = "listed"
  /\ CASE skillAsk[t].got = "complete" ->
            /\ gameSkills' = [list |-> "complete", fresh |-> TRUE] /\ hadAll' = TRUE
            /\ skillAsk' = [skillAsk EXCEPT ![t].stage = "done"]
       [] skillAsk[t].got # "complete" /\ CompleteKept(t) ->
            /\ skillAsk' = [skillAsk EXCEPT ![t].stage = "done", ![t].got = "complete"]
            /\ UNCHANGED <<gameSkills, hadAll>>
       [] skillAsk[t].got # "complete" /\ ~CompleteKept(t) /\ skillAsk[t].attempt >= ColdRetries ->
            /\ gameSkills' = [list |-> "partial", fresh |-> TRUE]
            /\ skillAsk' = [skillAsk EXCEPT ![t].stage = "done"] /\ UNCHANGED hadAll
       [] OTHER ->
            /\ skillAsk' = [skillAsk EXCEPT ![t].stage = "read", ![t].attempt = @ + 1]
            /\ UNCHANGED <<gameSkills, hadAll>>
  /\ UNCHANGED <<catalog, skillNews>>

\* The kept list runs out, or skill.updated drops it; the catalog fills up or starts
\* again.
SkillsExpire ==
  /\ gameSkills.fresh /\ gameSkills' = [gameSkills EXCEPT !.fresh = FALSE]
  /\ UNCHANGED <<catalog, skillAsk, hadAll, skillNews>>
SkillsUpdated ==
  /\ skillNews < MaxSkillNews /\ skillNews' = skillNews + 1
  /\ gameSkills' = NoSkills /\ hadAll' = FALSE
  /\ catalog' \in {"partial", "complete"} /\ UNCHANGED skillAsk
CatalogFills ==
  /\ catalog' \in {"partial", "complete"} \ {catalog} /\ skillNews < MaxSkillNews
  /\ skillNews' = skillNews + 1 /\ UNCHANGED <<gameSkills, skillAsk, hadAll>>

SkillInit ==
  /\ catalog = "partial" /\ gameSkills = NoSkills /\ hadAll = FALSE /\ skillNews = 0
  /\ skillAsk = [t \in SkillTurns |-> [stage |-> "none", attempt |-> 0, kept |-> FALSE, got |-> "none"]]

SkillNext ==
  \/ \E t \in SkillTurns : SkillAsk(t) \/ SkillListed(t) \/ SkillTaken(t)
  \/ SkillsExpire \/ SkillsUpdated \/ CatalogFills

SkillSpec == SkillInit /\ [][SkillNext]_skillVars

SkillTypeOK ==
  /\ catalog \in {"partial", "complete"} /\ skillNews \in 0..MaxSkillNews
  /\ \A t \in SkillTurns : skillAsk[t].attempt \in 0..ColdRetries

(***************************************************************************)
(* A partial list of game skills never takes the place of a complete one,  *)
(* until the skills change.                                                *)
(***************************************************************************)
CompleteStays == hadAll => gameSkills.list = "complete"
-----------------------------------------------------------------------------
(* keep-awake.js: the sessions that run and one hold of another plugin       *)

CONSTANT AwakeSessions

VARIABLES awakeRuns,  \* the sessions that run
          awakeHeard, \* those whose start the plugin was told, and which it did not forget
          awakeBusy,  \* the map busy
          awakeOld,   \* entries older than STALE_BUSY_MS
          awakeHeld,  \* the set holds has the D&D watcher's
          holdKept,   \* no unload of the plugin since it was asked for
          keeper,     \* the keeper: none, alive, or one that ended or could not be started
          awakeLoads  \* instances of the plugin, one per folder, at most two

awakeVars == <<awakeRuns, awakeHeard, awakeBusy, awakeOld, awakeHeld, holdKept, keeper,
               awakeLoads>>

\* Faulty variant: an idle session releases the keeper for all.
StaysForHolds(b) == awakeHeld
StaysAwake(b) == b # {} \/ awakeHeld

\* ensureKeeper: a keeper that ended is replaced, which may fail.
EnsureKeeper == keeper' \in IF keeper = "alive" THEN {"alive"} ELSE {"alive", "ended"}
SyncKeeper(awake) == IF awake THEN EnsureKeeper ELSE keeper' = "none"

\* observe: the entry of the event, then the stale ones go.
Observe(b, fresh) ==
  /\ awakeBusy' = b \ (awakeOld \ fresh)
  /\ awakeOld' = {}
  /\ awakeHeard' = ((awakeHeard \ awakeOld) \cup fresh) \cap awakeRuns'
  /\ SyncKeeper(StaysAwake(awakeBusy'))

RunStarts(s) ==
  /\ s \notin awakeRuns
  /\ awakeRuns' = awakeRuns \cup {s}
  /\ \/ /\ awakeLoads > 0
        /\ Observe(awakeBusy \cup {s}, {s})
     \/ UNCHANGED <<awakeHeard, awakeBusy, awakeOld, keeper>> \* the event is lost
  /\ UNCHANGED <<awakeHeld, holdKept, awakeLoads>>
RunEnds(s) ==
  /\ s \in awakeRuns
  /\ awakeRuns' = awakeRuns \ {s}
  /\ \/ awakeLoads > 0 /\ Observe(awakeBusy \ {s}, {})
     \/ /\ awakeHeard' = awakeHeard \ {s}
        /\ UNCHANGED <<awakeBusy, awakeOld, keeper>>
  /\ UNCHANGED <<awakeHeld, holdKept, awakeLoads>>
\* The timer of an instance: observe(null) answers before the stale entries go.
Renew ==
  /\ awakeLoads > 0 /\ SyncKeeper(StaysAwake(awakeBusy))
  /\ UNCHANGED <<awakeRuns, awakeHeard, awakeBusy, awakeOld, awakeHeld, holdKept,
                 awakeLoads>>
KeeperExits ==
  /\ keeper = "alive" /\ keeper' = "ended"
  /\ UNCHANGED <<awakeRuns, awakeHeard, awakeBusy, awakeOld, awakeHeld, holdKept,
                 awakeLoads>>
RunGetsOld(s) ==
  /\ s \in awakeBusy \ awakeOld /\ awakeOld' = awakeOld \cup {s}
  /\ UNCHANGED <<awakeRuns, awakeHeard, awakeBusy, awakeHeld, holdKept, keeper,
                 awakeLoads>>
HoldAwake ==
  /\ awakeHeld' = TRUE /\ holdKept' = TRUE /\ EnsureKeeper
  /\ UNCHANGED <<awakeRuns, awakeHeard, awakeBusy, awakeOld, awakeLoads>>
ReleaseAwake ==
  /\ awakeHeld /\ awakeHeld' = FALSE /\ holdKept' = FALSE
  /\ keeper' = IF awakeBusy = {} THEN "none" ELSE keeper
  /\ UNCHANGED <<awakeRuns, awakeHeard, awakeBusy, awakeOld, awakeLoads>>
AwakeLoad ==
  /\ awakeLoads < 2 /\ awakeLoads' = awakeLoads + 1
  /\ UNCHANGED <<awakeRuns, awakeHeard, awakeBusy, awakeOld, awakeHeld, holdKept,
                 keeper>>
\* The state is the module's: unloading one folder's instance clears it for all.
AwakeUnload ==
  /\ awakeLoads > 0 /\ awakeLoads' = awakeLoads - 1
  /\ awakeBusy' = {} /\ awakeOld' = {} /\ awakeHeard' = {} /\ holdKept' = FALSE
  /\ keeper' = "none" /\ UNCHANGED <<awakeRuns, awakeHeld>>

AwakeInit ==
  /\ awakeRuns = {} /\ awakeHeard = {} /\ awakeBusy = {} /\ awakeOld = {}
  /\ awakeHeld = FALSE /\ holdKept = FALSE /\ keeper = "none" /\ awakeLoads = 1

AwakeNext ==
  \/ \E s \in AwakeSessions : RunStarts(s) \/ RunEnds(s) \/ RunGetsOld(s)
  \/ Renew \/ KeeperExits \/ HoldAwake \/ ReleaseAwake \/ AwakeLoad \/ AwakeUnload

AwakeSpec == AwakeInit /\ [][AwakeNext]_awakeVars

AwakeTypeOK ==
  /\ awakeRuns \cup awakeHeard \cup awakeBusy \cup awakeOld \subseteq AwakeSessions
  /\ {awakeHeld, holdKept} \subseteq BOOLEAN
  /\ keeper \in {"none", "alive", "ended"} /\ awakeLoads \in 0..2

(***************************************************************************)
(* The keeper runs only for a busy session or a hold; and as long as one   *)
(* session is known to run, or the watcher holds the machine, and the      *)
(* plugin was not unloaded since, only its own end takes it away: not the  *)
(* end of another session, of another hold or an old entry.                *)
(***************************************************************************)
KeptAwake ==
  /\ keeper = "alive" => awakeBusy # {} \/ awakeHeld
  /\ awakeHeard \subseteq awakeBusy
  /\ awakeHeard # {} \/ holdKept => keeper # "none"

-----------------------------------------------------------------------------
(* What a session has read.  Reads, and writes for the state after them, ask for
   the difference to an acknowledged revision; a big answer comes in pages that have
   to be drained before a write.  The narrator's calls run concurrently, and a
   compaction or another reset may come between a call and its answer.  A revision
   of the campaign is its number; one campaign, an answer has one page or two. *)

CONSTANTS Projections,   \* of the campaign: the keys of the session's states
          MaxCalls,      \* bound: calls under way at once
          MaxRevision,   \* bound: revisions of the campaign
          MaxResets      \* bound: resets of the session

ASSUME BaselineAssumption == "live" \in Projections

VARIABLES campaign,   \* the revision of the campaign
          contextNo,  \* identity of the session's states: sessions.get(id)
          known,      \* per projection: acknowledged revision, 0 for none; restore; page
          fullFallback, \* one full read is granted after a failed read of a difference
          calls,      \* the calls under way
          transcript, \* revisions the narrator can reconstruct from what it was told
          early       \* a write was sent while pages of the reads before it were left

baselineVars == <<campaign, contextNo, known, fullFallback, calls, transcript, early>>

NoCursor == [rev |-> 0, base |-> 0, delta |-> TRUE]
NothingKnown == [revision |-> 0, restore |-> FALSE, page |-> NoCursor]
NewCall(op, p) == [op |-> op, proj |-> p, base |-> 0, delta |-> TRUE, context |-> contextNo,
                   cursor |-> NoCursor, stage |-> "sent", rev |-> 0, partial |-> FALSE]
Send(x) == Cardinality(calls) < MaxCalls /\ x \notin calls /\ calls' = calls \cup {x}

-----------------------------------------------------------------------------
(* The campaign *)

CampaignMoves ==
  /\ campaign < MaxRevision
  /\ campaign' = campaign + 1
  /\ UNCHANGED <<contextNo, known, fullFallback, calls, transcript, early>>

-----------------------------------------------------------------------------
(* prepare, readParams *)

\* The first query restores the whole state after an unknown character; else it asks
\* for the difference to the acknowledged revision, or to an older one that the
\* narrator names itself.  A whole state without a difference is granted once, after
\* a failed read of one.
Bases(p) ==
  IF known[p].restore THEN {0} ELSE {known[p].revision, 1}

ReadParams(op, p, base, delta) ==
  /\ IF delta THEN base \in Bases(p) ELSE base = 0 /\ fullFallback /\ ~known[p].restore
  /\ Send([NewCall(op, p) EXCEPT !.base = base, !.delta = delta])
  /\ fullFallback' = (fullFallback /\ known[p].restore)

StartReading(p, base, delta) ==
  /\ ReadParams("read", p, base, delta)
  /\ UNCHANGED <<campaign, contextNo, known, transcript, early>>

\* The next page is asked for with the query of the first one.
StartPage(p) ==
  /\ known[p].page # NoCursor
  /\ Send([NewCall("page", p) EXCEPT !.cursor = known[p].page])
  /\ UNCHANGED <<campaign, contextNo, known, fullFallback, transcript, early>>

\* Faulty variant: a write does not wait for the rest of a read.
DrainedOrNot == TRUE
\* A write is refused while pages are left.
Drained == \A p \in Projections : known[p].page = NoCursor

\* A write asks for the state after it, as a read would: its readAfter.
StartWrite(p, base, delta) ==
  /\ Drained
  /\ ReadParams("write", p, base, delta)
  /\ early' = (early \/ \E q \in Projections : known[q].page # NoCursor)
  /\ UNCHANGED <<campaign, contextNo, known, transcript>>

\* Some ask for nothing: those of the floor, or when the narrator says so.
StartBareWrite ==
  /\ Drained
  /\ Send(NewCall("bare", "live"))
  /\ early' = (early \/ \E p \in Projections : known[p].page # NoCursor)
  /\ UNCHANGED <<campaign, contextNo, known, fullFallback, transcript>>

-----------------------------------------------------------------------------
(* External, the server answers: a read, or a write with the state after it, from *)
(* where the campaign is, a page from the answer it belongs to.  A difference it    *)
(* cannot make is answered with the whole state.                                   *)

Serve(x) ==
  /\ x.stage = "sent" /\ x.op # "bare"
  /\ \E partial \in IF x.op \in {"read", "write"} THEN BOOLEAN ELSE {FALSE},
        base \in {x.base, 0} :
       calls' = (calls \ {x}) \cup
                {[x EXCEPT !.stage = "served", !.partial = partial, !.base = base,
                           !.rev = IF x.op = "page" THEN x.cursor.rev ELSE campaign]}
  /\ UNCHANGED <<campaign, contextNo, known, fullFallback, transcript, early>>

-----------------------------------------------------------------------------
(* wrap, observe *)

\* Faulty variant: the states are looked up again when the answer is there.
LandsAnyway(x) == TRUE
\* sessions.get(id) === states
Lands(x) == x.context = contextNo

\* Faulty variant: a difference counts whatever it is a difference to.
FollowsAny(base, previous) == TRUE
\* A difference counts from the acknowledged revision only; a whole state always.
Follows(base, previous) == base = 0 \/ base = previous.revision

\* observe, a complete answer: the page is done whether or not its difference counts.
Acknowledged(p, base, delta, rev) ==
  IF delta /\ Follows(base, known[p]) /\ rev >= known[p].revision
  THEN [NothingKnown EXCEPT !.revision = rev]
  ELSE [known[p] EXCEPT !.page = NoCursor]

\* What the narrator can reconstruct once it is told the answer.
Told(base, rev) == IF base = 0 \/ base \in transcript THEN transcript \cup {rev} ELSE transcript

\* A first page of two leaves the rest open, whoever's answer it is.
Observes(x) ==
  LET cursor == [rev |-> x.rev, base |-> x.base, delta |-> x.delta]
  IN /\ known' = IF ~Lands(x) THEN known
                 ELSE IF x.partial THEN [known EXCEPT ![x.proj].page = cursor]
                 ELSE [known EXCEPT ![x.proj] = Acknowledged(x.proj, x.base, x.delta, x.rev)]
     /\ transcript' = IF x.partial THEN transcript ELSE Told(x.base, x.rev)

ReadAnswered(x) ==
  /\ x.stage = "served" /\ x.op = "read" /\ Observes(x)
  /\ calls' = calls \ {x}
  /\ UNCHANGED <<campaign, contextNo, fullFallback, early>>

\* A page counts if it continues the one that is open.
PageAnswered(x) ==
  /\ x.stage = "served" /\ x.op = "page"
  /\ LET c == x.cursor
         fits == Lands(x) /\ known[x.proj].page = c
     IN /\ known' = IF fits THEN [known EXCEPT ![x.proj] = Acknowledged(x.proj, c.base, c.delta, c.rev)]
                    ELSE known
        /\ transcript' = IF x.context = contextNo THEN Told(c.base, c.rev) ELSE transcript
  /\ calls' = calls \ {x}
  /\ UNCHANGED <<campaign, contextNo, fullFallback, early>>

\* The answer of a write is observed as a read's is, if it brings the state after it.
WriteAnswered(x) ==
  /\ \/ x.stage = "served" /\ x.op = "write" /\ Observes(x)
     \/ x.op \in {"write", "bare"} /\ UNCHANGED <<known, transcript>>
  /\ calls' = calls \ {x}
  /\ UNCHANGED <<campaign, contextNo, fullFallback, early>>

\* A write is never repeated.  An invoke that named an unknown character drops what is
\* known of every projection; other failures leave it.
WriteFails(x) ==
  /\ x.op \in {"write", "bare"}
  /\ \E unknown \in BOOLEAN :
       known' = IF unknown /\ Lands(x)
                THEN [p \in Projections |-> [NothingKnown EXCEPT !.restore = TRUE]] ELSE known
  /\ calls' = calls \ {x}
  /\ UNCHANGED <<campaign, contextNo, fullFallback, transcript, early>>

\* A read is repeated once after a transient failure; a difference that fails for good
\* unlocks a full read.
ReadFailedForGood(x) ==
  /\ x.op \in {"read", "page"}
  /\ LET delta == IF x.op = "page" THEN x.cursor.delta ELSE x.delta
     IN fullFallback' = (fullFallback \/ (delta /\ Lands(x)))
  /\ calls' = calls \ {x}
  /\ UNCHANGED <<campaign, contextNo, known, transcript, early>>

-----------------------------------------------------------------------------
(* reset: an event of RESET_EVENTS, connect, an oversized or unreadable answer. *)
(* After a compaction the narrator no longer has what it was told.              *)

ResetSession ==
  /\ contextNo < MaxResets
  /\ contextNo' = contextNo + 1
  /\ known' = [p \in Projections |-> NothingKnown]
  /\ fullFallback' = FALSE
  /\ transcript' = {}
  /\ UNCHANGED <<campaign, calls, early>>

-----------------------------------------------------------------------------
BaselineInit ==
  /\ campaign = 1 /\ contextNo = 0 /\ fullFallback = FALSE
  /\ known = [p \in Projections |-> NothingKnown]
  /\ calls = {}
  /\ transcript = {} /\ early = FALSE

BaselineNext ==
  \/ CampaignMoves \/ ResetSession
  \/ StartBareWrite
  \/ \E p \in Projections :
       \/ StartPage(p)
       \/ \E base \in 0 .. MaxRevision, delta \in BOOLEAN :
            StartReading(p, base, delta) \/ StartWrite(p, base, delta)
  \/ \E x \in calls :
       \/ Serve(x) \/ ReadAnswered(x) \/ PageAnswered(x)
       \/ WriteAnswered(x) \/ WriteFails(x) \/ ReadFailedForGood(x)

BaselineSpec == BaselineInit /\ [][BaselineNext]_baselineVars

\* The cache keeps values of their types.
BaselineTypeOK ==
  LET Cursors == [rev : Nat, base : Nat, delta : BOOLEAN]
  IN /\ campaign \in Nat /\ contextNo \in Nat /\ fullFallback \in BOOLEAN /\ early \in BOOLEAN
     /\ known \in [Projections -> [revision : Nat, restore : BOOLEAN, page : Cursors]]
     /\ transcript \subseteq Nat
     /\ \A x \in calls : x.stage \in {"sent", "served"} /\ x.proj \in Projections

\* A difference is only ever asked for on top of what the narrator was told: the
\* acknowledged revision can be reconstructed from the transcript, through the
\* answers of concurrent reads and writes, pages, resets and revisions the narrator
\* names itself.  And no write is sent while pages are left, whether a read or the
\* state after another write opened them.
BaselineProven ==
  /\ \A p \in Projections : known[p].revision # 0 => known[p].revision \in transcript
  /\ ~early
=============================================================================
