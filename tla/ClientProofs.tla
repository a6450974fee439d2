---------------------------- MODULE ClientProofs ----------------------------
(***************************************************************************)
(* Proofs about the plugins and the web client, for every set of sessions, *)
(* servers, steps, campaigns and chats and for every bound.  Each part is  *)
(* about one component and stands alone: type correctness, the inductive   *)
(* strengthening, and the property the component's run checks.             *)
(***************************************************************************)
EXTENDS RequestGate, TurnContext, FallbackBodies, GoalLoop, PromptQueue, DndTables,
        McpRecovery, PanelRefresh, SequenceTheorems, FiniteSetTheorems, TLAPS

-----------------------------------------------------------------------------
(* The context envelope of a turn (TurnContext).  A step waits for the key *)
(* of a real turn, so that only an absent envelope has the key 0.          *)

CtxIInv ==
  /\ ctxTurn \in CtxKeys
  /\ ctxAnswer \in Seq({"open", "failed", "ok"})
  /\ ctxEnvelope \in [key : 0 .. CtxTurns, text : 0 .. Len(ctxAnswer)]
  /\ ctxEnvelope.key = 0 => ctxEnvelope.text = 0
  /\ ctxFlight \in [key : 0 .. CtxTurns, call : 0 .. Len(ctxAnswer)]
  /\ ctxFlight.key # 0 => ctxFlight.call # 0
  /\ ctxBackoff \in BOOLEAN
  /\ ctxStep \in [CtxSteps -> [stage : {"idle", "waiting", "done"}, key : 0 .. CtxTurns,
                               call : 0 .. Len(ctxAnswer)]]
  /\ \A i \in CtxSteps : ctxStep[i].stage = "waiting" =>
       ctxStep[i].key # 0 /\ ctxStep[i].call # 0

LEMMA CtxInitOK == CtxInit => CtxIInv
<1> SUFFICES ASSUME CtxInit PROVE CtxIInv
  OBVIOUS
<1>1. ctxAnswer \in Seq({"open", "failed", "ok"}) /\ Len(ctxAnswer) = 0
  BY EmptySeq DEF CtxInit
<1>2. /\ ctxEnvelope \in [key : 0 .. CtxTurns, text : 0 .. Len(ctxAnswer)]
      /\ ctxFlight \in [key : 0 .. CtxTurns, call : 0 .. Len(ctxAnswer)]
  BY <1>1, CtxAssumption DEF CtxInit, NoEnvelope, NoFlight
<1>3. ctxStep \in [CtxSteps -> [stage : {"idle", "waiting", "done"}, key : 0 .. CtxTurns,
                                call : 0 .. Len(ctxAnswer)]]
  BY <1>1, CtxAssumption DEF CtxInit
<1>4. ctxTurn \in CtxKeys
  BY CtxAssumption DEF CtxInit, CtxKeys
<1> QED BY <1>1, <1>2, <1>3, <1>4 DEF CtxInit, CtxIInv, NoEnvelope, NoFlight

\* A hook begins: only the step that had to ask changes the flight.
LEMMA CtxBeginOK ==
  ASSUME CtxIInv, NEW i \in CtxSteps, CtxBegin(i)
  PROVE  CtxIInv'
<1>1. CASE ctxEnvelope.key = ctxTurn \/ ctxBackoff
  <2>0. PICK step \in [stage : {"done"}, key : {ctxTurn}, call : {0}] :
          /\ ctxStep' = [ctxStep EXCEPT ![i] = step]
          /\ UNCHANGED <<ctxFlight, ctxAnswer, ctxTurn, ctxBackoff>>
    BY <1>1 DEF CtxBegin, CtxUse, Freeze
  <2>1. /\ ctxEnvelope' \in [key : 0 .. CtxTurns, text : 0 .. Len(ctxAnswer)]
        /\ ctxEnvelope'.key = 0 => ctxEnvelope'.text = 0
    BY <1>1, CtxAssumption, LenProperties
       DEF CtxIInv, CtxBegin, CtxUse, Freeze, CtxKeys
  <2>2. /\ ctxStep' \in [CtxSteps -> [stage : {"idle", "waiting", "done"},
                                      key : 0 .. CtxTurns, call : 0 .. Len(ctxAnswer)]]
        /\ \A j \in CtxSteps : ctxStep'[j].stage = "waiting" =>
             ctxStep'[j].key # 0 /\ ctxStep'[j].call # 0
    BY <2>0, CtxAssumption, LenProperties DEF CtxIInv, CtxKeys
  <2> QED BY <2>0, <2>1, <2>2 DEF CtxIInv
<1>2. CASE /\ ctxEnvelope.key # ctxTurn /\ ~ctxBackoff
           /\ UNCHANGED <<ctxEnvelope, ctxTurn, ctxBackoff>>
           /\ ctxFlight.key = ctxTurn
           /\ ctxAnswer' = ctxAnswer
           /\ ctxFlight' = [key |-> ctxTurn, call |-> ctxFlight.call]
           /\ ctxStep' = [ctxStep EXCEPT ![i] = [stage |-> "waiting", key |-> ctxTurn,
                                                 call |-> ctxFlight.call]]
  BY <1>2, CtxAssumption DEF CtxIInv, CtxKeys
<1>3. CASE /\ ctxEnvelope.key # ctxTurn /\ ~ctxBackoff
           /\ UNCHANGED <<ctxEnvelope, ctxTurn, ctxBackoff>>
           /\ ctxAnswer' = Append(ctxAnswer, "open")
           /\ ctxFlight' = [key |-> ctxTurn, call |-> Len(ctxAnswer) + 1]
           /\ ctxStep' = [ctxStep EXCEPT ![i] = [stage |-> "waiting", key |-> ctxTurn,
                                                 call |-> Len(ctxAnswer) + 1]]
  <2>1. /\ ctxAnswer' \in Seq({"open", "failed", "ok"})
        /\ Len(ctxAnswer') = Len(ctxAnswer) + 1 /\ Len(ctxAnswer) \in Nat
    BY <1>3, AppendProperties, LenProperties DEF CtxIInv
  <2>2. ctxStep' \in [CtxSteps -> [stage : {"idle", "waiting", "done"},
                                   key : 0 .. CtxTurns, call : 0 .. Len(ctxAnswer')]]
    BY <1>3, <2>1, CtxAssumption DEF CtxIInv, CtxKeys
  <2>3. \A j \in CtxSteps : ctxStep'[j].stage = "waiting" =>
          ctxStep'[j].key # 0 /\ ctxStep'[j].call # 0
    BY <1>3, <2>1, CtxAssumption DEF CtxIInv, CtxKeys
  <2> QED BY <1>3, <2>1, <2>2, <2>3, CtxAssumption DEF CtxIInv, CtxKeys
<1> QED BY <1>1, <1>2, <1>3 DEF CtxBegin

LEMMA CtxResumeOK ==
  ASSUME CtxIInv, NEW i \in CtxSteps, CtxResume(i)
  PROVE  CtxIInv'
<1>1. /\ ctxEnvelope' \in [key : 0 .. CtxTurns, text : 0 .. Len(ctxAnswer)]
      /\ ctxEnvelope'.key = 0 => ctxEnvelope'.text = 0
  BY CtxAssumption, LenProperties DEF CtxIInv, CtxResume, CtxUse, Freeze
<1>2. ctxStep' = [ctxStep EXCEPT ![i] = [stage |-> "done", key |-> ctxStep[i].key,
                                         call |-> 0]]
  BY DEF CtxResume, CtxUse, Freeze
<1>3. /\ ctxStep' \in [CtxSteps -> [stage : {"idle", "waiting", "done"},
                                    key : 0 .. CtxTurns, call : 0 .. Len(ctxAnswer)]]
      /\ \A j \in CtxSteps : ctxStep'[j].stage = "waiting" =>
           ctxStep'[j].key # 0 /\ ctxStep'[j].call # 0
  BY <1>2, CtxAssumption, LenProperties DEF CtxIInv
<1> QED BY <1>1, <1>3 DEF CtxIInv, CtxResume

LEMMA CtxAnsweredOK ==
  ASSUME CtxIInv, NEW c \in CtxCalls, CtxAnswered(c)
  PROVE  CtxIInv'
<1>1. PICK outcome \in {"ok", "failed"} :
        /\ ctxAnswer' = [ctxAnswer EXCEPT ![c] = outcome]
        /\ ctxBackoff' = (outcome = "failed")
  BY DEF CtxAnswered
<1>2. /\ ctxAnswer' \in Seq({"open", "failed", "ok"})
      /\ Len(ctxAnswer') = Len(ctxAnswer)
  BY <1>1, ExceptSeq DEF CtxIInv, CtxCalls
<1>3. ctxFlight' \in {ctxFlight, NoFlight} /\ UNCHANGED <<ctxTurn, ctxEnvelope, ctxStep>>
  BY DEF CtxAnswered
<1> QED BY <1>1, <1>2, <1>3, CtxAssumption, LenProperties DEF CtxIInv, NoFlight

LEMMA CtxStepOK == CtxIInv /\ [CtxNext]_ctxVars => CtxIInv'
<1> SUFFICES ASSUME CtxIInv, [CtxNext]_ctxVars PROVE CtxIInv'
  OBVIOUS
<1>1. CASE CtxNewTurn
  BY <1>1, CtxAssumption DEF CtxIInv, CtxNewTurn, CtxKeys
<1>2. CASE CtxBackoffEnds
  BY <1>2 DEF CtxIInv, CtxBackoffEnds
<1>3. CASE CtxPolicyOff
  BY <1>3, CtxAssumption, LenProperties DEF CtxIInv, CtxPolicyOff, NoEnvelope
<1>4. CASE UNCHANGED ctxVars
  BY <1>4 DEF CtxIInv, ctxVars
<1> QED BY <1>1, <1>2, <1>3, <1>4, CtxBeginOK, CtxResumeOK, CtxAnsweredOK DEF CtxNext

\* The context plugin's maps hold values of their types, whatever the number of
\* turns and of concurrent steps.
THEOREM ContextTypes == CtxSpec => []CtxTypeOK
<1>1. CtxIInv => CtxTypeOK
  <2> SUFFICES ASSUME CtxIInv PROVE CtxTypeOK
    OBVIOUS
  <2>1. \A c \in CtxCalls : ctxAnswer[c] \in {"open", "failed", "ok"}
    BY ElementOfSeq, LenProperties DEF CtxIInv, CtxCalls
  <2>2. \A i \in CtxSteps : ctxStep[i].stage = "waiting" => ctxStep[i].call \in CtxCalls
    BY LenProperties DEF CtxIInv, CtxCalls
  <2> QED BY <2>1, <2>2 DEF CtxIInv, CtxTypeOK
<1> QED BY <1>1, CtxInitOK, CtxStepOK, PTL DEF CtxSpec

\* A turn's frozen envelope keeps its text for as long as the envelope is that
\* turn's: no late step and no late answer of refreshManagedContext replaces it.
THEOREM ContextStaysFrozen == CtxSpec => FrozenWhileKept
<1> DEFINE Kept1 == ctxEnvelope'.key = ctxEnvelope.key => ctxEnvelope'.text = ctxEnvelope.text
<1>1. CtxIInv /\ [CtxNext]_ctxVars => [Kept1]_ctxVars
  <2> SUFFICES ASSUME CtxIInv, CtxNext PROVE Kept1
    OBVIOUS
  <2>1. ASSUME NEW i \in CtxSteps, CtxBegin(i) PROVE Kept1
    BY <2>1 DEF CtxBegin, CtxUse, Freeze
  <2>2. ASSUME NEW i \in CtxSteps, CtxResume(i) PROVE Kept1
    BY <2>2 DEF CtxResume, CtxUse, Freeze
  <2>3. CASE CtxPolicyOff
    BY <2>3 DEF CtxPolicyOff, NoEnvelope, CtxIInv
  <2>4. CASE UNCHANGED ctxEnvelope
    BY <2>4
  <2> QED BY <2>1, <2>2, <2>3, <2>4 DEF CtxNext, CtxAnswered, CtxNewTurn, CtxBackoffEnds
<1> QED BY <1>1, CtxInitOK, CtxStepOK, PTL DEF CtxSpec, FrozenWhileKept

-----------------------------------------------------------------------------
(* Whose table it is (DndTables).  Types and the property together are     *)
(* inductive: every action that gives a campaign to a session stops the    *)
(* waits of the others there in the same step, or passes by a wake under   *)
(* way, and the re-arm that ends later looks at the owner again.           *)

\* A table with a cursor is a table of some campaign.
CursorHasCampaign == \A s \in Narrators : tables[s].cursor => tables[s].campaign # NoCampaign

WaitEntries == [campaign : Campaigns \cup {NoCampaign}, auto : BOOLEAN, waking : BOOLEAN,
                passed : BOOLEAN]

TablesIInv == DndTablesTypeOK /\ OneNarrator /\ CursorHasCampaign

LEMMA TableFacts ==
  /\ NoTable \in TableRecords /\ ~NoTable.cursor
  /\ Idle \in WaitEntries
  /\ \A c \in Campaigns : Idle.campaign # c
  /\ \A c \in Campaigns, auto \in BOOLEAN :
       WaitFor(c, auto) \in WaitEntries /\ WaitFor(c, auto).campaign = c
BY DndTablesAssumption DEF NoTable, Idle, TableRecords, WaitEntries, WaitFor

\* A claim stops the waits of the others, or passes a wake of theirs by.
LEMMA ClaimedFacts ==
  ASSUME TablesIInv, NEW s \in Narrators, NEW c \in Campaigns
  PROVE  /\ ClaimedWaits(c, s) \in [Narrators -> WaitEntries]
         /\ ClaimedWaits(c, s)[s] = waits[s]
         /\ \A t \in Narrators \ {s} :
              LET w == ClaimedWaits(c, s)[t] IN
                /\ w \in {waits[t], Idle} \/ w = [waits[t] EXCEPT !.passed = TRUE]
                /\ w.campaign # c \/ w.passed
<1>1. \A t \in Narrators : waits[t] \in WaitEntries
  BY DEF TablesIInv, DndTablesTypeOK, WaitEntries
<1>2. ASSUME NEW w \in WaitEntries
      PROVE  /\ [w EXCEPT !.passed = TRUE] \in WaitEntries
             /\ [w EXCEPT !.passed = TRUE].passed
  BY DEF WaitEntries
<1> QED BY <1>1, <1>2, TableFacts DEF ClaimedWaits

\* A step that gives nobody a campaign and starts no wait.
LEMMA NoNewClaim ==
  ASSUME OneNarrator,
         \A c \in Campaigns : owners'[c] \in {owners[c], NoNarrator},
         \A s \in Narrators :
           \/ waits'[s] \in {waits[s], Idle}
           \/ waits'[s].campaign = waits[s].campaign /\ waits'[s].passed = waits[s].passed
  PROVE  OneNarrator'
BY TableFacts DEF OneNarrator

\* A step after which s owns c, and nobody else waits there.
LEMMA NewClaim ==
  ASSUME OneNarrator, NEW s \in Narrators, NEW c \in Campaigns,
         \A d \in Campaigns \ {c} : owners'[d] \in {owners[d], NoNarrator},
         owners'[c] = s,
         \A t \in Narrators : waits[t] \in WaitEntries,
         \A t \in Narrators \ {s} :
           /\ waits'[t] \in {waits[t], Idle} \/ waits'[t] = [waits[t] EXCEPT !.passed = TRUE]
           /\ waits'[t].campaign # c \/ waits'[t].passed,
         waits'[s] \in {waits[s], Idle} \/ waits'[s].campaign = c
  PROVE  OneNarrator'
<1>1. \A w \in WaitEntries : [w EXCEPT !.passed = TRUE].passed
  BY DEF WaitEntries
<1> SUFFICES ASSUME NEW d \in Campaigns, owners'[d] # NoNarrator,
                    NEW t \in Narrators \ {owners'[d]}, waits'[t].campaign = d
             PROVE  waits'[t].passed
  BY DEF OneNarrator
<1>2. CASE d = c
  BY <1>2
<1>3. CASE d # c
  <2>1. owners[d] # NoNarrator /\ t # owners[d]
    BY <1>3
  <2>2. waits'[t] \in {waits[t], Idle} \/ waits'[t] = [waits[t] EXCEPT !.passed = TRUE]
    BY <1>3
  <2>3. waits[t].campaign = d => waits[t].passed
    BY <2>1 DEF OneNarrator
  <2>4. CASE waits'[t] = waits[t]
    BY <2>3, <2>4
  <2>5. CASE waits'[t] = Idle
    BY <2>5, TableFacts
  <2>6. CASE waits'[t] = [waits[t] EXCEPT !.passed = TRUE]
    BY <1>1, <2>6
  <2> QED BY <2>2, <2>4, <2>5, <2>6
<1> QED BY <1>2, <1>3

LEMMA TablesInitOK == DndTablesInit => TablesIInv
<1> SUFFICES ASSUME DndTablesInit PROVE TablesIInv
  OBVIOUS
<1>1. DndTablesTypeOK
  BY TableFacts DEF DndTablesInit, DndTablesTypeOK, WaitEntries
<1> QED BY <1>1, TableFacts DEF DndTablesInit, TablesIInv, OneNarrator, CursorHasCampaign

LEMMA CalledTableOK ==
  ASSUME TablesIInv, NEW s \in Narrators, NEW c \in Campaigns, NEW drained \in BOOLEAN,
         tables' = [tables EXCEPT ![s] = CalledTable(s, c, drained)]
  PROVE  tables' \in [Narrators -> TableRecords] /\ CursorHasCampaign'
<1>1. CalledTable(s, c, drained) \in TableRecords
  BY DEF TablesIInv, DndTablesTypeOK, CalledTable, TableRecords
<1>2. CalledTable(s, c, drained).campaign # NoCampaign
  BY DndTablesAssumption DEF CalledTable
<1> QED BY <1>1, <1>2 DEF TablesIInv, DndTablesTypeOK, CursorHasCampaign

LEMMA NarratorCallsOK ==
  ASSUME TablesIInv, NEW s \in Narrators, NEW c \in Campaigns,
         NEW operation \in {"connect", "read", "other"}, NarratorCalls(s, c, operation)
  PROVE  TablesIInv'
<1>1. tables' \in [Narrators -> TableRecords] /\ CursorHasCampaign'
  <2>1. PICK drained \in BOOLEAN : drained = (operation = "read")
    OBVIOUS
  <2> QED BY <2>1, CalledTableOK DEF NarratorCalls
<1>2. arms' \in [Narrators -> SUBSET Campaigns]
  BY DEF TablesIInv, DndTablesTypeOK, NarratorCalls, ArmedFor
<1>3. takeOvers' \subseteq Narrators \X Campaigns
  BY DEF TablesIInv, DndTablesTypeOK, NarratorCalls
<1> QED BY <1>1, <1>2, <1>3
           DEF TablesIInv, DndTablesTypeOK, NarratorCalls, OneNarrator

LEMMA TakesOverOK ==
  ASSUME TablesIInv, NEW s \in Narrators, NEW c \in Campaigns, TakesOver(s, c)
  PROVE  TablesIInv'
<1>1. takeOvers' \subseteq Narrators \X Campaigns
  BY DEF TablesIInv, DndTablesTypeOK, TakesOver
<1>2. CASE UNCHANGED <<tables, waits, owners, arms>>
  BY <1>1, <1>2 DEF TablesIInv, DndTablesTypeOK, OneNarrator, CursorHasCampaign
<1>3. CASE ~UNCHANGED <<tables, waits, owners, arms>>
  <2> DEFINE evicted == {t \in Narrators \ {s} : tables[t].campaign = c}
  <2>1. /\ tables' = [t \in Narrators |-> IF t \in evicted THEN NoTable ELSE tables[t]]
        /\ waits' = [t \in Narrators |->
                       IF t \in evicted THEN Idle ELSE ClaimedWaits(c, s)[t]]
        /\ owners' = [Without(evicted) EXCEPT ![c] = s]
        /\ arms' = arms
    BY <1>3 DEF TakesOver
  <2>2. /\ waits'[s] = waits[s]
        /\ \A t \in Narrators \ {s} :
             /\ waits'[t] \in {waits[t], Idle} \/ waits'[t] = [waits[t] EXCEPT !.passed = TRUE]
             /\ waits'[t].campaign # c \/ waits'[t].passed
    BY <2>1, TableFacts, ClaimedFacts
  <2>3. \A t \in Narrators : waits[t] \in WaitEntries
    BY DEF TablesIInv, DndTablesTypeOK, WaitEntries
  <2>4. owners' \in [Campaigns -> Narrators \cup {NoNarrator}]
    BY <2>1 DEF TablesIInv, DndTablesTypeOK, Without
  <2>5. /\ owners'[c] = s
        /\ \A d \in Campaigns \ {c} : owners'[d] \in {owners[d], NoNarrator}
    BY <2>1 DEF Without
  <2>6. OneNarrator'
    BY <2>2, <2>3, <2>5, NewClaim DEF TablesIInv
  <2>7. tables' \in [Narrators -> TableRecords] /\ CursorHasCampaign'
    BY <2>1, TableFacts DEF TablesIInv, DndTablesTypeOK, CursorHasCampaign
  <2>8. waits' \in [Narrators -> WaitEntries]
    BY <2>1, TableFacts, ClaimedFacts
  <2> QED BY <1>1, <2>1, <2>4, <2>6, <2>7, <2>8 DEF TablesIInv, DndTablesTypeOK, WaitEntries
<1> QED BY <1>2, <1>3

LEMMA ToolStartsOK ==
  ASSUME TablesIInv, NEW s \in Narrators, NEW c \in Campaigns, ToolStarts(s, c)
  PROVE  TablesIInv'
<1>1. /\ owners' = [owners EXCEPT ![c] = s]
      /\ waits' = [ClaimedWaits(c, s) EXCEPT ![s] = WaitFor(c, FALSE)]
      /\ takeOvers' = takeOvers
  BY DEF ToolStarts, Claim
<1>2. \A t \in Narrators \ {s} :
        /\ waits'[t] \in {waits[t], Idle} \/ waits'[t] = [waits[t] EXCEPT !.passed = TRUE]
        /\ waits'[t].campaign # c \/ waits'[t].passed
  BY <1>1, ClaimedFacts
<1>3. /\ waits'[s].campaign = c
      /\ \A t \in Narrators : waits[t] \in WaitEntries
  <2>1. waits'[s] = WaitFor(c, FALSE)
    BY <1>1, ClaimedFacts
  <2>2. \A t \in Narrators : waits[t] \in WaitEntries
    BY DEF TablesIInv, DndTablesTypeOK, WaitEntries
  <2> QED BY <2>1, <2>2, TableFacts
<1>4. /\ owners'[c] = s
      /\ \A d \in Campaigns \ {c} : owners'[d] \in {owners[d], NoNarrator}
      /\ owners' \in [Campaigns -> Narrators \cup {NoNarrator}]
  BY <1>1 DEF TablesIInv, DndTablesTypeOK
<1>5. OneNarrator'
  BY <1>2, <1>3, <1>4, NewClaim DEF TablesIInv
<1>6. waits' \in [Narrators -> WaitEntries]
  BY <1>1, TableFacts, ClaimedFacts
<1>7. tables' \in [Narrators -> TableRecords] /\ CursorHasCampaign'
  BY CalledTableOK DEF ToolStarts
<1>8. arms' \in [Narrators -> SUBSET Campaigns]
  BY DEF TablesIInv, DndTablesTypeOK, ToolStarts, ArmedFor
<1> QED BY <1>1, <1>4, <1>5, <1>6, <1>7, <1>8 DEF TablesIInv, DndTablesTypeOK, WaitEntries

\* A re-arm that was under way when the campaign was taken starts no wait.
LEMMA WaitArmedOK ==
  ASSUME TablesIInv, NEW s \in Narrators, NEW c \in Campaigns, WaitArmed(s, c)
  PROVE  TablesIInv'
<1>1. arms' \in [Narrators -> SUBSET Campaigns]
  BY DEF TablesIInv, DndTablesTypeOK, WaitArmed
<1>2. waits' \in [Narrators -> WaitEntries]
  BY TableFacts DEF TablesIInv, DndTablesTypeOK, WaitArmed, WaitEntries
<1>3. OneNarrator'
  <2>1. /\ owners' = owners
        /\ \A t \in Narrators \ {s} : waits'[t] = waits[t]
        /\ \/ waits'[s] = waits[s]
           \/ waits'[s] = WaitFor(c, TRUE) /\ owners[c] \in {s, NoNarrator}
    BY DEF TablesIInv, DndTablesTypeOK, WaitArmed, MayStart
  <2>2. ASSUME NEW d \in Campaigns, owners[d] # NoNarrator, NEW t \in Narrators \ {owners[d]},
               waits'[t].campaign = d
        PROVE  waits'[t].passed
    <3>0. WaitFor(c, TRUE).campaign = c
      BY TableFacts
    <3>1. waits'[t] = waits[t]
      <4>1. CASE t # s
        BY <2>1, <4>1
      <4>2. CASE t = s
        BY <2>1, <2>2, <3>0, <4>2
      <4> QED BY <4>1, <4>2
    <3>2. OneNarrator /\ waits[t].campaign = d
      BY <2>2, <3>1 DEF TablesIInv
    <3>3. waits[t].passed
      BY <2>2, <3>2 DEF OneNarrator
    <3> QED BY <3>1, <3>3
  <2> QED BY <2>1, <2>2 DEF OneNarrator
<1> QED BY <1>1, <1>2, <1>3
           DEF TablesIInv, DndTablesTypeOK, CursorHasCampaign, WaitArmed, WaitEntries

\* Turning the watch of one session on or off keeps the tables' types.
LEMMA AutoChanges ==
  ASSUME TablesIInv, NEW s \in Narrators, NEW on \in BOOLEAN,
         tables' = [tables EXCEPT ![s].auto = on]
  PROVE  tables' \in [Narrators -> TableRecords] /\ CursorHasCampaign'
<1>1. [tables[s] EXCEPT !.auto = on] \in TableRecords
  BY ZenonT(40) DEF TablesIInv, DndTablesTypeOK, TableRecords
<1>2. tables' \in [Narrators -> TableRecords]
  BY <1>1 DEF TablesIInv, DndTablesTypeOK
<1>3. \A t \in Narrators : /\ tables'[t].cursor = tables[t].cursor
                          /\ tables'[t].campaign = tables[t].campaign
  BY DEF TablesIInv, DndTablesTypeOK, TableRecords
<1> QED BY <1>2, <1>3 DEF TablesIInv, CursorHasCampaign

LEMMA OperatorTakesOK ==
  ASSUME TablesIInv, NEW s \in Narrators, OperatorTakes(s)
  PROVE  TablesIInv'
<1>1. tables' \in [Narrators -> TableRecords] /\ CursorHasCampaign'
  BY AutoChanges DEF OperatorTakes
<1>2. CASE tables[s].campaign = NoCampaign
  BY <1>1, <1>2 DEF TablesIInv, DndTablesTypeOK, OperatorTakes, OneNarrator
<1>3. CASE tables[s].campaign # NoCampaign
  <2> DEFINE c == tables[s].campaign
  <2>1. c \in Campaigns
    BY <1>3 DEF TablesIInv, DndTablesTypeOK, TableRecords
  <2>2. /\ owners' = [owners EXCEPT ![c] = s] /\ waits' = ClaimedWaits(c, s)
        /\ takeOvers' = takeOvers
    BY <1>3 DEF OperatorTakes, Claim
  <2>3. /\ waits'[s] = waits[s]
        /\ \A t \in Narrators \ {s} :
             /\ waits'[t] \in {waits[t], Idle} \/ waits'[t] = [waits[t] EXCEPT !.passed = TRUE]
             /\ waits'[t].campaign # c \/ waits'[t].passed
        /\ waits' \in [Narrators -> WaitEntries]
    <3> HIDE DEF c
    <3>1. /\ ClaimedWaits(c, s) \in [Narrators -> WaitEntries]
          /\ ClaimedWaits(c, s)[s] = waits[s]
      BY <2>1, ClaimedFacts
    <3>2. \A t \in Narrators \ {s} :
            LET w == ClaimedWaits(c, s)[t] IN
              /\ w \in {waits[t], Idle} \/ w = [waits[t] EXCEPT !.passed = TRUE]
              /\ w.campaign # c \/ w.passed
      BY <2>1, ClaimedFacts
    <3> QED BY <2>2, <3>1, <3>2
  <2>9. \A t \in Narrators : waits[t] \in WaitEntries
    BY DEF TablesIInv, DndTablesTypeOK, WaitEntries
  <2>4. /\ owners'[c] = s
        /\ \A d \in Campaigns \ {c} : owners'[d] \in {owners[d], NoNarrator}
        /\ owners' \in [Campaigns -> Narrators \cup {NoNarrator}]
    BY <2>1, <2>2 DEF TablesIInv, DndTablesTypeOK
  <2>5. OneNarrator'
    <3> HIDE DEF c
    <3> QED BY <2>1, <2>3, <2>4, <2>9, NewClaim DEF TablesIInv
  <2>7. arms' \in [Narrators -> SUBSET Campaigns]
    <3>1. arms' \in {arms, [arms EXCEPT ![s] = @ \cup {c}]}
      BY <1>3 DEF OperatorTakes
    <3> HIDE DEF c
    <3> QED BY <2>1, <3>1 DEF TablesIInv, DndTablesTypeOK
  <2> QED BY <1>1, <2>2, <2>3, <2>4, <2>5, <2>7 DEF TablesIInv, DndTablesTypeOK, WaitEntries
<1> QED BY <1>2, <1>3

\* The steps of one session that only end waits or begin a re-arm.
LEMMA SessionStepOK ==
  ASSUME TablesIInv, NEW s \in Narrators,
         \/ \E failed \in BOOLEAN : WaitStops(s, failed)
         \/ AgentSelected(s) \/ WaitFires(s) \/ WakeAnswers(s) \/ OperatorStops(s) \/ SessionIdle(s)
         \/ NarratorDeleted(s) \/ \E c \in Campaigns : ArmRefused(s, c)
  PROVE  TablesIInv'
<1>0. \/ UNCHANGED tables
      \/ tables' = [tables EXCEPT ![s].context = FALSE]
      \/ tables' = [tables EXCEPT ![s].auto = FALSE]
      \/ tables' = [tables EXCEPT ![s] = NoTable]
  BY DEF WaitStops, AgentSelected, WaitFires, WakeAnswers, OperatorStops, SessionIdle, NarratorDeleted,
         ArmRefused
<1>1. tables' \in [Narrators -> TableRecords] /\ CursorHasCampaign'
  <2>1. CASE UNCHANGED tables
    BY <2>1 DEF TablesIInv, DndTablesTypeOK, CursorHasCampaign
  <2>2. CASE tables' = [tables EXCEPT ![s].context = FALSE]
    <3>1. [tables[s] EXCEPT !.context = FALSE] \in TableRecords
      BY ZenonT(40) DEF TablesIInv, DndTablesTypeOK, TableRecords
    <3>2. \A t \in Narrators : /\ tables'[t].cursor = tables[t].cursor
                              /\ tables'[t].campaign = tables[t].campaign
      BY <2>2 DEF TablesIInv, DndTablesTypeOK, TableRecords
    <3> QED BY <2>2, <3>1, <3>2 DEF TablesIInv, DndTablesTypeOK, CursorHasCampaign
  <2>3. CASE tables' = [tables EXCEPT ![s].auto = FALSE]
    BY <2>3, AutoChanges
  <2>4. CASE tables' = [tables EXCEPT ![s] = NoTable]
    BY <2>4, TableFacts DEF TablesIInv, DndTablesTypeOK, CursorHasCampaign
  <2> QED BY <1>0, <2>1, <2>2, <2>3, <2>4
<1>6. waits' \in [Narrators -> WaitEntries] /\ takeOvers' = takeOvers
  <2>1. /\ \/ waits' \in {waits, [waits EXCEPT ![s] = Idle]}
           \/ \E waking \in BOOLEAN : waits' = [waits EXCEPT ![s].waking = waking]
        /\ takeOvers' = takeOvers
    BY DEF WaitStops, AgentSelected, WaitFires, WakeAnswers, OperatorStops, SessionIdle, NarratorDeleted,
           ArmRefused
  <2>2. \A waking \in BOOLEAN : [waits[s] EXCEPT !.waking = waking] \in WaitEntries
    BY ZenonT(40) DEF TablesIInv, DndTablesTypeOK, WaitEntries
  <2>3. waits \in [Narrators -> WaitEntries]
    BY DEF TablesIInv, DndTablesTypeOK, WaitEntries
  <2> QED BY <2>1, <2>2, <2>3, TableFacts
<1>2. arms' \in [Narrators -> SUBSET Campaigns]
  <2>1. tables[s].cursor => tables[s].campaign \in Campaigns
    BY DEF TablesIInv, DndTablesTypeOK, CursorHasCampaign, TableRecords
  <2>2. \/ UNCHANGED arms
        \/ tables[s].cursor /\ arms' = [arms EXCEPT ![s] = @ \cup {tables[s].campaign}]
        \/ \E c \in Campaigns : arms' = [arms EXCEPT ![s] = @ \ {c}]
    BY DEF WaitStops, AgentSelected, WaitFires, WakeAnswers, OperatorStops, SessionIdle,
           NarratorDeleted, ArmRefused, ArmBegins, MayArm
  <2> QED BY <2>1, <2>2 DEF TablesIInv, DndTablesTypeOK
<1>3. /\ owners' \in [Campaigns -> Narrators \cup {NoNarrator}]
      /\ \A c \in Campaigns : owners'[c] \in {owners[c], NoNarrator}
  BY DEF TablesIInv, DndTablesTypeOK, WaitStops, AgentSelected, WaitFires, WakeAnswers, OperatorStops,
         SessionIdle, NarratorDeleted, ArmRefused, Without
<1>4. \A t \in Narrators :
        \/ waits'[t] \in {waits[t], Idle}
        \/ waits'[t].campaign = waits[t].campaign /\ waits'[t].passed = waits[t].passed
  BY DEF TablesIInv, DndTablesTypeOK, WaitStops, AgentSelected, WaitFires, WakeAnswers, OperatorStops,
         SessionIdle, NarratorDeleted, ArmRefused
<1>5. OneNarrator'
  BY <1>3, <1>4, NoNewClaim DEF TablesIInv
<1> QED BY <1>1, <1>2, <1>3, <1>5, <1>6 DEF TablesIInv, DndTablesTypeOK, WaitEntries

\* After a restart nobody waits yet.
LEMMA RestartOK ==
  ASSUME TablesIInv, Restart
  PROVE  TablesIInv'
<1>1. PICK last \in SUBSET Narrators : \E file \in [last -> SavedTables] : Restored(file, last)
  BY DEF Restart
<1>2. PICK file \in [last -> SavedTables] : Restored(file, last)
  BY <1>1
<1>0. \A s \in last : s \in Narrators /\ file[s] \in SavedTables
  OBVIOUS
<1>3. tables' \in [Narrators -> TableRecords] /\ CursorHasCampaign'
  <2>1. /\ SavedTables \subseteq TableRecords
        /\ \A x \in SavedTables : x.cursor => x.campaign # NoCampaign
    BY TableFacts, DndTablesAssumption DEF SavedTables, TableRecords
  <2> QED BY <1>0, <1>2, <2>1, TableFacts DEF Restored, CursorHasCampaign
<1>4. /\ waits' \in [Narrators -> WaitEntries]
      /\ \A s \in Narrators : waits'[s] = Idle
      /\ takeOvers' \subseteq Narrators \X Campaigns
  BY <1>2, TableFacts DEF Restored
<1>5. owners' \in [Campaigns -> Narrators \cup {NoNarrator}]
  BY <1>2 DEF Restored
<1>6. arms' \in [Narrators -> SUBSET Campaigns]
  <2>1. \A s \in last : file[s].campaign \in Campaigns
    BY <1>0 DEF SavedTables
  <2> QED BY <1>2, <2>1 DEF Restored
<1>7. OneNarrator'
  BY <1>4, TableFacts DEF OneNarrator
<1> QED BY <1>3, <1>4, <1>5, <1>6, <1>7 DEF TablesIInv, DndTablesTypeOK, WaitEntries

LEMMA TablesStepOK == TablesIInv /\ [DndTablesNext]_dndTablesVars => TablesIInv'
<1> SUFFICES ASSUME TablesIInv, [DndTablesNext]_dndTablesVars PROVE TablesIInv'
  OBVIOUS
<1>1. CASE UNCHANGED dndTablesVars
  BY <1>1 DEF TablesIInv, DndTablesTypeOK, OneNarrator, CursorHasCampaign, dndTablesVars
<1>2. CASE DndTablesNext
  BY <1>2, NarratorCallsOK, TakesOverOK, ToolStartsOK, WaitArmedOK, OperatorTakesOK,
     SessionStepOK, RestartOK DEF DndTablesNext
<1> QED BY <1>1, <1>2

\* The watcher's maps hold values of their types, for every set of narrators and
\* campaigns.
THEOREM TablesTypes == DndTablesSpec => []DndTablesTypeOK
<1>1. TablesIInv => DndTablesTypeOK
  BY DEF TablesIInv
<1> QED BY <1>1, TablesInitOK, TablesStepOK, PTL DEF DndTablesSpec

\* dnd-watch.js: where a session took a campaign, no other session waits there but one
\* whose wake was under way when the campaign was taken, for every set of narrators and
\* campaigns and over crashes and restarts.
THEOREM OneNarratorPerCampaign == DndTablesSpec => []OneNarrator
<1>1. TablesIInv => OneNarrator
  BY DEF TablesIInv
<1> QED BY <1>1, TablesInitOK, TablesStepOK, PTL DEF DndTablesSpec

-----------------------------------------------------------------------------
(* Reconnecting MCP servers (McpRecovery).  One scan at a time, and a      *)
(* server that the scan is to look at again has attempts left.             *)

RecoveryIInv ==
  /\ RecoveryTypeOK
  /\ scans = {} \/ \E scan \in [Servers -> {"look", "connect", "done"}] : scans = {scan}
  /\ \A scan \in scans, s \in Servers :
       scan[s] = "look" => retries[s].attempts < MaxDelays
  /\ \A s \in Servers :
       /\ connects[s] <= retries[s].attempts
       /\ retries[s].healthy # "no" => watch[s] # "no"
       /\ retries[s].healthy = "minute" => watch[s] = "minute"

RetryRecords == [attempts : 0 .. MaxDelays, kept : BOOLEAN,
                 healthy : {"no", "since", "minute"}]

LEMMA RetryFacts ==
  /\ NoRetry \in RetryRecords /\ NoRetry.attempts = 0 /\ NoRetry.healthy = "no"
  /\ MaxDelays \in Nat
BY RecoveryAssumption DEF NoRetry, RetryRecords

\* A changed field of a server's record.
LEMMA RetryUpdates ==
  ASSUME NEW r \in RetryRecords
  PROVE  /\ [r EXCEPT !.healthy = "minute"] \in RetryRecords
         /\ [r EXCEPT !.healthy = "minute"].attempts = r.attempts
         /\ [r EXCEPT !.healthy = "minute"].healthy = "minute"
         /\ \A n \in 0 .. MaxDelays : /\ [r EXCEPT !.attempts = n] \in RetryRecords
                              /\ [r EXCEPT !.attempts = n].healthy = r.healthy
BY DEF RetryRecords

\* The two histories of a server's health agree where the budget is given back.
HealthWatched(s) ==
  /\ retries[s].healthy # "no" => watch[s] # "no"
  /\ retries[s].healthy = "minute" => watch[s] = "minute"

LEMMA RecoveryInitOK == RecoveryInit => RecoveryIInv
<1> SUFFICES ASSUME RecoveryInit PROVE RecoveryIInv
  OBVIOUS
<1>1. /\ retries \in [Servers -> RetryRecords] /\ connects \in [Servers -> Nat]
      /\ watch \in [Servers -> {"no", "since", "minute"}]
  BY RetryFacts DEF RecoveryInit
<1>2. native \in [Servers -> NativeStates] /\ servedOnce \subseteq Servers
  BY DEF RecoveryInit, NativeStates
<1>3. \A s \in Servers : connects[s] <= retries[s].attempts /\ HealthWatched(s)
  BY RetryFacts DEF RecoveryInit, HealthWatched
<1> QED BY <1>1, <1>2, <1>3
        DEF RecoveryInit, RecoveryIInv, RecoveryTypeOK, RetryRecords, HealthWatched

\* The host and the clock leave attempts and connects alone.
LEMMA HostStepOK ==
  ASSUME RecoveryIInv, NEW s \in Servers,
         \/ \E state \in NativeStates : ServerBecomes(s, state)
         \/ MinutePasses(s)
  PROVE  RecoveryIInv'
<1>1. /\ native' \in [Servers -> NativeStates]
      /\ UNCHANGED <<servedOnce, scans, connects>>
  BY DEF RecoveryIInv, RecoveryTypeOK, ServerBecomes, MinutePasses
<1>2. /\ retries \in [Servers -> RetryRecords]
      /\ watch \in [Servers -> {"no", "since", "minute"}]
      /\ \A x \in Servers : HealthWatched(x)
  BY DEF RecoveryIInv, RecoveryTypeOK, RetryRecords, HealthWatched
<1>3. /\ retries' \in [Servers -> RetryRecords]
      /\ watch' \in [Servers -> {"no", "since", "minute"}]
      /\ \A x \in Servers : retries'[x].attempts = retries[x].attempts /\ HealthWatched(x)'
  <2>1. CASE UNCHANGED <<retries, watch>>
    BY <1>2, <2>1 DEF HealthWatched
  <2>2. CASE MinutePasses(s)
    <3>0. /\ retries[s] \in RetryRecords /\ watch[s] \in {"no", "since", "minute"}
          /\ HealthWatched(s)
      BY <1>2
    <3>1. PICK r \in RetryRecords :
            /\ retries' = [retries EXCEPT ![s] = r] /\ r.attempts = retries[s].attempts
            /\ \/ r.healthy = retries[s].healthy /\ r.healthy # "since"
               \/ r.healthy = "minute" /\ retries[s].healthy = "since"
      <4>1. CASE retries[s].healthy # "since"
        <5>1. retries' = [retries EXCEPT ![s] = retries[s]]
          BY <1>2, <2>2, <4>1 DEF MinutePasses
        <5> QED BY <3>0, <4>1, <5>1
      <4>2. CASE retries[s].healthy = "since"
        <5>1. retries' = [retries EXCEPT ![s] = [retries[s] EXCEPT !.healthy = "minute"]]
          BY <2>2, <4>2 DEF MinutePasses
        <5> QED BY <3>0, <4>2, <5>1, RetryUpdates
      <4> QED BY <4>1, <4>2
    <3>2. PICK w \in {"no", "since", "minute"} :
            /\ watch' = [watch EXCEPT ![s] = w]
            /\ \/ w = watch[s] /\ w # "since"
               \/ w = "minute" /\ watch[s] = "since"
      <4>1. CASE watch[s] # "since"
        <5>1. watch' = [watch EXCEPT ![s] = watch[s]]
          BY <1>2, <2>2, <4>1 DEF MinutePasses
        <5> QED BY <3>0, <4>1, <5>1
      <4>2. CASE watch[s] = "since"
        <5>1. watch' = [watch EXCEPT ![s] = "minute"]
          BY <2>2, <4>2 DEF MinutePasses
        <5> QED BY <4>2, <5>1
      <4> QED BY <4>1, <4>2
    <3>3. /\ retries' \in [Servers -> RetryRecords]
          /\ watch' \in [Servers -> {"no", "since", "minute"}]
          /\ retries'[s] = r /\ watch'[s] = w
          /\ \A x \in Servers \ {s} : retries'[x] = retries[x] /\ watch'[x] = watch[x]
      BY <1>2, <3>1, <3>2
    <3>4. HealthWatched(s)'
      BY <3>0, <3>1, <3>2, <3>3 DEF HealthWatched
    <3>5. \A x \in Servers \ {s} : HealthWatched(x)'
      BY <1>2, <3>3 DEF HealthWatched
    <3>6. \A x \in Servers : retries'[x].attempts = retries[x].attempts
      BY <3>1, <3>3
    <3> QED BY <3>3, <3>4, <3>5, <3>6
  <2> QED BY <2>1, <2>2 DEF ServerBecomes
<1> QED BY <1>1, <1>2, <1>3 DEF RecoveryIInv, RecoveryTypeOK, RetryRecords, HealthWatched

\* What a scan makes of a server: it starts over or keeps the attempts.
LEMMA ScanRowFacts ==
  ASSUME RecoveryIInv, NEW s \in Servers, NEW due \in SUBSET Servers
  PROVE  /\ ScanRow(s, due).retry \in RetryRecords
         /\ ScanRow(s, due).next \in {"look", "done"}
         /\ \/ ScanRow(s, due).retry = NoRetry /\ StartsOver(s)
            \/ ScanRow(s, due).retry.attempts = retries[s].attempts
         /\ ScanRow(s, due).next = "look" => ScanRow(s, due).retry.attempts < MaxDelays
         /\ ScanRow(s, due).retry.healthy # "no" =>
              /\ native[s] = "connected"
              /\ ScanRow(s, due).retry.healthy \in {"since", retries[s].healthy}
<1> DEFINE since == [retries[s] EXCEPT !.healthy = "since"]
           retried == [retries[s] EXCEPT !.kept = TRUE, !.healthy = "no"]
<1>1. retries[s] \in RetryRecords /\ HealthWatched(s)
  BY DEF RecoveryIInv, RecoveryTypeOK, RetryRecords, HealthWatched
<1>2. /\ since \in RetryRecords
      /\ since.attempts = retries[s].attempts /\ since.healthy = "since"
      /\ retried \in RetryRecords
      /\ retried.attempts = retries[s].attempts /\ retried.healthy = "no"
  BY <1>1 DEF RetryRecords
<1>3. /\ \/ ScanRow(s, due).retry = NoRetry /\ StartsOver(s)
         \/ ScanRow(s, due).retry \in {retries[s], since} /\ native[s] = "connected"
         \/ ScanRow(s, due).retry = retried
      /\ ScanRow(s, due).next \in {"look", "done"}
  BY <1>1 DEF ScanRow, StartsOver, HealthWatched
<1>4. ScanRow(s, due).next = "look" =>
        retries[s].attempts < MaxDelays /\ ScanRow(s, due).retry = retried
  BY DEF ScanRow
<1> HIDE DEF ScanRow, since, retried
<1> QED BY <1>1, <1>2, <1>3, <1>4, RetryFacts

LEMMA ScanStartsOK ==
  ASSUME RecoveryIInv, NEW due \in SUBSET Servers, ScanStarts(due)
  PROVE  RecoveryIInv'
<1> DEFINE scan == [s \in Servers |-> ScanRow(s, due).next]
<1>1. scan \in [Servers -> {"look", "connect", "done"}]
  BY ScanRowFacts
<1>2. scans' = {} \/ scans' = {scan}
  BY DEF ScanStarts, MayScan, OverWhenDone
<1>3. /\ retries' = [s \in Servers |-> ScanRow(s, due).retry]
      /\ connects' = [s \in Servers |-> IF StartsOver(s) THEN 0 ELSE connects[s]]
      /\ watch' = [s \in Servers |-> IF native[s] # "connected" THEN "no"
                                    ELSE IF watch[s] = "no" THEN "since" ELSE watch[s]]
      /\ native' = native /\ servedOnce' \subseteq Servers
      /\ watch \in [Servers -> {"no", "since", "minute"}]
  BY DEF ScanStarts, RecoveryIInv, RecoveryTypeOK
<1>4. retries' \in [Servers -> RetryRecords]
  BY <1>3, ScanRowFacts
<1>5. \A s \in Servers : scan[s] = "look" => retries'[s].attempts < MaxDelays
  BY <1>3, ScanRowFacts
<1>6. connects' \in [Servers -> Nat] /\ watch' \in [Servers -> {"no", "since", "minute"}]
  BY <1>3 DEF RecoveryIInv, RecoveryTypeOK
<1>7. \A s \in Servers : connects'[s] <= retries'[s].attempts
  <2> SUFFICES ASSUME NEW s \in Servers PROVE connects'[s] <= retries'[s].attempts
    OBVIOUS
  <2>1. /\ retries'[s] = ScanRow(s, due).retry /\ connects'[s] = IF StartsOver(s) THEN 0 ELSE connects[s]
        /\ connects[s] <= retries[s].attempts /\ connects[s] \in Nat
        /\ retries[s].attempts \in Nat
    BY <1>3, RecoveryAssumption DEF RecoveryIInv, RecoveryTypeOK
  <2> QED BY <2>1, ScanRowFacts, RetryFacts
<1>8. \A s \in Servers : HealthWatched(s)'
  <2> SUFFICES ASSUME NEW s \in Servers PROVE HealthWatched(s)'
    OBVIOUS
  <2>1. /\ retries'[s].healthy # "no" =>
            native[s] = "connected" /\ retries'[s].healthy \in {"since", retries[s].healthy}
        /\ HealthWatched(s)
    BY <1>3, ScanRowFacts DEF RecoveryIInv, HealthWatched
  <2>2. /\ watch'[s] = IF native[s] # "connected" THEN "no"
                       ELSE IF watch[s] = "no" THEN "since" ELSE watch[s]
        /\ watch[s] \in {"no", "since", "minute"}
    BY <1>3
  <2> QED BY <2>1, <2>2 DEF HealthWatched
<1> HIDE DEF scan
<1> QED BY <1>1, <1>2, <1>3, <1>4, <1>5, <1>6, <1>7, <1>8
        DEF RecoveryIInv, RecoveryTypeOK, RetryRecords, HealthWatched

\* A step of the scan at one server.
LEMMA ScanStepFacts ==
  ASSUME RecoveryIInv, NEW scan \in scans, NEW s \in Servers,
         NEW next \in {"connect", "done"}, ScanStep(scan, s, next)
  PROVE  \E other \in [Servers -> {"look", "connect", "done"}] :
           /\ scans' \subseteq {other}
           /\ other[s] # "look" /\ \A x \in Servers \ {s} : other[x] = scan[x]
<1>1. scan \in [Servers -> {"look", "connect", "done"}] /\ scans = {scan}
  BY DEF RecoveryIInv
<1>2. scans' \subseteq {[scan EXCEPT ![s] = next]}
  BY <1>1 DEF ScanStep, OverWhenDone
<1> DEFINE other == [scan EXCEPT ![s] = next]
<1>3. /\ other \in [Servers -> {"look", "connect", "done"}]
      /\ other[s] # "look" /\ \A x \in Servers \ {s} : other[x] = scan[x]
  BY <1>1
<1> HIDE DEF other
<1> QED BY <1>2, <1>3 DEF other

LEMMA LooksAgainOK ==
  ASSUME RecoveryIInv, NEW scan \in scans, NEW s \in Servers, LooksAgain(scan, s)
  PROVE  RecoveryIInv'
<1>1. PICK other \in [Servers -> {"look", "connect", "done"}] :
        /\ scans' \subseteq {other}
        /\ other[s] # "look" /\ \A x \in Servers \ {s} : other[x] = scan[x]
  BY ScanStepFacts DEF LooksAgain
<1>2. CASE UNCHANGED <<retries, connects>>
  BY <1>1, <1>2 DEF RecoveryIInv, RecoveryTypeOK, LooksAgain
<1>3. CASE ~UNCHANGED <<retries, connects>>
  <2>1. /\ retries' = [retries EXCEPT ![s].attempts = @ + 1]
        /\ connects' = [connects EXCEPT ![s] = @ + 1]
    BY <1>3 DEF LooksAgain
  <2>2. retries[s].attempts < MaxDelays
    BY DEF LooksAgain, RecoveryIInv
  <2>3. /\ retries'[s].attempts = retries[s].attempts + 1
        /\ \A x \in Servers \ {s} : retries'[x] = retries[x]
        /\ retries'[s].healthy = retries[s].healthy
    BY <2>1 DEF RecoveryIInv, RecoveryTypeOK
  <2>4. retries' \in [Servers -> RetryRecords]
    <3>1. retries \in [Servers -> RetryRecords] /\ retries[s].attempts + 1 \in 0 .. MaxDelays
      BY <2>2, RetryFacts DEF RecoveryIInv, RecoveryTypeOK, RetryRecords
    <3>2. retries' = [retries EXCEPT
                        ![s] = [retries[s] EXCEPT !.attempts = retries[s].attempts + 1]]
      BY <2>1
    <3> QED BY <3>1, <3>2, RetryUpdates
  <2>5. connects' \in [Servers -> Nat]
    BY <2>1 DEF RecoveryIInv, RecoveryTypeOK
  <2>6. \A x \in Servers : connects'[x] <= retries'[x].attempts
    BY <2>1, <2>3 DEF RecoveryIInv, RecoveryTypeOK
  <2>7. \A x \in Servers : other[x] = "look" => retries'[x].attempts < MaxDelays
    BY <1>1, <2>3 DEF RecoveryIInv
  <2>8. \A x \in Servers : HealthWatched(x)'
    BY <2>3 DEF HealthWatched, RecoveryIInv, LooksAgain
  <2>9. scans' = {} \/ scans' = {other}
    BY <1>1
  <2>10. RecoveryTypeOK'
    BY <1>1, <2>4, <2>5, <2>9 DEF RecoveryIInv, RecoveryTypeOK, RetryRecords, LooksAgain
  <2> QED BY <1>1, <2>6, <2>7, <2>8, <2>9, <2>10 DEF RecoveryIInv, HealthWatched
<1> QED BY <1>2, <1>3

LEMMA ConnectEndsOK ==
  ASSUME RecoveryIInv, NEW scan \in scans, NEW s \in Servers, ConnectEnds(scan, s)
  PROVE  RecoveryIInv'
<1>1. PICK other \in [Servers -> {"look", "connect", "done"}] :
        /\ scans' \subseteq {other}
        /\ other[s] # "look" /\ \A x \in Servers \ {s} : other[x] = scan[x]
  BY ScanStepFacts DEF ConnectEnds
<1>2. native' \in [Servers -> NativeStates]
      /\ UNCHANGED <<retries, servedOnce, watch, connects>>
  BY DEF RecoveryIInv, RecoveryTypeOK, ConnectEnds, NativeStates
<1> QED BY <1>1, <1>2 DEF RecoveryIInv, RecoveryTypeOK, RetryRecords

LEMMA RecoveryStepOK == RecoveryIInv /\ [RecoveryNext]_recoveryVars => RecoveryIInv'
<1> SUFFICES ASSUME RecoveryIInv, [RecoveryNext]_recoveryVars PROVE RecoveryIInv'
  OBVIOUS
<1>1. CASE UNCHANGED recoveryVars
  BY <1>1 DEF RecoveryIInv, RecoveryTypeOK, recoveryVars
<1> QED BY <1>1, HostStepOK, ScanStartsOK, LooksAgainOK, ConnectEndsOK DEF RecoveryNext

\* The maps of mcp-reconnect.js hold values of their types.
THEOREM RecoveryTypes == RecoverySpec => []RecoveryTypeOK
<1>1. RecoveryIInv => RecoveryTypeOK
  BY DEF RecoveryIInv
<1> QED BY <1>1, RecoveryInitOK, RecoveryStepOK, PTL DEF RecoverySpec

\* A server that keeps failing or flaps is connected at most DELAYS.length times until
\* every scan of a minute found it connected or one found it in a state the recovery is
\* not for, for every number of servers and of delays (mcp-reconnect.js, tick).
THEOREM ReconnectsBounded == RecoverySpec => []ReconnectBudget
<1>1. RecoveryIInv => ReconnectBudget
  BY RecoveryAssumption DEF RecoveryIInv, RecoveryTypeOK, ReconnectBudget
<1> QED BY <1>1, RecoveryInitOK, RecoveryStepOK, PTL DEF RecoverySpec

-----------------------------------------------------------------------------
(* The panel of the open chat (PanelRefresh).  What is owed to the page is *)
(* at most what the server has; a refresh of this visit that nothing will  *)
(* repeat brings it, and one of an earlier visit will be repeated.         *)

Visiting == panelRead.stage # "none" /\ OfThisVisit(panelRead)

PanelIInv ==
  /\ PanelTypeOK
  /\ panel.chat \in {atChat, NoPanelChat}
  /\ panelRead.stage # "none" => panelRead.visit <= visits
  /\ atChat = NoPanelChat => owed = 0
  /\ atChat # NoPanelChat => owed <= facts[atChat]
  /\ panelRead.stage = "none" => panel.version >= owed /\ ~replay
  /\ atChat # NoPanelChat /\ panelRead.stage # "none" /\ ~Visiting => replay
  /\ Visiting /\ panelRead.stage = "served" /\ ~replay => panelRead.version >= owed

Refreshes == [stage : {"none", "asked", "served"}, chat : PanelChats \cup {NoPanelChat},
              visit : Nat, version : Nat]

LEMMA PanelInitOK == PanelInit => PanelIInv
<1> SUFFICES ASSUME PanelInit PROVE PanelIInv
  OBVIOUS
<1>1. PanelTypeOK
  BY DEF PanelInit, PanelTypeOK, NoRefresh, EmptyPanel
<1>2. panel.chat = NoPanelChat /\ panel.version = 0 /\ owed = 0 /\ ~replay
  BY DEF PanelInit, EmptyPanel
<1>3. panelRead.stage = "none" /\ atChat = NoPanelChat
  BY DEF PanelInit, NoRefresh
<1> QED BY <1>1, <1>2, <1>3 DEF PanelIInv, Visiting

\* A refresh that is asked for now.
LEMMA NewRefreshFacts ==
  ASSUME PanelIInv, atChat # NoPanelChat
  PROVE  /\ NewRefresh \in Refreshes /\ NewRefresh.stage = "asked"
         /\ NewRefresh.chat = atChat /\ NewRefresh.visit = visits /\ atChat \in PanelChats
BY DEF PanelIInv, PanelTypeOK, NewRefresh, Refreshes

LEMMA ForcedRefreshOK ==
  ASSUME PanelIInv, ForcedRefresh
  PROVE  PanelIInv'
<1>1. /\ atChat # NoPanelChat /\ owed' = facts[atChat]
      /\ UNCHANGED <<atChat, visits, facts, panel>>
  BY DEF ForcedRefresh
<1>2. CASE panelRead.stage = "none"
  <2>1. panelRead' = NewRefresh /\ replay' = replay
    BY <1>2 DEF ForcedRefresh, RefreshPanel
  <2> QED BY <1>1, <1>2, <2>1, NewRefreshFacts
          DEF PanelIInv, PanelTypeOK, Visiting, OfThisVisit, Refreshes
<1>3. CASE panelRead.stage # "none"
  <2>1. panelRead' = panelRead /\ replay' = TRUE
    BY <1>3 DEF ForcedRefresh, RefreshPanel, Replayed
  <2> QED BY <1>1, <1>3, <2>1 DEF PanelIInv, PanelTypeOK, Visiting, OfThisVisit
<1> QED BY <1>2, <1>3

LEMMA PolledRefreshOK ==
  ASSUME PanelIInv, PolledRefresh
  PROVE  PanelIInv'
<1>1. /\ atChat # NoPanelChat /\ panelRead.stage = "none" /\ panelRead' = NewRefresh
      /\ UNCHANGED <<atChat, visits, facts, panel, owed, replay>>
  BY DEF PolledRefresh, RefreshPanel
<1> QED BY <1>1, NewRefreshFacts
        DEF PanelIInv, PanelTypeOK, Visiting, OfThisVisit, Refreshes

LEMMA FactsChangeOK ==
  ASSUME PanelIInv, NEW c \in PanelChats, FactsChange(c)
  PROVE  PanelIInv'
<1>1. /\ facts' = [facts EXCEPT ![c] = @ + 1]
      /\ UNCHANGED <<atChat, visits, panel, panelRead, replay, owed>>
  BY DEF FactsChange
<1>2. facts' \in [PanelChats -> Nat] /\ \A x \in PanelChats : facts'[x] >= facts[x]
  BY <1>1 DEF PanelIInv, PanelTypeOK
<1> QED BY <1>1, <1>2 DEF PanelIInv, PanelTypeOK, Visiting, OfThisVisit

LEMMA ServeRefreshOK ==
  ASSUME PanelIInv, ServeRefresh
  PROVE  PanelIInv'
<1>1. /\ panelRead.stage = "asked" /\ panelRead.chat \in PanelChats
      /\ UNCHANGED <<atChat, visits, facts, panel, replay, owed>>
  BY DEF ServeRefresh, PanelIInv, PanelTypeOK
<1>2. /\ panelRead' \in Refreshes
      /\ panelRead'.stage = "served" /\ panelRead'.version = facts[panelRead.chat]
      /\ panelRead'.chat = panelRead.chat /\ panelRead'.visit = panelRead.visit
  BY <1>1 DEF ServeRefresh, PanelIInv, PanelTypeOK, Refreshes
<1> QED BY <1>1, <1>2 DEF PanelIInv, PanelTypeOK, Visiting, OfThisVisit, Refreshes

\* After a refresh: the replayed one begins, or none is under way.
LEMMA AfterRefreshFacts ==
  ASSUME PanelIInv, AfterRefresh
  PROVE  /\ replay' = FALSE /\ panelRead' \in Refreshes
         /\ \/ /\ atChat # NoPanelChat /\ replay /\ panelRead'.stage = "asked"
               /\ panelRead'.chat = atChat /\ panelRead'.visit = visits
               /\ atChat \in PanelChats
            \/ (atChat = NoPanelChat \/ ~replay) /\ panelRead' = NoRefresh
<1>1. CASE replay /\ atChat # NoPanelChat
  BY <1>1, NewRefreshFacts DEF AfterRefresh
<1>2. CASE ~(replay /\ atChat # NoPanelChat)
  BY <1>2 DEF AfterRefresh, NoRefresh, Refreshes, PanelIInv, PanelTypeOK
<1> QED BY <1>1, <1>2

LEMMA RefreshAnswersOK ==
  ASSUME PanelIInv, RefreshAnswers
  PROVE  PanelIInv'
<1>1. /\ panelRead.stage = "served" /\ AfterRefresh
      /\ UNCHANGED <<atChat, visits, facts, owed>>
      /\ panel' = IF OfThisVisit(panelRead)
                  THEN [chat |-> panelRead.chat, version |-> panelRead.version] ELSE panel
  BY DEF RefreshAnswers
<1>2. /\ panel' \in [chat : PanelChats \cup {NoPanelChat}, version : Nat]
      /\ panel'.chat \in {atChat, NoPanelChat}
      /\ ~replay /\ atChat # NoPanelChat => panel'.version >= owed
  BY <1>1 DEF PanelIInv, PanelTypeOK, OfThisVisit, Visiting
<1>3. atChat = NoPanelChat => panel'.version >= owed
  BY <1>1, <1>2 DEF PanelIInv, PanelTypeOK
<1>4. CASE atChat # NoPanelChat /\ replay
  <2>1. /\ replay' = FALSE /\ panelRead' \in Refreshes /\ panelRead'.stage = "asked"
        /\ panelRead'.chat = atChat /\ panelRead'.visit = visits /\ atChat \in PanelChats
    BY <1>1, <1>4, AfterRefreshFacts
  <2>2. PanelTypeOK'
    BY <1>1, <1>2, <2>1 DEF PanelIInv, PanelTypeOK, Refreshes
  <2>3. owed' <= facts'[atChat'] /\ panel'.chat \in {atChat', NoPanelChat}
    BY <1>1, <1>2, <1>4, <2>1 DEF PanelIInv, PanelTypeOK
  <2>4. panelRead'.visit <= visits' /\ Visiting'
    BY <1>1, <2>1 DEF PanelIInv, PanelTypeOK, Visiting, OfThisVisit
  <2> QED BY <1>1, <1>4, <2>1, <2>2, <2>3, <2>4 DEF PanelIInv
<1>5. CASE atChat = NoPanelChat \/ ~replay
  <2>1. panelRead' = NoRefresh /\ replay' = FALSE
    BY <1>1, <1>5, AfterRefreshFacts
  <2>2. panelRead'.stage = "none" /\ ~Visiting'
    BY <2>1 DEF NoRefresh, Visiting
  <2>3. PanelTypeOK'
    BY <1>1, <1>2, <2>1 DEF PanelIInv, PanelTypeOK, NoRefresh
  <2>4. panel'.version >= owed' /\ panel'.chat \in {atChat', NoPanelChat}
    BY <1>1, <1>2, <1>3, <1>5 DEF PanelIInv, PanelTypeOK
  <2>5. /\ atChat' = NoPanelChat => owed' = 0
        /\ atChat' # NoPanelChat => owed' <= facts'[atChat']
    BY <1>1, <1>2 DEF PanelIInv, PanelTypeOK
  <2> QED BY <2>1, <2>2, <2>3, <2>4, <2>5 DEF PanelIInv
<1> QED BY <1>4, <1>5

LEMMA PanelReadFailsOK ==
  ASSUME PanelIInv, PanelReadFails
  PROVE  PanelIInv'
<1>1. /\ panelRead.stage = "asked" /\ AfterRefresh
      /\ UNCHANGED <<atChat, visits, facts, panel>>
      /\ owed' = IF OfThisVisit(panelRead) /\ ~replay THEN 0 ELSE owed
  BY DEF PanelReadFails
<1>2. owed' \in Nat /\ owed' <= owed /\ (~replay \/ atChat = NoPanelChat => owed' = 0)
  BY <1>1 DEF PanelIInv, PanelTypeOK, Visiting
<1>3. facts \in [PanelChats -> Nat] /\ panel.version \in Nat /\ owed \in Nat
  BY DEF PanelIInv, PanelTypeOK
<1>4. CASE atChat # NoPanelChat /\ replay
  <2>1. /\ replay' = FALSE /\ panelRead' \in Refreshes /\ panelRead'.stage = "asked"
        /\ panelRead'.chat = atChat /\ panelRead'.visit = visits /\ atChat \in PanelChats
    BY <1>1, <1>4, AfterRefreshFacts
  <2>2. PanelTypeOK'
    BY <1>1, <1>2, <2>1 DEF PanelIInv, PanelTypeOK, Refreshes
  <2>3. owed' <= facts'[atChat'] /\ panel'.chat \in {atChat', NoPanelChat}
    BY <1>1, <1>2, <1>4, <2>1 DEF PanelIInv, PanelTypeOK
  <2>4. panelRead'.visit <= visits' /\ Visiting'
    BY <1>1, <2>1 DEF PanelIInv, PanelTypeOK, Visiting, OfThisVisit
  <2> QED BY <1>1, <1>4, <2>1, <2>2, <2>3, <2>4 DEF PanelIInv
<1>5. CASE atChat = NoPanelChat \/ ~replay
  <2>1. panelRead' = NoRefresh /\ replay' = FALSE
    BY <1>1, <1>5, AfterRefreshFacts
  <2>2. panelRead'.stage = "none" /\ ~Visiting'
    BY <2>1 DEF NoRefresh, Visiting
  <2>3. PanelTypeOK'
    BY <1>1, <1>2, <2>1 DEF PanelIInv, PanelTypeOK, NoRefresh
  <2>4. panel'.version >= owed' /\ panel'.chat \in {atChat', NoPanelChat}
    BY <1>1, <1>2, <1>3, <1>5 DEF PanelIInv, PanelTypeOK
  <2>5. /\ atChat' = NoPanelChat => owed' = 0
        /\ atChat' # NoPanelChat => owed' <= facts'[atChat']
    BY <1>1, <1>2 DEF PanelIInv, PanelTypeOK
  <2> QED BY <2>1, <2>2, <2>3, <2>4, <2>5 DEF PanelIInv
<1> QED BY <1>4, <1>5

\* Another chat is opened: the refresh under way is of an earlier visit.
LEMMA OpenPanelChatOK ==
  ASSUME PanelIInv, NEW c \in PanelChats \cup {NoPanelChat}, OpenPanelChat(c)
  PROVE  PanelIInv'
<1>1. /\ atChat' = c /\ visits' = visits + 1 /\ panel' = EmptyPanel /\ facts' = facts
  BY DEF OpenPanelChat
<1>2. panel' \in [chat : PanelChats \cup {NoPanelChat}, version : Nat]
  BY <1>1 DEF EmptyPanel
<1>3. CASE c = NoPanelChat
  <2>1. owed' = 0 /\ panelRead' = panelRead /\ replay' = replay
    BY <1>3 DEF OpenPanelChat
  <2> QED BY <1>1, <1>2, <1>3, <2>1
          DEF PanelIInv, PanelTypeOK, OfThisVisit, Visiting, EmptyPanel
<1>4. CASE c # NoPanelChat /\ panelRead.stage = "none"
  <2>1. /\ owed' = facts[c] /\ replay' = replay
        /\ panelRead' = [stage |-> "asked", chat |-> c, visit |-> visits + 1, version |-> 0]
    BY <1>4 DEF OpenPanelChat, NewRefresh
  <2> QED BY <1>1, <1>2, <1>4, <2>1
          DEF PanelIInv, PanelTypeOK, OfThisVisit, Visiting, EmptyPanel
<1>5. CASE c # NoPanelChat /\ panelRead.stage # "none"
  <2>1. owed' = facts[c] /\ replay' = TRUE /\ panelRead' = panelRead
    BY <1>5 DEF OpenPanelChat, Replayed
  <2> QED BY <1>1, <1>2, <1>5, <2>1
          DEF PanelIInv, PanelTypeOK, OfThisVisit, Visiting, EmptyPanel
<1> QED BY <1>3, <1>4, <1>5

LEMMA PanelStepOK == PanelIInv /\ [PanelNext]_panelVars => PanelIInv'
<1> SUFFICES ASSUME PanelIInv, [PanelNext]_panelVars PROVE PanelIInv'
  OBVIOUS
<1>1. CASE UNCHANGED panelVars
  BY <1>1 DEF PanelIInv, PanelTypeOK, Visiting, OfThisVisit, panelVars
<1> QED BY <1>1, ForcedRefreshOK, PolledRefreshOK, FactsChangeOK, ServeRefreshOK,
           RefreshAnswersOK, PanelReadFailsOK, OpenPanelChatOK DEF PanelNext

\* The coalescer and the panel hold values of their types.
THEOREM PanelTypes == PanelSpec => []PanelTypeOK
<1>1. PanelIInv => PanelTypeOK
  BY DEF PanelIInv
<1> QED BY <1>1, PanelInitOK, PanelStepOK, PTL DEF PanelSpec

\* createRefreshCoalescer loses no forced refresh: with none under way the panel
\* shows the open chat, as new as the last one asked for, for every number of visits.
THEOREM PanelCatchesUp == PanelSpec => []PanelFollows
<1>1. PanelIInv => PanelFollows
  BY DEF PanelIInv, PanelFollows
<1> QED BY <1>1, PanelInitOK, PanelStepOK, PTL DEF PanelSpec

-----------------------------------------------------------------------------
(* Requests of an execution root (RequestGate).  A tracking is open until   *)
(* one response takes it, and a response without a tracking of its own that *)
(* takes another's leaves that one's response to do the same.               *)

GateLate == {"sent", "streaming", "answered"}
UntrackedTook ==
  \E u, t \in GateRequests : u \in reportedBy[t] /\ ~gate[u].tracked

GateRecs == [stage : GateStages, view : Snapshots, finishOnly : BOOLEAN, round : {1, 2},
             asked : Nat, reserved : BOOLEAN, tracked : BOOLEAN, notified : BOOLEAN]

GateIInv ==
  /\ GateTypeOK
  /\ \A r \in GateRequests :
       /\ gate[r].tracked => gate[r].reserved /\ gate[r].stage \in GateLate
       /\ gate[r].stage = "body" => gate[r].reserved
       /\ r \in unsettled => gate[r].tracked /\ reportedBy[r] = {}
       /\ gate[r].tracked /\ r \notin unsettled => reportedBy[r] # {}
       /\ reportedBy[r] # {} => gate[r].tracked
       /\ reportedBy[r] = {} => reports[r] = 0
  /\ \A r \in GateRequests : \A x \in reportedBy[r] :
       /\ reportedBy[r] = {x}
       /\ gate[x].stage \in {"streaming", "answered"}
       /\ reports[r] \in {0, 1}
       /\ gate[x].stage = "streaming" /\ ~gate[x].notified => reports[r] = 0
       /\ x # r => UntrackedTook

\* Nothing is sent or reported at first.
LEMMA GateInitOK == GateInit => GateIInv
BY GateAssumption DEF GateInit, GateIInv, GateTypeOK, NoSnapshot, Snapshots, GateStages, GateLate

\* What a session sees of the root is a snapshot.
LEMMA GateSees ==
  /\ GateTypeOK => RootSeen \in Snapshots /\ gate \in [GateRequests -> GateRecs]
  /\ NoSnapshot \in Snapshots
BY DEF GateTypeOK, RootSeen, RootFull, Snapshots, NoSnapshot, GateRecs

\* The counters of the root after a reservation and after a grant.
GateRoots == [calls : Nat, finish : BOOLEAN, grants : Nat]
LEMMA GateRootChanges ==
  ASSUME NEW root \in GateRoots
  PROVE  /\ \A n \in Nat, b \in BOOLEAN :
              [root EXCEPT !.calls = @ + n, !.finish = @ \/ b] \in GateRoots
         /\ [root EXCEPT !.grants = @ + 1, !.finish = FALSE] \in GateRoots
<1>1. ASSUME NEW n \in Nat, NEW b \in BOOLEAN
      PROVE  [root EXCEPT !.calls = @ + n, !.finish = @ \/ b] \in GateRoots
  <2>1. root.calls + n \in Nat /\ root.grants \in Nat /\ root = [calls |-> root.calls,
                              finish |-> root.finish, grants |-> root.grants]
    BY DEF GateRoots
  <2>2. PICK c \in BOOLEAN : c = (root.finish \/ b)
    OBVIOUS
  <2>3. [root EXCEPT !.calls = @ + n, !.finish = c] \in GateRoots
    BY <2>1 DEF GateRoots
  <2> QED BY <2>2, <2>3
<1>2. [root EXCEPT !.grants = @ + 1, !.finish = FALSE] \in GateRoots
  <2>1. root.grants + 1 \in Nat
    BY DEF GateRoots
  <2>2. \A n \in Nat, b \in BOOLEAN : [root EXCEPT !.grants = n, !.finish = b] \in GateRoots
    BY DEF GateRoots
  <2> QED BY <2>1, <2>2
<1> QED BY <1>1, <1>2

\* The records a hook goes on with before its request is reserved.
GateOnward(h, g) ==
  h \in GateRecs /\ h.tracked = g.tracked /\ h.reserved = g.reserved /\ h.stage # "body"
LEMMA GateGoesOn ==
  ASSUME NEW g \in GateRecs, NEW r \in GateRequests, NEW view \in Snapshots,
         NEW finishOnly \in BOOLEAN, NEW stage \in GateStages \ {"body"}
  PROVE  /\ GateOnward(Viewing(g, r, view), g)
         /\ GateOnward(Decided(g, finishOnly), g)
         /\ GateOnward(Failed(g), g)
         /\ gateRoot.grants \in Nat => GateOnward(Asking(g, stage), g)
         /\ GateOnward([g EXCEPT !.stage = stage], g)
         /\ GateOnward([g EXCEPT !.stage = stage, !.round = 2], g)
<1>1. /\ NoSnapshot \in Snapshots /\ 0 \in Nat /\ TRUE \in BOOLEAN /\ FALSE \in BOOLEAN
      /\ {"gate", "reserve", "failed"} \subseteq GateStages \ {"body"}
      /\ 1 \in {1, 2} /\ 2 \in {1, 2}
  BY GateSees DEF GateStages
<1>2. GateOnward(Viewing(g, r, view), g)
  BY <1>1 DEF GateOnward, GateRecs, Viewing
<1>3. GateOnward(Decided(g, finishOnly), g)
  BY <1>1 DEF GateOnward, GateRecs, Decided
<1>4. GateOnward(Failed(g), g)
  BY <1>1 DEF GateOnward, GateRecs, Failed
<1>5. gateRoot.grants \in Nat => GateOnward(Asking(g, stage), g)
  BY <1>1 DEF GateOnward, GateRecs, Asking
<1>6. /\ GateOnward([g EXCEPT !.stage = stage], g)
      /\ GateOnward([g EXCEPT !.stage = stage, !.round = 2], g)
  BY <1>1 DEF GateOnward, GateRecs
<1> QED BY <1>2, <1>3, <1>4, <1>5, <1>6

\* A step of one hook that neither tracks nor settles anything: it changes only
\* a request that is not sent yet.
LEMMA GateUnsentOK ==
  ASSUME GateIInv, GateTypeOK', NEW r \in GateRequests, gate[r].stage \notin GateLate,
         UNCHANGED <<unsettled, reportedBy, reports>>,
         \A x \in GateRequests \ {r} : gate'[x] = gate[x],
         gate'[r].tracked = gate[r].tracked, gate[r].reserved => gate'[r].reserved,
         gate'[r].stage = "body" => gate'[r].reserved
  PROVE  GateIInv'
<1>1. ~gate[r].tracked /\ ~gate'[r].tracked
  BY DEF GateIInv
<1>2. \A t \in GateRequests : \A x \in reportedBy[t] : x # r /\ x \in GateRequests
  BY DEF GateIInv, GateTypeOK, GateLate
<1>3. UntrackedTook => UntrackedTook'
  BY <1>2 DEF UntrackedTook
<1>4. \A t \in GateRequests :
       /\ gate'[t].tracked => gate'[t].reserved /\ gate'[t].stage \in GateLate
       /\ gate'[t].stage = "body" => gate'[t].reserved
       /\ t \in unsettled => gate'[t].tracked /\ reportedBy[t] = {}
       /\ gate'[t].tracked /\ t \notin unsettled => reportedBy[t] # {}
       /\ reportedBy[t] # {} => gate'[t].tracked
  BY <1>1 DEF GateIInv
<1>5. \A t \in GateRequests : \A x \in reportedBy[t] :
       /\ reportedBy[t] = {x}
       /\ gate'[x].stage \in {"streaming", "answered"}
       /\ reports[t] \in {0, 1}
       /\ gate'[x].stage = "streaming" /\ ~gate'[x].notified => reports[t] = 0
       /\ x # t => UntrackedTook'
  BY <1>2, <1>3 DEF GateIInv
<1> QED BY <1>4, <1>5 DEF GateIInv

\* The hook of r goes on with g.
GateGoes(r, g) ==
  /\ gate' = [gate EXCEPT ![r] = g]
  /\ g \in GateRecs /\ g.tracked = gate[r].tracked
  /\ gate[r].reserved => g.reserved
  /\ g.stage = "body" => g.reserved

\* What a hook does until its request is sent.
LEMMA GateHookOK ==
  ASSUME GateIInv, NEW r \in GateRequests,
         \/ GateArrive(r) \/ GateBind(r) \/ GateDecide(r) \/ GatePoll(r)
         \/ GateApply(r) \/ GateReserve(r) \/ GateCallFails(r)
  PROVE  GateIInv'
<1>0. /\ GateTypeOK /\ r.session \in GateSessions /\ r.primary \in BOOLEAN
      /\ gate \in [GateRequests -> GateRecs] /\ gate[r] \in GateRecs
  BY GateAssumption, GateSees DEF GateIInv
<1>1. /\ gate[r].stage \notin GateLate
      /\ UNCHANGED <<unsettled, reportedBy, reports, gateTool>>
  BY DEF GateArrive, GateBind, GateDecide, GatePoll, GateApply, GateReserve, GateCallFails, GateLate
<1>2. \E g : GateGoes(r, g)
  <2> SUFFICES \E g : gate' = [gate EXCEPT ![r] = g]
                      /\ (GateOnward(g, gate[r]) \/ g = [gate[r] EXCEPT !.stage = "body", !.reserved = TRUE])
    BY <1>0 DEF GateGoes, GateOnward, GateRecs, GateStages
  <2>0. /\ {"gate", "bind", "failed", "sent", "apply", "poll"} \subseteq GateStages \ {"body"}
        /\ snapshot[r.session] \in Snapshots
    BY <1>0 DEF GateStages, GateTypeOK
  <2>1. CASE GateArrive(r)
    <3>1. CASE gate' = [gate EXCEPT ![r] = Viewing(@, r, snapshot[r.session])]
      <4>1. GateOnward(Viewing(gate[r], r, snapshot[r.session]), gate[r])
        BY <1>0, <2>0, GateGoesOn
      <4> QED BY <3>1, <4>1
    <3>2. CASE gate' = [gate EXCEPT ![r].stage = "bind"]
      <4>1. GateOnward([gate[r] EXCEPT !.stage = "bind"], gate[r])
        BY <1>0, <2>0, GateSees, GateGoesOn
      <4> QED BY <3>2, <4>1
    <3> QED BY <2>1, <3>1, <3>2 DEF GateArrive, GateGoto
  <2>2. CASE GateBind(r)
    <3>1. CASE gate' = [gate EXCEPT ![r] = Viewing(@, r, RootSeen)]
      <4>1. GateOnward(Viewing(gate[r], r, RootSeen), gate[r])
        BY <1>0, <2>0, GateSees, GateGoesOn
      <4> QED BY <3>1, <4>1
    <3>2. ASSUME NEW stage \in {"failed", "sent"}, gate' = [gate EXCEPT ![r].stage = stage]
          PROVE  \E g : gate' = [gate EXCEPT ![r] = g] /\ GateOnward(g, gate[r])
      <4>1. GateOnward([gate[r] EXCEPT !.stage = stage], gate[r])
        BY <1>0, <2>0, <3>2, GateSees, GateGoesOn
      <4> QED BY <3>2, <4>1
    <3> QED BY <2>2, <3>1, <3>2 DEF GateBind, GateGoto
  <2>3. CASE GateDecide(r) \/ GatePoll(r) \/ GateApply(r) \/ GateCallFails(r)
    <3>1. \/ \E stage \in {"apply", "poll"} : gate' = [gate EXCEPT ![r] = Asking(@, stage)]
          \/ gate' = [gate EXCEPT ![r] = [@ EXCEPT !.stage = "apply"]]
          \/ gate' = [gate EXCEPT ![r] = Failed(@)]
          \/ \E finishOnly \in BOOLEAN : gate' = [gate EXCEPT ![r] = Decided(@, finishOnly)]
      BY <2>3 DEF GateDecide, GatePoll, GateApply, GateCallFails
    <3>2. GateOnward(Failed(gate[r]), gate[r])
      BY <1>0, <2>0, GateSees, GateGoesOn
    <3>3. \A finishOnly \in BOOLEAN : GateOnward(Decided(gate[r], finishOnly), gate[r])
      BY <1>0, <2>0, GateSees, GateGoesOn
    <3>4. GateOnward([gate[r] EXCEPT !.stage = "apply"], gate[r])
      BY <1>0, <2>0, GateSees, GateGoesOn
    <3>5. \A stage \in {"apply", "poll"} : GateOnward(Asking(gate[r], stage), gate[r])
      <4>1. gateRoot.grants \in Nat
        BY <1>0 DEF GateTypeOK
      <4> QED BY <1>0, <2>0, <4>1, GateSees, GateGoesOn
    <3> QED BY <3>1, <3>2, <3>3, <3>4, <3>5
  <2>4. CASE GateReserve(r)
    <3>1. \/ gate' = [gate EXCEPT ![r] = [@ EXCEPT !.stage = "sent"]]
          \/ gate' = [gate EXCEPT ![r] = [@ EXCEPT !.stage = "bind", !.round = 2]]
          \/ gate' = [gate EXCEPT ![r] = Failed(@)]
          \/ gate' = [gate EXCEPT ![r] = [@ EXCEPT !.stage = "body", !.reserved = TRUE]]
      BY <2>4 DEF GateReserve
    <3>2. GateOnward(Failed(gate[r]), gate[r])
      BY <1>0, <2>0, GateSees, GateGoesOn
    <3>3. GateOnward([gate[r] EXCEPT !.stage = "sent"], gate[r])
      BY <1>0, <2>0, GateSees, GateGoesOn
    <3>4. GateOnward([gate[r] EXCEPT !.stage = "bind", !.round = 2], gate[r])
      BY <1>0, <2>0, GateSees, GateGoesOn
    <3> QED BY <3>1, <3>2, <3>3, <3>4
  <2> QED BY <2>1, <2>2, <2>3, <2>4
<1>3. /\ gateRoot' \in [calls : Nat, finish : BOOLEAN, grants : Nat]
      /\ proposal' \in {"none", "pending", "approved", "denied"}
      /\ snapshot' \in [GateSessions -> Snapshots]
  <2> SUFFICES /\ gateRoot' \in GateRoots
               /\ proposal' \in {"none", "pending", "approved", "denied"}
               /\ snapshot' \in [GateSessions -> Snapshots]
    BY DEF GateRoots
  <2>0. /\ gateRoot \in GateRoots
        /\ proposal \in {"none", "pending", "approved", "denied"}
        /\ snapshot \in [GateSessions -> Snapshots]
        /\ gate[r].finishOnly \in BOOLEAN
    BY <1>0 DEF GateTypeOK, GateRecs, GateRoots
  <2>1. CASE GateReserve(r)
    <3>1. gateRoot' = [gateRoot EXCEPT !.calls = @ + 1, !.finish = @ \/ gate[r].finishOnly]
          \/ gateRoot' = gateRoot
      BY <2>1 DEF GateReserve
    <3>2. [gateRoot EXCEPT !.calls = @ + 1, !.finish = @ \/ gate[r].finishOnly] \in GateRoots
      BY <2>0, GateRootChanges
    <3>3. gateRoot' \in GateRoots
      BY <2>0, <3>1, <3>2
    <3> QED BY <2>0, <2>1, <3>3 DEF GateReserve
  <2>2. CASE GateApply(r)
    BY <2>0, <2>2, GateSees, GateRootChanges DEF GateApply, Extend
  <2>3. CASE GateBind(r)
    BY <1>0, <2>0, <2>3, GateSees DEF GateBind
  <2>4. CASE GateArrive(r) \/ GateDecide(r) \/ GatePoll(r) \/ GateCallFails(r)
    BY <2>0, <2>4 DEF GateArrive, GateDecide, GatePoll, GateCallFails
  <2> QED BY <2>1, <2>2, <2>3, <2>4
<1>4. GateTypeOK' /\ \A x \in GateRequests \ {r} : gate'[x] = gate[x]
  <2>1. gate' \in [GateRequests -> GateRecs] /\ \A x \in GateRequests \ {r} : gate'[x] = gate[x]
    <3>1. PICK g : GateGoes(r, g)
      BY <1>2
    <3> QED BY <1>0, <3>1 DEF GateGoes
  <2> QED BY <1>0, <1>1, <1>3, <2>1 DEF GateTypeOK, GateRecs
<1>5. /\ gate'[r].tracked = gate[r].tracked /\ (gate[r].reserved => gate'[r].reserved)
      /\ gate'[r].stage = "body" => gate'[r].reserved
  <2>1. PICK g : GateGoes(r, g)
    BY <1>2
  <2>2. gate'[r] = g
    BY <1>0, <2>1 DEF GateGoes
  <2> QED BY <2>1, <2>2 DEF GateGoes
<1> QED BY <1>1, <1>4, <1>5, GateUnsentOK

\* A request is sent with a tracking of its own, or its step fails.
LEMMA GateSendOK ==
  ASSUME GateIInv, NEW r \in GateRequests, GateSend(r)
  PROVE  GateIInv'
<1>0. /\ GateTypeOK
      /\ gate[r] \in GateRecs
      /\ gate[r].stage = "body" /\ gate[r].stage \notin GateLate
      /\ UNCHANGED <<gateRoot, proposal, snapshot, reportedBy, reports, gateTool>>
  BY DEF GateIInv, GateTypeOK, GateRecs, GateSend, GateLate
<1>1. CASE /\ gate' = [gate EXCEPT ![r] = Failed(@)]
           /\ UNCHANGED unsettled
  <2>1. GateTypeOK'
    BY <1>0, <1>1, GateSees DEF GateTypeOK, GateRecs, Failed, GateStages
  <2>2. /\ \A x \in GateRequests \ {r} : gate'[x] = gate[x]
        /\ gate'[r].tracked = gate[r].tracked /\ (gate[r].reserved => gate'[r].reserved)
        /\ gate'[r].stage # "body"
    BY <1>0, <1>1 DEF GateTypeOK, Failed
  <2>3. UNCHANGED <<unsettled, reportedBy, reports>>
    BY <1>0, <1>1
  <2> QED BY <1>0, <2>1, <2>2, <2>3, GateUnsentOK
<1>2. CASE /\ unsettled' = unsettled \cup {r}
           /\ gate' = [gate EXCEPT ![r] = [@ EXCEPT !.stage = "sent", !.tracked = TRUE,
                                                    !.finishOnly = FALSE, !.round = 1]]
  <2>1. GateTypeOK'
    BY <1>0, <1>2 DEF GateTypeOK, GateRecs, GateStages
  <2>2. /\ \A x \in GateRequests \ {r} : gate'[x] = gate[x]
        /\ gate'[r].tracked /\ gate'[r].reserved /\ gate'[r].stage = "sent"
        /\ reportedBy[r] = {}
    BY <1>0, <1>2 DEF GateTypeOK, GateIInv
  <2>3. \A t \in GateRequests : \A x \in reportedBy[t] : x # r /\ x \in GateRequests
    BY <1>0 DEF GateIInv, GateTypeOK
  <2>4. UntrackedTook => UntrackedTook'
    BY <1>0, <2>2, <2>3 DEF UntrackedTook
  <2>5. \A t \in GateRequests :
       /\ gate'[t].tracked => gate'[t].reserved /\ gate'[t].stage \in GateLate
       /\ gate'[t].stage = "body" => gate'[t].reserved
       /\ t \in unsettled' => gate'[t].tracked /\ reportedBy[t] = {}
       /\ gate'[t].tracked /\ t \notin unsettled' => reportedBy[t] # {}
       /\ reportedBy[t] # {} => gate'[t].tracked
    BY <1>2, <2>2 DEF GateIInv, GateLate
  <2>6. \A t \in GateRequests : \A x \in reportedBy[t] :
       /\ reportedBy[t] = {x}
       /\ gate'[x].stage \in {"streaming", "answered"}
       /\ reports[t] \in {0, 1}
       /\ gate'[x].stage = "streaming" /\ ~gate'[x].notified => reports[t] = 0
       /\ x # t => UntrackedTook'
    BY <2>2, <2>3, <2>4 DEF GateIInv
  <2> QED BY <1>0, <2>1, <2>5, <2>6 DEF GateIInv
<1> QED BY <1>1, <1>2 DEF GateSend

\* A response takes an open tracking, or none.
LEMMA GateRespondOK ==
  ASSUME GateIInv, NEW r \in GateRequests, GateRespond(r)
  PROVE  GateIInv'
<1>0. /\ GateTypeOK /\ gate[r].stage = "sent"
      /\ UNCHANGED <<gateRoot, proposal, snapshot, reports, gateTool>>
      /\ \A t \in GateRequests : r \notin reportedBy[t]
      /\ \A t \in GateRequests : reportedBy[t] \subseteq GateRequests
  BY DEF GateIInv, GateTypeOK, GateRespond
<1>1. ASSUME NEW c \in unsettled, NEW lost \in BOOLEAN, Settles(r, lost, c),
             unsettled' = unsettled \ {c},
             reportedBy' = [reportedBy EXCEPT ![c] = @ \cup {r}],
             GateGoto(r, "streaming")
      PROVE  GateIInv'
  <2>1. c \in GateRequests /\ reportedBy[c] = {} /\ gate[c].tracked /\ reports[c] = 0
    BY <1>1 DEF GateIInv, GateTypeOK
  <2>2. GateTypeOK'
    BY <1>0, <1>1, <2>1 DEF GateTypeOK, GateGoto, GateStages
  <2>3. /\ \A x \in GateRequests \ {r} : gate'[x] = gate[x]
        /\ gate'[r].stage = "streaming" /\ gate'[r].tracked = gate[r].tracked
        /\ gate'[r].reserved = gate[r].reserved
        /\ reportedBy'[c] = {r} /\ \A t \in GateRequests \ {c} : reportedBy'[t] = reportedBy[t]
    BY <1>0, <1>1, <2>1 DEF GateTypeOK, GateGoto
  <2>4. UntrackedTook => UntrackedTook'
    <3>1. \A u, t \in GateRequests : u \in reportedBy[t] => u \in reportedBy'[t]
      BY <2>1, <2>3
    <3>2. \A u \in GateRequests : gate'[u].tracked = gate[u].tracked
      BY <2>3
    <3> QED BY <3>1, <3>2 DEF UntrackedTook
  <2>5. r # c => UntrackedTook'
    <3> SUFFICES ASSUME r # c PROVE UntrackedTook'
      OBVIOUS
    <3>1. r \notin unsettled
      BY <1>1 DEF Settles, Candidates
    <3>2. CASE gate[r].tracked
      <4>1. PICK y \in reportedBy[r] : TRUE
        BY <3>1, <3>2 DEF GateIInv
      <4>2. y # r
        BY <1>0, <4>1
      <4> QED BY <2>4, <4>1, <4>2 DEF GateIInv
    <3>3. CASE ~gate[r].tracked
      BY <2>1, <2>3, <3>3 DEF UntrackedTook
    <3> QED BY <3>2, <3>3
  <2>6. \A t \in GateRequests :
       /\ gate'[t].tracked => gate'[t].reserved /\ gate'[t].stage \in GateLate
       /\ gate'[t].stage = "body" => gate'[t].reserved
       /\ t \in unsettled' => gate'[t].tracked /\ reportedBy'[t] = {}
       /\ gate'[t].tracked /\ t \notin unsettled' => reportedBy'[t] # {}
       /\ reportedBy'[t] # {} => gate'[t].tracked
       /\ reportedBy'[t] = {} => reports[t] = 0
    <3>1. ASSUME NEW t \in GateRequests
          PROVE  /\ gate'[t].tracked = gate[t].tracked /\ gate'[t].reserved = gate[t].reserved
                 /\ gate'[t].stage = gate[t].stage \/ (t = r /\ gate'[t].stage = "streaming")
      BY <2>3
    <3>2. \A t \in GateRequests :
       /\ gate'[t].tracked => gate'[t].reserved /\ gate'[t].stage \in GateLate
       /\ gate'[t].stage = "body" => gate'[t].reserved
      BY <3>1 DEF GateIInv, GateLate
    <3>3. \A t \in GateRequests \ {c} :
       /\ t \in unsettled' <=> t \in unsettled
       /\ reportedBy'[t] = reportedBy[t]
      BY <1>1, <2>3
    <3> QED BY <1>1, <2>1, <2>3, <3>1, <3>2, <3>3 DEF GateIInv
  <2>7. \A t \in GateRequests : \A x \in reportedBy'[t] :
       /\ reportedBy'[t] = {x}
       /\ gate'[x].stage \in {"streaming", "answered"}
       /\ reports[t] \in {0, 1}
       /\ gate'[x].stage = "streaming" /\ ~gate'[x].notified => reports[t] = 0
       /\ x # t => UntrackedTook'
    <3>1. ASSUME NEW t \in GateRequests \ {c}, NEW x \in reportedBy[t]
          PROVE  /\ reportedBy'[t] = {x}
                 /\ gate'[x].stage \in {"streaming", "answered"}
                 /\ reports[t] \in {0, 1}
                 /\ gate'[x].stage = "streaming" /\ ~gate'[x].notified => reports[t] = 0
                 /\ x # t => UntrackedTook'
      <4>1. x # r /\ x \in GateRequests
        BY <1>0, <3>1
      <4>2. gate'[x] = gate[x] /\ reportedBy'[t] = reportedBy[t]
        BY <2>3, <4>1
      <4> QED BY <2>4, <4>2 DEF GateIInv
    <3> QED BY <2>1, <2>3, <2>5, <3>1
  <2> QED BY <1>0, <2>2, <2>6, <2>7 DEF GateIInv
<1>2. ASSUME GateGoto(r, "answered"), UNCHANGED <<unsettled, reportedBy>>
      PROVE  GateIInv'
  <2>1. GateTypeOK'
    BY <1>0, <1>2 DEF GateTypeOK, GateGoto, GateStages
  <2>2. /\ \A x \in GateRequests \ {r} : gate'[x] = gate[x]
        /\ gate'[r].stage = "answered" /\ gate'[r].tracked = gate[r].tracked
        /\ gate'[r].reserved = gate[r].reserved
    BY <1>0, <1>2 DEF GateTypeOK, GateGoto
  <2>3. UntrackedTook => UntrackedTook'
    BY <1>2, <2>2 DEF UntrackedTook
  <2>4. \A t \in GateRequests : \A x \in reportedBy[t] : x # r /\ x \in GateRequests
    BY <1>0
  <2> QED BY <1>0, <1>2, <2>1, <2>2, <2>3, <2>4 DEF GateIInv, GateLate
<1> QED BY <1>1, <1>2 DEF GateRespond

\* A stream reports once for what its response took.
LEMMA GateStreamOK ==
  ASSUME GateIInv, NEW r \in GateRequests, GateTerminal(r) \/ GateClose(r)
  PROVE  GateIInv'
<1>0. /\ GateTypeOK /\ gate[r].stage = "streaming"
      /\ UNCHANGED <<gateRoot, proposal, snapshot, unsettled, reportedBy, gateTool>>
      /\ \A t \in GateRequests : reportedBy[t] \subseteq GateRequests
  BY DEF GateIInv, GateTypeOK, GateTerminal, GateClose
<1>1. /\ gate[r] \in GateRecs
      /\ gate \in [GateRequests -> GateRecs]
  BY <1>0 DEF GateTypeOK, GateRecs
<1>2. /\ \A x \in GateRequests \ {r} : gate'[x] = gate[x]
      /\ gate'[r].tracked = gate[r].tracked /\ gate'[r].reserved = gate[r].reserved
      /\ \/ gate'[r].stage = "streaming" /\ gate'[r].notified
         \/ gate'[r].stage = "answered"
      /\ gate' \in [GateRequests -> GateRecs]
  <2>1. CASE GateTerminal(r)
    BY <1>0, <1>1, <2>1 DEF GateTerminal, GateRecs
  <2>2. CASE GateClose(r)
    BY <1>0, <1>1, <2>2 DEF GateClose, GateStages, GateRecs
  <2> QED BY <2>1, <2>2
<1>3. /\ reports' \in [GateRequests -> Nat]
      /\ \A t \in GateRequests :
           IF ~gate[r].notified /\ r \in reportedBy[t] THEN reports'[t] = reports[t] + 1
           ELSE reports'[t] = reports[t]
  BY <1>0 DEF GateTypeOK, GateTerminal, GateClose, Report, Observed
<1>4. GateTypeOK'
  BY <1>0, <1>2, <1>3 DEF GateTypeOK, GateRecs
<1>5. UntrackedTook => UntrackedTook'
  <2>1. \A u \in GateRequests : gate'[u].tracked = gate[u].tracked
    BY <1>2
  <2> QED BY <1>0, <2>1 DEF UntrackedTook
<1>6. \A t \in GateRequests :
       /\ gate'[t].tracked => gate'[t].reserved /\ gate'[t].stage \in GateLate
       /\ gate'[t].stage = "body" => gate'[t].reserved
       /\ t \in unsettled => gate'[t].tracked /\ reportedBy[t] = {}
       /\ gate'[t].tracked /\ t \notin unsettled => reportedBy[t] # {}
       /\ reportedBy[t] # {} => gate'[t].tracked
       /\ reportedBy[t] = {} => reports'[t] = 0
  BY <1>2, <1>3 DEF GateIInv, GateLate
<1>7. \A t \in GateRequests : \A x \in reportedBy[t] :
       /\ reportedBy[t] = {x}
       /\ gate'[x].stage \in {"streaming", "answered"}
       /\ reports'[t] \in {0, 1}
       /\ gate'[x].stage = "streaming" /\ ~gate'[x].notified => reports'[t] = 0
       /\ x # t => UntrackedTook'
  <2> SUFFICES ASSUME NEW t \in GateRequests, NEW x \in reportedBy[t]
               PROVE  /\ reportedBy[t] = {x}
                      /\ gate'[x].stage \in {"streaming", "answered"}
                      /\ reports'[t] \in {0, 1}
                      /\ gate'[x].stage = "streaming" /\ ~gate'[x].notified => reports'[t] = 0
                      /\ x # t => UntrackedTook'
    OBVIOUS
  <2>1. /\ reportedBy[t] = {x} /\ reports[t] \in {0, 1} /\ (x # t => UntrackedTook)
        /\ gate[x].stage \in {"streaming", "answered"}
        /\ gate[x].stage = "streaming" /\ ~gate[x].notified => reports[t] = 0
    BY DEF GateIInv
  <2>2. CASE x = r
    BY <1>0, <1>2, <1>3, <1>5, <2>1, <2>2
  <2>3. CASE x # r
    <3>1. r \notin reportedBy[t] /\ gate'[x] = gate[x]
      BY <1>0, <1>2, <2>1, <2>3
    <3> QED BY <1>3, <1>5, <2>1, <3>1
  <2> QED BY <2>2, <2>3
<1> QED BY <1>0, <1>4, <1>6, <1>7 DEF GateIInv

\* Every step keeps the inductive invariant.
LEMMA GateStepOK == GateIInv /\ [GateNext]_gateVars => GateIInv'
<1> SUFFICES ASSUME GateIInv, [GateNext]_gateVars PROVE GateIInv'
  OBVIOUS
<1>1. ASSUME \/ \E s \in GateSessions : GateContextBind(s)
             \/ GateToolStart \/ GateToolRecover \/ GateToolAgain
             \/ GateHuman \/ GateExpire
             \/ UNCHANGED gateVars
      PROVE  GateIInv'
  <2>1. UNCHANGED <<gate, unsettled, reportedBy, reports>>
    BY <1>1 DEF GateContextBind, GateToolStart, GateToolRecover, GateToolAgain, GateHuman,
                GateExpire, gateVars
  <2>2. GateTypeOK
    BY DEF GateIInv
  <2>a. RootSeen \in Snapshots
    BY <2>2, GateSees
  <2>b. /\ gateRoot \in [calls : Nat, finish : BOOLEAN, grants : Nat]
        /\ proposal \in {"none", "pending", "approved", "denied"}
        /\ snapshot \in [GateSessions -> Snapshots]
        /\ gateTool \in [at : {"idle", "poll", "again", "allowed", "denied"}, asked : Nat]
    BY <2>2 DEF GateTypeOK
  <2>3. /\ snapshot' \in [GateSessions -> Snapshots]
        /\ gateRoot' \in [calls : Nat, finish : BOOLEAN, grants : Nat]
        /\ proposal' \in {"none", "pending", "approved", "denied"}
        /\ gateTool' \in [at : {"idle", "poll", "again", "allowed", "denied"}, asked : Nat]
    <3>1. CASE \E s \in GateSessions : GateContextBind(s)
      BY <2>a, <2>b, <3>1 DEF GateContextBind
    <3>2. CASE GateToolStart \/ GateToolAgain
      BY <2>b, <3>2 DEF GateToolStart, GateToolAgain, ToolGoes
    <3>4. CASE GateHuman \/ GateExpire \/ UNCHANGED gateVars
      BY <2>b, <3>4 DEF GateHuman, GateExpire, gateVars
    <3>3. CASE GateToolRecover
      <4>1. gateRoot \in GateRoots
        BY <2>b DEF GateRoots
      <4>2. gateRoot' \in GateRoots
        BY <3>3, <4>1, GateRootChanges DEF GateToolRecover, Extend
      <4> QED BY <2>b, <3>3, <4>2 DEF GateToolRecover, Extend, ToolGoes, GateRoots
    <3> QED BY <1>1, <3>1, <3>2, <3>3, <3>4
  <2>4. GateTypeOK'
    BY <2>1, <2>2, <2>3 DEF GateTypeOK
  <2> QED BY <2>1, <2>4 DEF GateIInv, UntrackedTook
<1> QED BY <1>1, GateHookOK, GateSendOK, GateRespondOK, GateStreamOK DEF GateNext, GateStep

\* The hooks always keep values of their types.
THEOREM GateTypes == GateSpec => []GateTypeOK
<1>1. GateIInv => GateTypeOK
  BY DEF GateIInv
<1> QED BY <1>1, GateInitOK, GateStepOK, PTL DEF GateSpec

\* However hooks interleave and responses lose their requests, a reservation is
\* reported at most once, and usage lands on another request only after a
\* response that was never tracked took one.
THEOREM UsageAttributed == GateSpec => []UsageIsAttributed
<1>1. GateIInv => UsageIsAttributed
  <2> SUFFICES ASSUME GateIInv, NEW r \in GateRequests, NEW x \in reportedBy[r]
               PROVE  /\ reportedBy[r] = {x}
                      /\ gate[r].reserved /\ reports[r] <= 1
                      /\ x # r => UntrackedTook
    BY DEF UsageIsAttributed, UntrackedTook
  <2> QED BY DEF GateIInv
<1> QED BY <1>1, GateInitOK, GateStepOK, PTL DEF GateSpec

-----------------------------------------------------------------------------
(* Fallback bodies (FallbackBodies).  An entry is claimed once, by a        *)
(* response that reads for it, then resends it, and is the only one to.     *)

FbReads(x, e) == reply[x].stage = "reading" /\ reply[x].entry = e
FbResends(x, e) == reply[x].stage = "resending" /\ reply[x].entry = e
FbOwn(x, e) == x # e => x \notin shaped /\ x.origin = e.origin

FbIInv ==
  /\ reply \in [Attempts -> [stage : {"idle", "sent", "reading", "resending", "settled"},
                             entry : Attempts \cup {Nobody}]]
  /\ resentBy \in [Attempts -> SUBSET Attempts]
  /\ replacedBy \in [Attempts -> SUBSET Attempts]
  /\ shaped \subseteq Attempts
  /\ \A x \in Attempts : x \in shaped => reply[x].stage # "idle"
  /\ \A x \in Attempts : reply[x].stage \in {"reading", "resending"} => reply[x].entry \in Attempts
  /\ \A e, x \in Attempts :
       /\ FbReads(x, e) => /\ e \in claimed /\ resentBy[e] = {} /\ FbOwn(x, e)
                           /\ \A y \in Attempts : FbReads(y, e) => y = x
       /\ FbResends(x, e) => x \in resentBy[e]
       /\ x \in resentBy[e] => /\ e \in claimed /\ resentBy[e] = {x} /\ FbOwn(x, e)
                               /\ reply[x].stage \in {"resending", "settled"}
       /\ replacedBy[e] \subseteq resentBy[e]

LEMMA FbInitOK == FbInit => FbIInv
BY DEF FbInit, FbIInv, FbReads, FbResends

\* A request is sent: only its own stage and shape change.
LEMMA FbSendOK ==
  ASSUME FbIInv, NEW z \in Attempts, FbSend(z)
  PROVE  FbIInv'
<1>1. /\ reply[z].stage = "idle"
      /\ reply' = [reply EXCEPT ![z] = [stage |-> "sent", entry |-> Nobody]]
      /\ shaped' = shaped \/ shaped' = shaped \cup {z}
      /\ UNCHANGED <<claimed, resentBy, replacedBy>>
  BY DEF FbSend, ReplyGoto
<1>2. \A e, x \in Attempts : /\ FbReads(x, e)' <=> FbReads(x, e)
                             /\ FbResends(x, e)' <=> FbResends(x, e)
  BY <1>1 DEF FbIInv, FbReads, FbResends
<1>3. \A e, x \in Attempts : (FbReads(x, e) \/ x \in resentBy[e]) /\ FbOwn(x, e)
                             => x # z /\ FbOwn(x, e)'
  BY <1>1 DEF FbIInv, FbReads, FbOwn
<1>4. \A x \in Attempts \ {z} : reply'[x] = reply[x]
  BY <1>1 DEF FbIInv
<1>5. \A e, x \in Attempts :
       /\ FbReads(x, e)' => /\ e \in claimed /\ resentBy[e] = {} /\ FbOwn(x, e)'
                            /\ \A y \in Attempts : FbReads(y, e)' => y = x
       /\ FbResends(x, e)' => x \in resentBy[e]
       /\ x \in resentBy[e] => /\ e \in claimed /\ resentBy[e] = {x} /\ FbOwn(x, e)'
                               /\ reply'[x].stage \in {"resending", "settled"}
       /\ replacedBy[e] \subseteq resentBy[e]
  BY <1>2, <1>3, <1>4 DEF FbIInv
<1>6. /\ reply' \in [Attempts -> [stage : {"idle", "sent", "reading", "resending", "settled"},
                                  entry : Attempts \cup {Nobody}]]
      /\ shaped' \subseteq Attempts
      /\ \A x \in Attempts : x \in shaped' => reply'[x].stage # "idle"
      /\ \A x \in Attempts : reply'[x].stage \in {"reading", "resending"} => reply'[x].entry \in Attempts
  BY <1>1 DEF FbIInv
<1> QED BY <1>1, <1>5, <1>6 DEF FbIInv

\* A response claims an entry nobody has claimed, or settles.
LEMMA FbRespondOK ==
  ASSUME FbIInv, NEW z \in Attempts, NEW identity \in Identities, FbRespond(z, identity)
  PROVE  FbIInv'
<1>0. /\ reply[z].stage = "sent"
      /\ UNCHANGED <<shaped, resentBy, replacedBy>>
  BY DEF FbRespond
<1>1. ASSUME NEW f \in Attempts, CanClaim(z, identity, f), claimed' = claimed \cup {f},
             identity # "absent", reply' = [reply EXCEPT ![z] = [stage |-> "reading", entry |-> f]]
      PROVE  FbIInv'
  <2>1. FbOwn(z, f) /\ f \notin claimed
    <3>1. CASE identity = "own"
      BY <1>1, <3>1 DEF CanClaim, NamedBy, FbOwn
    <3>2. CASE identity \in {"linked", "origin"}
      <4>1. SameOrigin(z) = {f}
        BY <1>1, <3>2 DEF CanClaim, NamedBy
      <4>2. f.origin = z.origin /\ (z \in shaped => z = f)
        BY <4>1 DEF SameOrigin
      <4> QED BY <1>1, <4>2 DEF FbOwn, CanClaim
    <3>3. identity # "unknown"
      BY <1>1 DEF CanClaim, NamedBy
    <3> QED BY <1>1, <3>1, <3>2, <3>3 DEF Identities
  <2>2. resentBy[f] = {} /\ \A y \in Attempts : ~FbReads(y, f) /\ ~FbResends(y, f)
    BY <2>1 DEF FbIInv
  <2>3. \A e, x \in Attempts : /\ FbReads(x, e)' <=> FbReads(x, e) \/ (x = z /\ e = f)
                               /\ FbResends(x, e)' <=> FbResends(x, e)
                               /\ FbOwn(x, e)' <=> FbOwn(x, e)
    BY <1>0, <1>1 DEF FbIInv, FbReads, FbResends, FbOwn
  <2>4. \A e, x \in Attempts : x \in resentBy[e] => reply'[x] = reply[x]
    BY <1>0, <1>1 DEF FbIInv
  <2>5. \A e, x \in Attempts :
       /\ FbReads(x, e)' => /\ e \in claimed' /\ resentBy[e] = {} /\ FbOwn(x, e)'
                            /\ \A y \in Attempts : FbReads(y, e)' => y = x
       /\ FbResends(x, e)' => x \in resentBy[e]
       /\ x \in resentBy[e] => /\ e \in claimed' /\ resentBy[e] = {x} /\ FbOwn(x, e)'
                               /\ reply'[x].stage \in {"resending", "settled"}
       /\ replacedBy[e] \subseteq resentBy[e]
    BY <1>1, <2>1, <2>2, <2>3, <2>4 DEF FbIInv
  <2>6. /\ reply' \in [Attempts -> [stage : {"idle", "sent", "reading", "resending", "settled"},
                                    entry : Attempts \cup {Nobody}]]
        /\ \A x \in Attempts : x \in shaped => reply'[x].stage # "idle"
        /\ \A x \in Attempts : reply'[x].stage \in {"reading", "resending"} => reply'[x].entry \in Attempts
    BY <1>1 DEF FbIInv
  <2> QED BY <1>0, <2>5, <2>6 DEF FbIInv
<1>2. ASSUME claimed \subseteq claimed', reply' = [reply EXCEPT ![z] = [stage |-> "settled", entry |-> Nobody]]
      PROVE  FbIInv'
  <2>1. \A e, x \in Attempts : /\ FbReads(x, e)' <=> FbReads(x, e)
                               /\ FbResends(x, e)' <=> FbResends(x, e)
                               /\ FbOwn(x, e)' <=> FbOwn(x, e)
    BY <1>0, <1>2 DEF FbIInv, FbReads, FbResends, FbOwn
  <2>2. \A e, x \in Attempts : x \in resentBy[e] => reply'[x] = reply[x]
    BY <1>0, <1>2 DEF FbIInv
  <2>3. \A e, x \in Attempts :
       /\ FbReads(x, e)' => /\ e \in claimed' /\ resentBy[e] = {} /\ FbOwn(x, e)'
                            /\ \A y \in Attempts : FbReads(y, e)' => y = x
       /\ FbResends(x, e)' => x \in resentBy[e]
       /\ x \in resentBy[e] => /\ e \in claimed' /\ resentBy[e] = {x} /\ FbOwn(x, e)'
                               /\ reply'[x].stage \in {"resending", "settled"}
       /\ replacedBy[e] \subseteq resentBy[e]
    BY <1>2, <2>1, <2>2 DEF FbIInv
  <2>4. /\ reply' \in [Attempts -> [stage : {"idle", "sent", "reading", "resending", "settled"},
                                    entry : Attempts \cup {Nobody}]]
        /\ \A x \in Attempts : x \in shaped => reply'[x].stage # "idle"
        /\ \A x \in Attempts : reply'[x].stage \in {"reading", "resending"} => reply'[x].entry \in Attempts
    BY <1>2 DEF FbIInv
  <2> QED BY <1>0, <2>3, <2>4 DEF FbIInv
<1> QED BY <1>1, <1>2 DEF FbRespond, ReplyGoto

\* The one response that reads for an entry resends it.
LEMMA FbResendOK ==
  ASSUME FbIInv, NEW z \in Attempts, FbResend(z)
  PROVE  FbIInv'
<1>0. PICK f \in Attempts : f = reply[z].entry
  BY DEF FbIInv, FbResend
<1>1. /\ reply[z].stage = "reading" /\ FbReads(z, f)
      /\ UNCHANGED <<shaped, claimed, replacedBy>>
      /\ reply \in [Attempts -> [stage : {"idle", "sent", "reading", "resending", "settled"},
                                 entry : Attempts \cup {Nobody}]]
  BY <1>0 DEF FbResend, FbReads, FbIInv
<1>2. /\ f \in claimed /\ resentBy[f] = {} /\ FbOwn(z, f)
      /\ \A y \in Attempts : FbReads(y, f) => y = z
  BY <1>1 DEF FbIInv
<1>3. CASE /\ resentBy' = [resentBy EXCEPT ![f] = @ \cup {z}]
           /\ reply' = [reply EXCEPT ![z] = [stage |-> "resending", entry |-> f]]
  <2>1. \A e, x \in Attempts : /\ FbReads(x, e)' <=> FbReads(x, e) /\ x # z
                               /\ FbResends(x, e)' <=> FbResends(x, e) \/ (x = z /\ e = f)
                               /\ FbOwn(x, e)' <=> FbOwn(x, e)
    BY <1>1, <1>3 DEF FbReads, FbResends, FbOwn
  <2>2. /\ resentBy' \in [Attempts -> SUBSET Attempts]
        /\ resentBy'[f] = {z} /\ \A e \in Attempts \ {f} : resentBy'[e] = resentBy[e]
    BY <1>2, <1>3 DEF FbIInv
  <2>3. /\ reply'[z].stage = "resending" /\ \A x \in Attempts \ {z} : reply'[x] = reply[x]
    BY <1>1, <1>3
  <2>4. \A e, x \in Attempts :
       /\ FbReads(x, e)' => /\ e \in claimed /\ resentBy'[e] = {} /\ FbOwn(x, e)'
                            /\ \A y \in Attempts : FbReads(y, e)' => y = x
       /\ FbResends(x, e)' => x \in resentBy'[e]
       /\ replacedBy[e] \subseteq resentBy'[e]
    BY <1>2, <2>1, <2>2 DEF FbIInv
  <2>5. \A e, x \in Attempts :
         x \in resentBy'[e] => /\ e \in claimed /\ resentBy'[e] = {x} /\ FbOwn(x, e)'
                               /\ reply'[x].stage \in {"resending", "settled"}
    <3> SUFFICES ASSUME NEW e \in Attempts, NEW x \in Attempts, x \in resentBy'[e]
                 PROVE  /\ e \in claimed /\ resentBy'[e] = {x} /\ FbOwn(x, e)'
                        /\ reply'[x].stage \in {"resending", "settled"}
      OBVIOUS
    <3>1. CASE e = f
      BY <1>2, <2>1, <2>2, <2>3, <3>1
    <3>2. CASE e # f
      <4>1. /\ e \in claimed /\ resentBy[e] = {x} /\ FbOwn(x, e)
            /\ reply[x].stage \in {"resending", "settled"}
        BY <2>2, <3>2 DEF FbIInv
      <4> QED BY <2>1, <2>2, <2>3, <3>2, <4>1
    <3> QED BY <3>1, <3>2
  <2>6. /\ reply' \in [Attempts -> [stage : {"idle", "sent", "reading", "resending", "settled"},
                                    entry : Attempts \cup {Nobody}]]
        /\ \A x \in Attempts : x \in shaped => reply'[x].stage # "idle"
        /\ \A x \in Attempts : reply'[x].stage \in {"reading", "resending"} => reply'[x].entry \in Attempts
    BY <1>1, <1>3 DEF FbIInv
  <2> QED BY <1>1, <2>2, <2>4, <2>5, <2>6 DEF FbIInv
<1>4. CASE /\ UNCHANGED resentBy
           /\ reply' = [reply EXCEPT ![z] = [stage |-> "settled", entry |-> Nobody]]
  <2>1. \A e, x \in Attempts : /\ FbReads(x, e)' <=> FbReads(x, e) /\ x # z
                               /\ FbResends(x, e)' <=> FbResends(x, e)
                               /\ FbOwn(x, e)' <=> FbOwn(x, e)
    BY <1>1, <1>4 DEF FbReads, FbResends, FbOwn
  <2>2. reply'[z].stage = "settled" /\ \A x \in Attempts \ {z} : reply'[x] = reply[x]
    BY <1>1, <1>4
  <2>3. \A e, x \in Attempts :
       /\ FbReads(x, e)' => /\ e \in claimed /\ resentBy[e] = {} /\ FbOwn(x, e)'
                            /\ \A y \in Attempts : FbReads(y, e)' => y = x
       /\ FbResends(x, e)' => x \in resentBy[e]
       /\ x \in resentBy[e] => /\ e \in claimed /\ resentBy[e] = {x} /\ FbOwn(x, e)'
                               /\ reply'[x].stage \in {"resending", "settled"}
       /\ replacedBy[e] \subseteq resentBy[e]
    BY <2>1, <2>2 DEF FbIInv
  <2>4. /\ reply' \in [Attempts -> [stage : {"idle", "sent", "reading", "resending", "settled"},
                                    entry : Attempts \cup {Nobody}]]
        /\ \A x \in Attempts : x \in shaped => reply'[x].stage # "idle"
        /\ \A x \in Attempts : reply'[x].stage \in {"reading", "resending"} => reply'[x].entry \in Attempts
    BY <1>1, <1>4 DEF FbIInv
  <2> QED BY <1>1, <1>4, <2>3, <2>4 DEF FbIInv
<1> QED BY <1>0, <1>3, <1>4 DEF FbResend, ReplyGoto

\* The resend answers the response it was made for.
LEMMA FbResentOK ==
  ASSUME FbIInv, NEW z \in Attempts, FbResent(z)
  PROVE  FbIInv'
<1>0. PICK f \in Attempts : f = reply[z].entry
  BY DEF FbIInv, FbResent
<1>1. /\ reply[z].stage = "resending" /\ FbResends(z, f)
      /\ reply' = [reply EXCEPT ![z] = [stage |-> "settled", entry |-> Nobody]]
      /\ UNCHANGED <<shaped, claimed, resentBy>>
      /\ replacedBy' = [replacedBy EXCEPT ![f] = IF f \in Kept THEN @ \cup {z} ELSE @]
  BY <1>0 DEF FbResent, FbResends, ReplyGoto
<1>2. z \in resentBy[f]
  BY <1>1 DEF FbIInv
<1>3. /\ replacedBy' \in [Attempts -> SUBSET Attempts]
      /\ \A e \in Attempts : replacedBy'[e] \subseteq resentBy[e]
  BY <1>1, <1>2 DEF FbIInv
<1>4. \A e, x \in Attempts : /\ FbReads(x, e)' <=> FbReads(x, e)
                             /\ FbResends(x, e)' <=> FbResends(x, e) /\ x # z
                             /\ FbOwn(x, e)' <=> FbOwn(x, e)
  BY <1>1 DEF FbIInv, FbReads, FbResends, FbOwn
<1>5. /\ reply'[z].stage = "settled" /\ \A x \in Attempts \ {z} : reply'[x] = reply[x]
      /\ reply' \in [Attempts -> [stage : {"idle", "sent", "reading", "resending", "settled"},
                                  entry : Attempts \cup {Nobody}]]
  BY <1>1 DEF FbIInv
<1>6. \A e, x \in Attempts :
       /\ FbReads(x, e)' => /\ e \in claimed /\ resentBy[e] = {} /\ FbOwn(x, e)'
                            /\ \A y \in Attempts : FbReads(y, e)' => y = x
       /\ FbResends(x, e)' => x \in resentBy[e]
       /\ x \in resentBy[e] => /\ e \in claimed /\ resentBy[e] = {x} /\ FbOwn(x, e)'
                               /\ reply'[x].stage \in {"resending", "settled"}
  BY <1>4, <1>5 DEF FbIInv
<1> QED BY <1>1, <1>3, <1>5, <1>6 DEF FbIInv

\* Every step keeps the inductive invariant.
LEMMA FbStepOK == FbIInv /\ [FbNext]_fallbackVars => FbIInv'
<1> SUFFICES ASSUME FbIInv, [FbNext]_fallbackVars PROVE FbIInv'
  OBVIOUS
<1>1. ASSUME UNCHANGED <<shaped, claimed, reply, resentBy, replacedBy>>
      PROVE  FbIInv'
  BY <1>1 DEF FbIInv, FbReads, FbResends, FbOwn
<1>2. FbInvalidate \/ FbRefusalAges \/ UNCHANGED fallbackVars
      => UNCHANGED <<shaped, claimed, reply, resentBy, replacedBy>>
  BY DEF FbInvalidate, FbRefusalAges, fallbackVars
<1> QED BY <1>1, <1>2, FbSendOK, FbRespondOK, FbResendOK, FbResentOK DEF FbNext

\* However responses name, replace and lose their requests, a body is sent again
\* at most once and for a response of its own request.
THEOREM FallbacksAreOwn == FbSpec => []FallbackIsOwn
<1>1. FbIInv => FallbackIsOwn
  <2> SUFFICES ASSUME FbIInv, NEW e \in Attempts, NEW x \in resentBy[e]
               PROVE  /\ resentBy[e] = {x} /\ replacedBy[e] \subseteq {x}
                      /\ FbOwn(x, e)
    BY DEF FallbackIsOwn, FbOwn
  <2>1. x \in Attempts
    BY DEF FbIInv
  <2> QED BY <2>1 DEF FbIInv
<1> QED BY <1>1, FbInitOK, FbStepOK, PTL DEF FbSpec

-----------------------------------------------------------------------------
(* The goal of a session (GoalLoop).  What counts is the newest value: the  *)
(* last one queued for the storage, or the stored one.  The goal in memory  *)
(* is that value or absent, and a read that is still wanted will answer it. *)

GoalWriters == Commands \cup {"wake", "tool", "event"}
GoalNewest ==
  IF goalWrites = <<>> THEN goalStore ELSE goalWrites[Len(goalWrites)].value

GoalData ==
  /\ goal \in Goals /\ goalStore \in Goals /\ halted \in BOOLEAN /\ gone \in BOOLEAN
  /\ goalWrites \in Seq([value : Goals, by : GoalWriters])
  /\ goalLoad \in [stage : {"none", "drain", "got"}, behind : Nat, value : Goals]
  /\ goal # NoGoal => GoalNewest = goal
  /\ goalLoad.stage = "drain" => goalLoad.behind = Len(goalWrites)
  /\ goalLoad.stage = "got" => goalWrites = <<>> /\ goalLoad.value = goalStore
  /\ halted => GoalNewest.status # "active"
  /\ gone => GoalNewest = NoGoal /\ halted

Wakes == [stage : {"none", "primary", "saving", "prompting", "failing", "blocking"},
          id : 0 .. MaxGoals]

GoalCalls ==
  /\ command \in [Commands -> [stage : {"idle", "loading", "primary", "saving"},
                               text : {"", "status", "stop", "resume", "new"},
                               held : Goals]]
  /\ gone => \A c \in Commands : Cancelled(c)

GoalFlags ==
  /\ goalTimer \in 0 .. MaxGoals
  /\ goalWake \in Wakes
  /\ handler \in {"idle", "schedule", "receipt"}
  /\ executing \in BOOLEAN /\ running \in BOOLEAN
  /\ goalsSet \in 0 .. MaxGoals

GoalIInv == GoalData /\ GoalCalls /\ GoalFlags

\* A goal is none or a record of a goal that was set.
LEMMA GoalFacts ==
  /\ NoGoal \in Goals /\ NoGoal.status = "none" /\ NoGoal.id = 0
  /\ \A g \in Goals : g.id \in 0 .. MaxGoals /\ (g # NoGoal => g.status # "none")
  /\ \A g \in Goals : g.status \in {"none", "active", "paused", "completed", "blocked"}
  /\ \A id \in 1 .. MaxGoals, n \in 0 .. MaxFailures,
        status \in {"active", "paused", "completed", "blocked"} :
       [id |-> id, status |-> status, failures |-> n] \in Goals \ {NoGoal}
BY GoalAssumption DEF Goals, NoGoal

\* What a save writes: another status, the failures of a good turn, or one more.
LEMMA GoalSaved ==
  ASSUME NEW g \in Goals, g.status # "none"
  PROVE  /\ g \in Goals \ {NoGoal}
         /\ \A status \in {"active", "paused", "completed", "blocked"} :
              /\ [g EXCEPT !.status = status] \in Goals \ {NoGoal}
              /\ [g EXCEPT !.status = status, !.failures = 0] \in Goals \ {NoGoal}
         /\ [g EXCEPT !.failures = 0] \in Goals \ {NoGoal}
         /\ \A final \in BOOLEAN : FailedGoal(g, final) \in Goals \ {NoGoal}
<1> DEFINE Set == [id : 1 .. MaxGoals, failures : 0 .. MaxFailures,
                   status : {"active", "paused", "completed", "blocked"}]
<1>1. g \in Set /\ g.failures \in Nat
  BY GoalAssumption DEF Goals, NoGoal
<1>2. Set \subseteq Goals \ {NoGoal}
  BY DEF Goals, NoGoal
<1>3. 0 \in 0 .. MaxFailures
  BY GoalAssumption
<1>4. ASSUME NEW status \in {"active", "paused", "completed", "blocked"}
      PROVE  /\ [g EXCEPT !.status = status] \in Set
             /\ [g EXCEPT !.status = status, !.failures = 0] \in Set
  BY <1>1, <1>3
<1>5. [g EXCEPT !.failures = 0] \in Set
  BY <1>1, <1>3
<1>6. ASSUME NEW final \in BOOLEAN
      PROVE  FailedGoal(g, final) \in Set
  <2>1. CASE final \/ g.failures + 1 >= MaxFailures
    BY <1>4, <2>1 DEF FailedGoal
  <2>2. CASE ~(final \/ g.failures + 1 >= MaxFailures)
    <3>1. g.failures + 1 \in 0 .. MaxFailures
      BY <1>1, <2>2, GoalAssumption
    <3>2. [g EXCEPT !.failures = @ + 1] \in Set
      BY <1>1, <3>1
    <3> QED BY <2>2, <3>2 DEF FailedGoal
  <2> QED BY <2>1, <2>2
<1> HIDE DEF Set
<1> QED BY <1>1, <1>2, <1>4, <1>5, <1>6

\* A write that is queued is the newest value.
LEMMA GoalQueued ==
  ASSUME GoalData, NEW value \in Goals, NEW by \in GoalWriters, Enqueue(value, by)
  PROVE  /\ goalWrites' \in Seq([value : Goals, by : GoalWriters])
         /\ GoalNewest' = value
<1>1. [value |-> value, by |-> by] \in [value : Goals, by : GoalWriters]
  OBVIOUS
<1>2. goalWrites' = Append(goalWrites, [value |-> value, by |-> by])
  BY DEF Enqueue
<1>3. goalWrites' \in Seq([value : Goals, by : GoalWriters])
  BY <1>1, <1>2 DEF GoalData
<1>4. goalWrites' # <<>> /\ goalWrites'[Len(goalWrites')].value = value
  BY <1>1, <1>2 DEF GoalData
<1> QED BY <1>3, <1>4 DEF GoalNewest

\* A goal in memory is the newest value, so an active one was not halted.
LEMMA GoalStands == GoalData /\ Active => ~halted /\ ~gone
BY GoalFacts DEF GoalData, Active

\* What is stored becomes the goal in memory and the newest one.
LEMMA GoalStoreOK ==
  ASSUME GoalData, ~gone, NEW value \in Goals \ {NoGoal}, NEW by \in GoalWriters,
         Store(value, by), halted' \in BOOLEAN, halted' => value.status # "active",
         UNCHANGED <<goalStore, gone>>
  PROVE  GoalData'
<1>1. /\ goalWrites' \in Seq([value : Goals, by : GoalWriters])
      /\ GoalNewest' = value
  BY GoalQueued DEF Store
<1>2. goalLoad' = NoLoad /\ goal' = value
  BY DEF Store
<1>3. NoLoad \in [stage : {"none", "drain", "got"}, behind : Nat, value : Goals] /\ NoLoad.stage = "none"
  BY GoalFacts DEF NoLoad
<1> QED BY <1>1, <1>2, <1>3 DEF GoalData

\* A save of anything but a /goal command is of a goal that was not halted, or halts.
LEMMA GoalSaveOK ==
  ASSUME GoalData, ~gone, NEW value \in Goals \ {NoGoal}, NEW by \in GoalWriters,
         Active \/ value.status # "active",
         Save(value, by), UNCHANGED <<goalStore, gone>>
  PROVE  GoalData'
<1>1. Active => ~halted
  BY GoalStands
<1>2. Store(value, by) /\ halted' = (halted \/ value.status # "active")
  BY DEF Save
<1>3. halted' \in BOOLEAN
  BY <1>2
<1>4. halted' => value.status # "active"
  BY <1>1, <1>2
<1> QED BY <1>2, <1>3, <1>4, GoalStoreOK

\* A command sets or resumes a goal.
LEMMA GoalTakeUpOK ==
  ASSUME GoalData, ~gone, NEW value \in Goals \ {NoGoal}, NEW by \in GoalWriters,
         TakeUp(value, by), UNCHANGED <<goalStore, gone>>
  PROVE  GoalData'
<1>1. Store(value, by) /\ halted' = FALSE
  BY DEF TakeUp
<1> QED BY <1>1, GoalStoreOK

\* A read that starts, or is dropped, leaves the newest value alone.
LEMMA GoalLoadOK ==
  ASSUME GoalData, goalLoad' \in {goalLoad, NewLoad, NoLoad},
         UNCHANGED <<goal, goalStore, goalWrites, halted, gone>>
  PROVE  GoalData'
<1>1. GoalNewest' = GoalNewest
  BY DEF GoalNewest
<1>2. Len(goalWrites) \in Nat
  BY DEF GoalData
<1>3. /\ NoLoad \in [stage : {"none", "drain", "got"}, behind : Nat, value : Goals]
      /\ NoLoad.stage = "none"
      /\ NewLoad \in [stage : {"none", "drain", "got"}, behind : Nat, value : Goals]
      /\ NewLoad.stage = "drain" /\ NewLoad.behind = Len(goalWrites)
  BY <1>2, GoalFacts DEF NoLoad, NewLoad
<1> QED BY <1>1, <1>3 DEF GoalData

\* The oldest write reaches the store: the newest value stays what it was.
LEMMA GoalWriteOK == GoalData /\ GoalWriteDone => GoalData'
<1> SUFFICES ASSUME GoalData, GoalWriteDone PROVE GoalData'
  OBVIOUS
<1> DEFINE Writes == [value : Goals, by : GoalWriters]
<1>1. goalWrites \in Seq(Writes) /\ goalWrites # <<>>
  BY DEF GoalData, GoalWriteDone
<1>2. /\ Head(goalWrites) \in Writes /\ Tail(goalWrites) \in Seq(Writes)
      /\ Len(Tail(goalWrites)) = Len(goalWrites) - 1
      /\ Len(goalWrites) \in Nat \ {0}
      /\ \A i \in 1 .. Len(Tail(goalWrites)) : Tail(goalWrites)[i] = goalWrites[i + 1]
  BY <1>1, HeadTailProperties, EmptySeq, LenProperties
<1>3. goalWrites' = Tail(goalWrites) /\ goalStore' = Head(goalWrites).value
  BY DEF GoalWriteDone
<1>4. GoalNewest' = GoalNewest
  <2>1. CASE Len(goalWrites) = 1
    <3>1. Len(Tail(goalWrites)) = 0
      BY <1>2, <2>1
    <3>2. Tail(goalWrites) = <<>>
      BY <1>2, <3>1, EmptySeq
    <3>3. Head(goalWrites) = goalWrites[Len(goalWrites)]
      BY <1>1, <2>1
    <3> QED BY <1>1, <1>3, <3>2, <3>3 DEF GoalNewest
  <2>2. CASE Len(goalWrites) # 1
    <3>1. Len(Tail(goalWrites)) \in 1 .. Len(Tail(goalWrites)) /\ Len(Tail(goalWrites)) # 0
      BY <1>2, <2>2
    <3>2. Tail(goalWrites)[Len(Tail(goalWrites))] = goalWrites[Len(goalWrites)]
      BY <1>2, <3>1
    <3>3. Tail(goalWrites) # <<>>
      BY <1>2, <3>1, EmptySeq
    <3> QED BY <1>1, <1>3, <3>2, <3>3 DEF GoalNewest
  <2> QED BY <2>1, <2>2
<1>5. goalLoad.stage # "got"
  BY <1>1 DEF GoalData
<1>6. /\ goalLoad' \in [stage : {"none", "drain", "got"}, behind : Nat, value : Goals]
      /\ goalLoad'.stage = goalLoad.stage
      /\ goalLoad'.stage = "drain" => goalLoad'.behind = Len(goalWrites')
  <2>1. CASE goalLoad.stage = "drain"
    <3>1. goalLoad.behind = Len(goalWrites) /\ goalLoad.behind > 0
      BY <1>2, <2>1 DEF GoalData
    <3>2. goalLoad' = [goalLoad EXCEPT !.behind = @ - 1]
      BY <2>1, <3>1 DEF GoalWriteDone
    <3> QED BY <1>2, <1>3, <3>1, <3>2 DEF GoalData
  <2>2. CASE goalLoad.stage # "drain"
    BY <2>2 DEF GoalData, GoalWriteDone
  <2> QED BY <2>1, <2>2
<1>7. goal' = goal /\ halted' = halted /\ gone' = gone /\ goalStore' \in Goals
  BY <1>2, <1>3 DEF GoalWriteDone
<1> QED BY <1>2, <1>3, <1>4, <1>5, <1>6, <1>7 DEF GoalData

\* The read answers the newest value, and brings it into memory if none is there.
LEMMA GoalReadOK == GoalData /\ (GoalRead \/ GoalLoaded \/ GoalEvict) => GoalData'
<1>1. ASSUME GoalData, GoalRead PROVE GoalData'
  <2>1. goalWrites = <<>>
    BY <1>1, EmptySeq DEF GoalData, GoalRead
  <2>2. GoalNewest' = GoalNewest
    BY <1>1 DEF GoalRead, GoalNewest
  <2>3. /\ goalLoad' \in [stage : {"none", "drain", "got"}, behind : Nat, value : Goals]
        /\ goalLoad'.stage = "got" /\ goalLoad'.value = goalStore
    BY <1>1 DEF GoalData, GoalRead
  <2> QED BY <1>1, <2>1, <2>2, <2>3 DEF GoalData, GoalRead
<1>2. ASSUME GoalData, GoalLoaded PROVE GoalData'
  <2>1. goalWrites = <<>> /\ goalLoad.value = goalStore /\ GoalNewest = goalStore
    BY <1>2 DEF GoalData, GoalLoaded, GoalNewest
  <2>2. GoalNewest' = GoalNewest
    BY <1>2 DEF GoalLoaded, GoalNewest
  <2>3. goal' \in {goal, goalStore} /\ (goal' # NoGoal => GoalNewest = goal')
    BY <1>2, <2>1 DEF GoalData, GoalLoaded
  <2>4. /\ NoLoad \in [stage : {"none", "drain", "got"}, behind : Nat, value : Goals]
        /\ NoLoad.stage = "none"
    BY GoalFacts DEF NoLoad
  <2> QED BY <1>2, <2>1, <2>2, <2>3, <2>4 DEF GoalData, GoalLoaded
<1>3. ASSUME GoalData, GoalEvict PROVE GoalData'
  <2>1. GoalNewest' = GoalNewest
    BY <1>3 DEF GoalEvict, GoalNewest
  <2> QED BY <1>3, <2>1, GoalFacts DEF GoalData, GoalEvict
<1> QED BY <1>1, <1>2, <1>3

\* A session that is deleted leaves nothing in memory and its removal queued last.
LEMMA GoalDeletedOK == GoalData /\ GoalDeleted => GoalData'
<1> SUFFICES ASSUME GoalData, GoalDeleted PROVE GoalData'
  OBVIOUS
<1>1. /\ goalWrites' \in Seq([value : Goals, by : GoalWriters])
      /\ GoalNewest' = NoGoal
  BY GoalQueued, GoalFacts DEF GoalDeleted, GoalWriters
<1>2. /\ NoLoad \in [stage : {"none", "drain", "got"}, behind : Nat, value : Goals]
      /\ NoLoad.stage = "none"
  BY GoalFacts DEF NoLoad
<1> QED BY <1>1, <1>2, GoalFacts DEF GoalData, GoalDeleted

\* A restart takes an active goal from the store, where nothing is queued behind it.
LEMMA GoalRestartOK == GoalData /\ GoalRestart => GoalData'
<1> SUFFICES ASSUME GoalData, GoalRestart PROVE GoalData'
  OBVIOUS
<1>1. GoalNewest' = GoalNewest /\ GoalNewest = goalStore
  BY DEF GoalRestart, GoalNewest
<1>2. /\ NoLoad \in [stage : {"none", "drain", "got"}, behind : Nat, value : Goals]
      /\ NoLoad.stage = "none"
  BY GoalFacts DEF NoLoad
<1> QED BY <1>1, <1>2, GoalFacts DEF GoalData, GoalRestart

\* The calls a step leaves behind keep their types, and stay cancelled with the session.
LEMMA GoalCallsOK ==
  ASSUME GoalCalls, NEW c \in Commands
  PROVE  /\ command' \in {command, CancelAll} /\ gone' = gone => GoalCalls'
         /\ command' = CancelAll => GoalCalls'
         /\ CommandEnds(c) /\ gone' = gone => GoalCalls'
         /\ \A stage \in {"loading", "primary", "saving"}, held \in Goals :
              CommandGoto(c, stage, held) /\ gone' = gone => GoalCalls'
<1> DEFINE Calls == [stage : {"idle", "loading", "primary", "saving"},
                     text : {"", "status", "stop", "resume", "new"}, held : Goals]
<1>1. /\ CancelAll \in [Commands -> Calls]
      /\ \A d \in Commands : CancelAll[d].text = ""
  BY ZenonT(40), GoalFacts DEF CancelAll, GoalCalls
<1>2. IdleCommand.text = "" /\ IdleCommand \in Calls
  BY GoalFacts DEF IdleCommand
<1>3. ASSUME NEW call \in Calls, call.text \in {"", command[c].text},
             command' = [command EXCEPT ![c] = call], gone' = gone
      PROVE  GoalCalls'
  <2>1. command' \in [Commands -> Calls]
    BY <1>3 DEF GoalCalls
  <2>2. ASSUME gone, NEW d \in Commands
        PROVE  command'[d].text = ""
    BY <1>3, <2>2 DEF GoalCalls, Cancelled
  <2> QED BY <1>3, <2>1, <2>2 DEF GoalCalls, Cancelled
<1>4. CommandEnds(c) /\ gone' = gone => GoalCalls'
  BY <1>2, <1>3 DEF CommandEnds
<1>5. ASSUME NEW stage \in {"loading", "primary", "saving"}, NEW held \in Goals,
             CommandGoto(c, stage, held), gone' = gone
      PROVE  GoalCalls'
  <2>1. /\ [command[c] EXCEPT !.stage = stage, !.held = held] \in Calls
        /\ [command[c] EXCEPT !.stage = stage, !.held = held].text = command[c].text
    BY DEF GoalCalls
  <2>2. command' = [command EXCEPT ![c] = [command[c] EXCEPT !.stage = stage, !.held = held]]
    BY <1>5 DEF CommandGoto
  <2> QED BY <1>3, <1>5, <2>1, <2>2
<1>6. command' \in {command, CancelAll} /\ gone' = gone => GoalCalls'
  <2>1. ASSUME command' = command, gone' = gone
        PROVE  GoalCalls'
    BY <2>1 DEF GoalCalls, Cancelled
  <2>2. command' = CancelAll => GoalCalls'
    BY <1>1 DEF GoalCalls, Cancelled
  <2> QED BY <2>1, <2>2
<1>7. command' = CancelAll => GoalCalls'
  BY <1>1 DEF GoalCalls, Cancelled
<1> QED BY <1>4, <1>5, <1>6, <1>7

\* No goal and no call at first.
LEMMA GoalInitOK == GoalInit => GoalIInv
<1> SUFFICES ASSUME GoalInit PROVE GoalIInv
  OBVIOUS
<1>1. GoalData
  <2>1. GoalNewest = NoGoal
    BY DEF GoalInit, GoalNewest
  <2>2. NoLoad \in [stage : {"none", "drain", "got"}, behind : Nat, value : Goals] /\ NoLoad.stage = "none"
    BY GoalFacts DEF NoLoad
  <2>3. goalWrites \in Seq([value : Goals, by : GoalWriters])
    BY EmptySeq DEF GoalInit
  <2> QED BY <2>1, <2>2, <2>3, GoalFacts DEF GoalInit, GoalData, NoGoal
<1>2. GoalCalls
  BY GoalFacts DEF GoalInit, GoalCalls, IdleCommand
<1>3. GoalFlags
  <2>1. 0 \in 0 .. MaxGoals
    BY GoalAssumption
  <2>2. goalWake \in Wakes
    BY <2>1 DEF GoalInit, NoWake, Wakes
  <2> QED BY <2>1, <2>2 DEF GoalInit, GoalFlags
<1> QED BY <1>1, <1>2, <1>3 DEF GoalIInv

\* A timer is set for the goal in memory.
LEMMA GoalScheduled ==
  ASSUME GoalData, GoalFlags
  PROVE  Scheduled(goal) \in 0 .. MaxGoals /\ goal.id \in 0 .. MaxGoals /\ 0 \in 0 .. MaxGoals
BY GoalFacts, GoalAssumption DEF GoalData, GoalFlags, Scheduled

\* The steps that only move reads and writes.
LEMMA GoalStorageOK ==
  GoalIInv /\ (GoalWriteDone \/ GoalRead \/ GoalLoaded \/ GoalGet \/ GoalEvict) => GoalIInv'
<1> SUFFICES ASSUME GoalIInv,
                    GoalWriteDone \/ GoalRead \/ GoalLoaded \/ GoalGet \/ GoalEvict
             PROVE  GoalIInv'
  OBVIOUS
<1>1. UNCHANGED <<command, goalTimer, goalWake, handler, executing, running, goalsSet, gone>>
  BY DEF GoalWriteDone, GoalRead, GoalLoaded, GoalGet, GoalEvict
<1>2. GoalCalls' /\ GoalFlags'
  BY <1>1 DEF GoalIInv, GoalCalls, GoalFlags, Cancelled
<1>3. GoalGet => GoalData'
  BY GoalLoadOK DEF GoalIInv, GoalGet
<1> QED BY <1>2, <1>3, GoalWriteOK, GoalReadOK DEF GoalIInv

\* A command starts, and invalidates the others.
LEMMA GoalCommandOK ==
  ASSUME GoalIInv, NEW c \in Commands, NEW request \in {"status", "stop", "resume", "new"},
         GoalCommand(c, request)
  PROVE  GoalIInv'
<1>1. GoalData'
  BY GoalLoadOK DEF GoalIInv, GoalCommand
<1>2. GoalCalls'
  <2>1. CancelAll \in [Commands -> [stage : {"idle", "loading", "primary", "saving"},
                                    text : {"", "status", "stop", "resume", "new"},
                                    held : Goals]]
    BY ZenonT(40), GoalFacts DEF CancelAll, GoalIInv, GoalCalls
  <2> QED BY <2>1, GoalFacts DEF GoalIInv, GoalCalls, GoalCommand
<1>3. GoalFlags'
  BY DEF GoalIInv, GoalFlags, GoalCommand
<1> QED BY <1>1, <1>2, <1>3 DEF GoalIInv

\* The goal is there: a stop saves it as paused.
LEMMA GoalCommandLoadedOK ==
  ASSUME GoalIInv, NEW c \in Commands, GoalCommandLoaded(c)
  PROVE  GoalIInv'
<1>1. GoalFlags'
  BY GoalAssumption DEF GoalIInv, GoalFlags, GoalCommandLoaded
<1>2. gone => Cancelled(c)
  BY DEF GoalIInv, GoalCalls
<1>3. goal \in Goals /\ c \in GoalWriters
  BY DEF GoalIInv, GoalData, GoalWriters
<1>4. GoalCalls'
  <2>1. CommandEnds(c) \/ CommandGoto(c, "saving", NoGoal) \/ CommandGoto(c, "primary", goal)
    BY DEF GoalCommandLoaded
  <2>2. gone' = gone
    BY DEF GoalCommandLoaded
  <2> QED BY <1>3, <2>1, <2>2, GoalCallsOK, GoalFacts DEF GoalIInv
<1>5. GoalData'
  <2>1. CASE UNCHANGED <<goal, goalWrites, goalLoad, halted>>
    BY <2>1, GoalLoadOK DEF GoalIInv, GoalCommandLoaded
  <2>2. CASE ~UNCHANGED <<goal, goalWrites, goalLoad, halted>>
    <3>1. /\ ~Cancelled(c) /\ goal.status \notin {"none", "completed"}
          /\ Save([goal EXCEPT !.status = "paused"], c)
      BY <2>2 DEF GoalCommandLoaded
    <3>2. [goal EXCEPT !.status = "paused"] \in Goals \ {NoGoal}
      BY <1>3, <3>1, GoalSaved
    <3>3. [goal EXCEPT !.status = "paused"].status # "active"
      BY <1>3, <3>1, GoalFacts DEF Goals, NoGoal
    <3> QED BY <1>2, <1>3, <3>1, <3>2, <3>3, GoalSaveOK DEF GoalIInv, GoalCommandLoaded
  <2> QED BY <2>1, <2>2
<1> QED BY <1>1, <1>4, <1>5 DEF GoalIInv

\* A new goal, or the held one resumed, unless the command was cancelled.
LEMMA GoalCommandPrimaryOK ==
  ASSUME GoalIInv, NEW c \in Commands, GoalCommandPrimary(c)
  PROVE  GoalIInv'
<1> DEFINE held == IF goal # NoGoal THEN goal ELSE command[c].held
<1>1. held \in Goals /\ c \in GoalWriters /\ (gone => Cancelled(c))
  BY DEF GoalIInv, GoalData, GoalCalls, GoalWriters
<1>2. UNCHANGED <<goalStore, goalWake, handler, executing, running, gone>>
  BY DEF GoalCommandPrimary
<1>3. CASE CommandEnds(c) /\ UNCHANGED <<goal, goalWrites, goalLoad, goalTimer, goalsSet, halted>>
  BY <1>2, <1>3, GoalCallsOK, GoalLoadOK DEF GoalIInv, GoalFlags
<1>4. CASE /\ ~Cancelled(c) /\ held.status \notin {"none", "completed"}
           /\ TakeUp([held EXCEPT !.status = "active", !.failures = 0], c)
           /\ UNCHANGED goalsSet /\ goalTimer' = 0 /\ CommandGoto(c, "saving", NoGoal)
  <2>1. [held EXCEPT !.status = "active", !.failures = 0] \in Goals \ {NoGoal}
    BY <1>1, <1>4, GoalSaved
  <2>2. GoalData'
    BY <1>1, <1>2, <1>4, <2>1, GoalTakeUpOK DEF GoalIInv
  <2>3. GoalCalls' /\ GoalFlags'
    BY <1>2, <1>4, GoalCallsOK, GoalFacts, GoalAssumption DEF GoalIInv, GoalFlags
  <2> QED BY <2>2, <2>3 DEF GoalIInv
<1>5. CASE /\ ~Cancelled(c) /\ goalsSet < MaxGoals /\ goalsSet' = goalsSet + 1
           /\ TakeUp([id |-> goalsSet + 1, status |-> "active", failures |-> 0], c)
           /\ goalTimer' = 0 /\ CommandGoto(c, "saving", NoGoal)
  <2>1. goalsSet + 1 \in 1 .. MaxGoals /\ 0 \in 0 .. MaxFailures
    BY <1>5, GoalAssumption DEF GoalIInv, GoalFlags
  <2>2. [id |-> goalsSet + 1, status |-> "active", failures |-> 0] \in Goals \ {NoGoal}
    BY <2>1, GoalFacts
  <2>3. GoalData'
    BY <1>1, <1>2, <1>5, <2>2, GoalTakeUpOK DEF GoalIInv
  <2>4. GoalCalls' /\ GoalFlags'
    BY <1>2, <1>5, <2>1, GoalCallsOK, GoalFacts, GoalAssumption DEF GoalIInv, GoalFlags
  <2> QED BY <2>3, <2>4 DEF GoalIInv
<1> QED BY <1>3, <1>4, <1>5 DEF GoalCommandPrimary

\* The save of a command is done.
LEMMA GoalCommandSavedOK ==
  ASSUME GoalIInv, NEW c \in Commands, GoalCommandSaved(c)
  PROVE  GoalIInv'
<1>1. GoalData' /\ GoalCalls'
  BY GoalLoadOK, GoalCallsOK DEF GoalIInv, GoalCommandSaved
<1>2. goalTimer' \in 0 .. MaxGoals
  BY GoalScheduled DEF GoalIInv, GoalFlags, GoalCommandSaved
<1> QED BY <1>1, <1>2 DEF GoalIInv, GoalFlags, GoalCommandSaved

\* The wake saves the goal it was for, or one more failure of it.
LEMMA GoalWakeOK ==
  ASSUME GoalIInv,
         \/ GoalTimerFires \/ GoalWakePrimary \/ GoalWakePrompt \/ GoalWakeAnswer
         \/ GoalWakeFailed
  PROVE  GoalIInv'
<1>1. UNCHANGED <<goalStore, command, handler, running, goalsSet, gone>>
  BY DEF GoalTimerFires, GoalWakePrimary, GoalWakePrompt, GoalWakeAnswer, GoalWakeFailed
<1>2. GoalCalls'
  BY <1>1 DEF GoalIInv, GoalCalls, Cancelled
<1>3. NoWake \in Wakes /\ goalWake \in Wakes
  BY GoalAssumption DEF NoWake, Wakes, GoalIInv, GoalFlags
<1>4. \A stage \in {"primary", "saving", "prompting", "failing", "blocking"} :
        [goalWake EXCEPT !.stage = stage] \in Wakes
  BY <1>3 DEF Wakes
<1>5. [stage |-> "primary", id |-> goal.id] \in Wakes
  BY GoalScheduled DEF GoalIInv, Wakes
<1>6. GoalFlags'
  <2>1. goalTimer' \in {goalTimer, 0, goal.id, Scheduled(goal)}
    BY DEF GoalTimerFires, GoalWakePrimary, GoalWakePrompt, GoalWakeAnswer, GoalWakeFailed,
      WakeRejected, WakeEnds
  <2>2. goalWake' \in Wakes
    BY <1>3, <1>4, <1>5 DEF GoalTimerFires, GoalWakePrimary, GoalWakePrompt, GoalWakeAnswer,
      GoalWakeFailed, WakeRejected, WakeEnds
  <2>3. executing' \in {executing, TRUE}
    BY DEF GoalTimerFires, GoalWakePrimary, GoalWakePrompt, GoalWakeAnswer, GoalWakeFailed
  <2> QED BY <1>1, <2>1, <2>2, <2>3, GoalScheduled DEF GoalIInv, GoalFlags
<1>7. GoalData'
  <2>1. CASE UNCHANGED <<goal, goalWrites, goalLoad, halted>>
    BY <1>1, <2>1, GoalLoadOK DEF GoalIInv
  <2>2. CASE ~UNCHANGED <<goal, goalWrites, goalLoad, halted>>
    <3>1. /\ Active
          /\ \/ Save(goal, "wake")
             \/ \E final \in BOOLEAN : Save(FailedGoal(goal, final), "wake")
      BY <2>2 DEF GoalTimerFires, GoalWakePrimary, GoalWakePrompt, GoalWakeAnswer,
        GoalWakeFailed, WakeRejected, WakeEnds, StillWoken
    <3>2. goal \in Goals \ {NoGoal} /\ \A final \in BOOLEAN : FailedGoal(goal, final) \in Goals \ {NoGoal}
      BY <3>1, GoalSaved DEF Active, GoalIInv, GoalData
    <3>3. ~gone
      BY <3>1, GoalStands DEF GoalIInv
    <3> QED BY <1>1, <3>1, <3>2, <3>3, GoalSaveOK DEF GoalIInv, GoalWriters
  <2> QED BY <2>1, <2>2
<1> QED BY <1>2, <1>6, <1>7 DEF GoalIInv

\* Whatever saves the goal in memory saves a goal of a session that is there.
LEMMA GoalActiveSaves ==
  ASSUME GoalIInv, Active,
         \/ \E status \in {"active", "paused", "completed", "blocked"} :
              \/ Save([goal EXCEPT !.status = status], "event")
              \/ Save([goal EXCEPT !.status = status, !.failures = 0], "tool")
         \/ Save([goal EXCEPT !.failures = 0], "event")
         \/ \E final \in BOOLEAN : Save(FailedGoal(goal, final), "event"),
         UNCHANGED <<goalStore, gone>>
  PROVE  GoalData'
<1>1. /\ goal \in Goals \ {NoGoal}
      /\ \A status \in {"active", "paused", "completed", "blocked"} :
           /\ [goal EXCEPT !.status = status] \in Goals \ {NoGoal}
           /\ [goal EXCEPT !.status = status, !.failures = 0] \in Goals \ {NoGoal}
      /\ [goal EXCEPT !.failures = 0] \in Goals \ {NoGoal}
      /\ \A final \in BOOLEAN : FailedGoal(goal, final) \in Goals \ {NoGoal}
  BY GoalSaved DEF Active, GoalIInv, GoalData
<1>2. ~gone
  BY <1>1 DEF GoalIInv, GoalData
<1>3. "event" \in GoalWriters /\ "tool" \in GoalWriters
  BY DEF GoalWriters
<1> QED BY <1>1, <1>2, <1>3, GoalSaveOK DEF GoalIInv

\* The tool and the events of the session.
LEMMA GoalEventsOK ==
  ASSUME GoalIInv,
         \/ GoalUpdate \/ GoalStarted \/ GoalUserMessage \/ GoalMoved \/ GoalDeleted
         \/ GoalHandled \/ GoalRestart
         \/ \E how \in {"succeeded", "failed", "denied", "interrupted", "shutdown"} :
              GoalTurnEnds(how)
  PROVE  GoalIInv'
<1>1. ASSUME GoalUpdate PROVE GoalIInv'
  <2>1. GoalData'
    <3>1. PICK status \in {"active", "completed", "blocked"} :
            Save([goal EXCEPT !.status = status, !.failures = 0], "tool")
      BY <1>1 DEF GoalUpdate
    <3> QED BY <1>1, <3>1, GoalActiveSaves DEF GoalUpdate
  <2>2. GoalCalls' /\ GoalFlags'
    <3>1. UNCHANGED <<command, goalWake, handler, executing, running, goalsSet, gone>>
      BY <1>1 DEF GoalUpdate
    <3>2. goalTimer' \in 0 .. MaxGoals
      BY <1>1, GoalScheduled DEF GoalUpdate, GoalIInv
    <3>3. GoalFlags'
      BY <3>1, <3>2 DEF GoalIInv, GoalFlags
    <3> QED BY <3>1, <3>3 DEF GoalIInv, GoalCalls, Cancelled
  <2> QED BY <2>1, <2>2 DEF GoalIInv
<1>2. ASSUME GoalStarted \/ GoalUserMessage \/ GoalHandled PROVE GoalIInv'
  <2>1. GoalData'
    BY <1>2, GoalLoadOK DEF GoalIInv, GoalStarted, GoalUserMessage, GoalHandled
  <2>2. GoalCalls'
    <3>1. UNCHANGED <<command, gone>>
      BY <1>2 DEF GoalStarted, GoalUserMessage, GoalHandled
    <3> QED BY <3>1 DEF GoalIInv, GoalCalls, Cancelled
  <2>3. GoalFlags'
    BY <1>2, GoalScheduled DEF GoalIInv, GoalFlags, GoalStarted, GoalUserMessage, GoalHandled, Active
  <2> QED BY <2>1, <2>2, <2>3 DEF GoalIInv
<1>3. ASSUME GoalMoved PROVE GoalIInv'
  <2>1. GoalData'
    <3>1. CASE Active
      BY <1>3, <3>1, GoalActiveSaves DEF GoalMoved
    <3>2. CASE ~Active
      BY <1>3, <3>2, GoalLoadOK DEF GoalMoved, GoalIInv
    <3> QED BY <3>1, <3>2
  <2>2. GoalCalls'
    <3>1. CASE Commands = {}
      BY <1>3, <3>1 DEF GoalMoved, GoalIInv, GoalCalls, CancelAll
    <3>2. CASE Commands # {}
      BY <1>3, <3>2, GoalCallsOK DEF GoalMoved, GoalIInv
    <3> QED BY <3>1, <3>2
  <2>3. GoalFlags'
    BY <1>3, GoalAssumption DEF GoalMoved, GoalIInv, GoalFlags
  <2> QED BY <2>1, <2>2, <2>3 DEF GoalIInv
<1>4. ASSUME GoalDeleted PROVE GoalIInv'
  <2>1. GoalData'
    BY <1>4, GoalDeletedOK DEF GoalIInv
  <2>2. GoalCalls'
    <3>1. CASE Commands = {}
      BY <1>4, <3>1 DEF GoalDeleted, GoalIInv, GoalCalls, CancelAll
    <3>2. CASE Commands # {}
      BY <1>4, <3>2, GoalCallsOK DEF GoalDeleted, GoalIInv
    <3> QED BY <3>1, <3>2
  <2>3. GoalFlags'
    <3>1. /\ goalTimer' = 0 /\ running' = FALSE /\ executing' = FALSE
          /\ handler' = "receipt" /\ UNCHANGED <<goalWake, goalsSet>>
      BY <1>4 DEF GoalDeleted
    <3> QED BY <3>1, GoalScheduled DEF GoalIInv, GoalFlags
  <2> QED BY <2>1, <2>2, <2>3 DEF GoalIInv
<1>5. ASSUME GoalRestart PROVE GoalIInv'
  <2>1. GoalData'
    BY <1>5, GoalRestartOK DEF GoalIInv
  <2>2. GoalCalls'
    BY <1>5, GoalFacts DEF GoalRestart, GoalIInv, GoalCalls, IdleCommand, Cancelled
  <2>3. GoalFlags'
    BY <1>5, GoalFacts, GoalAssumption DEF GoalRestart, GoalIInv, GoalFlags, NoWake, Wakes, GoalData
  <2> QED BY <2>1, <2>2, <2>3 DEF GoalIInv
<1>6. ASSUME NEW how \in {"succeeded", "failed", "denied", "interrupted", "shutdown"},
             GoalTurnEnds(how)
      PROVE  GoalIInv'
  <2>1. GoalData'
    <3>1. CASE UNCHANGED <<goal, goalWrites, goalLoad, halted>>
      BY <1>6, <3>1, GoalLoadOK DEF GoalTurnEnds, GoalIInv
    <3>2. CASE ~UNCHANGED <<goal, goalWrites, goalLoad, halted>>
      <4>1. /\ Active
            /\ \/ Save([goal EXCEPT !.failures = 0], "event")
               \/ Save(FailedGoal(goal, how = "denied"), "event")
               \/ Save([goal EXCEPT !.status = "paused"], "event")
        BY <1>6, <3>2 DEF GoalTurnEnds
      <4>2. UNCHANGED <<goalStore, gone>>
        BY <1>6 DEF GoalTurnEnds
      <4>3. (how = "denied") \in BOOLEAN
        OBVIOUS
      <4> QED BY <4>1, <4>2, <4>3, GoalActiveSaves
    <3> QED BY <3>1, <3>2
  <2>2. GoalCalls'
    BY <1>6 DEF GoalTurnEnds, GoalIInv, GoalCalls, Cancelled
  <2>3. GoalFlags'
    <3>1. /\ executing' = FALSE /\ running' = FALSE /\ UNCHANGED <<goalWake, goalsSet>>
          /\ handler' \in {handler, "schedule", "receipt"} /\ goalTimer' \in {goalTimer, 0}
      BY <1>6 DEF GoalTurnEnds
    <3> QED BY <3>1, GoalScheduled DEF GoalIInv, GoalFlags
  <2> QED BY <2>1, <2>2, <2>3 DEF GoalIInv
<1> QED BY <1>1, <1>2, <1>3, <1>4, <1>5, <1>6

\* The invariant is inductive.
LEMMA GoalStepOK == GoalIInv /\ [GoalNext]_goalVars => GoalIInv'
<1> SUFFICES ASSUME GoalIInv, [GoalNext]_goalVars PROVE GoalIInv'
  OBVIOUS
<1>1. ASSUME UNCHANGED goalVars PROVE GoalIInv'
  BY ZenonT(40), <1>1 DEF goalVars, GoalIInv, GoalData, GoalCalls, GoalFlags, GoalNewest, Cancelled
<1>2. ASSUME GoalNext PROVE GoalIInv'
  BY <1>2, GoalStorageOK, GoalCommandOK, GoalCommandLoadedOK, GoalCommandPrimaryOK,
    GoalCommandSavedOK, GoalWakeOK, GoalEventsOK DEF GoalNext
<1> QED BY <1>1, <1>2

\* The plugin's maps hold values of their types, for every set of commands.
THEOREM GoalTypes == GoalSpec => []GoalTypeOK
<1>1. GoalIInv => GoalTypeOK
  <2>1. GoalData => \A i \in 1 .. Len(goalWrites) : goalWrites[i].value \in Goals
    <3>1. GoalData => \A i \in 1 .. Len(goalWrites) :
                        goalWrites[i] \in [value : Goals, by : GoalWriters]
      BY ElementOfSeq DEF GoalData
    <3> QED BY <3>1
  <2> QED BY <2>1 DEF GoalIInv, GoalData, GoalCalls, GoalFlags, Wakes, GoalTypeOK
<1> QED BY <1>1, GoalInitOK, GoalStepOK, PTL DEF GoalSpec

\* A halted goal stays halted until a /goal command takes one up, and the store
\* agrees once its queue is empty: for every set of commands and every number of
\* goals, failures and queued writes.
THEOREM HaltsStand == GoalSpec => []HaltStands
<1>1. GoalIInv => HaltStands
  BY GoalFacts DEF GoalIInv, GoalData, HaltStands, Active, GoalNewest
<1> QED BY <1>1, GoalInitOK, GoalStepOK, PTL DEF GoalSpec

-----------------------------------------------------------------------------
(* The prompts of a chat (PromptQueue).  A prompt is in the composer, in    *)
(* the queue, under way or dropped, in one of them at most and once; under  *)
(* way it is unserved until the server takes it.                            *)

RunRecs == [on : BOOLEAN, optimistic : BOOLEAN, old : BOOLEAN]
PromptFlights == [prompt : Prompts, queue : BOOLEAN, taken : BOOLEAN, before : RunRecs]
InQueue == ToSet(queued)
Flying == {f.prompt : f \in sending}
Unserved == {f.prompt : f \in {g \in sending : ~g.taken}}

OneFlight == \A f, g \in sending : f.prompt = g.prompt => f = g
QueuedOnce == \A i, j \in 1 .. Len(queued) : queued[i] = queued[j] => i = j

PromptPlaced ==
  /\ composer \cap InQueue = {} /\ composer \cap Flying = {} /\ composer \cap dropped = {}
  /\ InQueue \cap Flying = {} /\ InQueue \cap dropped = {} /\ Flying \cap dropped = {}
  /\ Flying \subseteq Unserved \cup accepted
  /\ \A p \in Prompts \ unsure :
       p \in accepted <=> p \notin composer \cup InQueue \cup Unserved \cup dropped
  /\ doubled \subseteq unsure /\ unsure \subseteq accepted

PromptFlow ==
  /\ sending \subseteq PromptFlights /\ chatRuns \in RunRecs /\ queued \in Seq(Prompts)
  /\ OneFlight /\ QueuedOnce

PromptRuns ==
  /\ statusRead \in {"none", "asked", "active", "idle", "crossed"}
  /\ statusRead = "idle" => sending = {} /\ working # "ours"
  /\ cut = FALSE

PromptSets ==
  /\ accepted \subseteq Prompts /\ doubled \subseteq Prompts /\ composer \subseteq Prompts
  /\ dropped \subseteq Prompts /\ unsure \subseteq Prompts

PromptEvents ==
  /\ working \in {"no", "ours", "other"} /\ failures \in 0 .. MaxFailed
  /\ signals \in Seq({"started", "ended"}) /\ here \in BOOLEAN

PromptIInv == PromptPlaced /\ PromptFlow /\ PromptRuns /\ PromptSets /\ PromptEvents

\* A prompt that is sent is one more flight.
LEMMA FlightAdded ==
  ASSUME PromptFlow, NEW f \in PromptFlights, ~f.taken, f.prompt \notin Flying,
         sending' = sending \cup {f}
  PROVE  /\ sending' \subseteq PromptFlights /\ OneFlight'
         /\ Flying' = Flying \cup {f.prompt} /\ Unserved' = Unserved \cup {f.prompt}
BY DEF PromptFlow, OneFlight, Flying, Unserved

\* A flight that ends takes its prompt with it: no other one has the prompt.
LEMMA FlightRemoved ==
  ASSUME PromptFlow, NEW f \in sending, sending' = sending \ {f}
  PROVE  /\ sending' \subseteq PromptFlights /\ OneFlight'
         /\ Flying' = Flying \ {f.prompt} /\ Unserved' = Unserved \ {f.prompt}
         /\ f \in PromptFlights /\ f.prompt \in Flying
         /\ f.prompt \in Unserved <=> ~f.taken
BY DEF PromptFlow, OneFlight, Flying, Unserved

\* A flight that is taken flies on and is served.
LEMMA FlightTaken ==
  ASSUME PromptFlow, NEW f \in sending, ~f.taken,
         sending' = (sending \ {f}) \cup {[f EXCEPT !.taken = TRUE]}
  PROVE  /\ sending' \subseteq PromptFlights /\ OneFlight'
         /\ Flying' = Flying /\ Unserved' = Unserved \ {f.prompt}
         /\ f.prompt \in Unserved /\ f.prompt \in Prompts
<1> DEFINE g == [f EXCEPT !.taken = TRUE]
<1>1. f \in PromptFlights
  BY DEF PromptFlow
<1>2. g \in PromptFlights /\ g.prompt = f.prompt /\ g.taken
  BY <1>1 DEF PromptFlights
<1> HIDE DEF g
<1>3. sending' \subseteq PromptFlights
  BY <1>2 DEF PromptFlow, g
<1>4. \A h \in sending' : h # g => h \in sending /\ h # f /\ h.prompt # f.prompt
  BY DEF g, PromptFlow, OneFlight
<1>5. OneFlight'
  BY <1>2, <1>4 DEF PromptFlow, OneFlight
<1>6. g \in sending' /\ \A h \in sending : h = f \/ h \in sending'
  BY DEF g
<1>7. Flying' = Flying
  BY <1>2, <1>4, <1>6 DEF Flying
<1>8. Unserved' = Unserved \ {f.prompt} /\ f.prompt \in Unserved
  BY <1>2, <1>4, <1>6 DEF Unserved
<1>9. f.prompt \in Prompts
  BY <1>1 DEF PromptFlights
<1> QED BY <1>3, <1>5, <1>7, <1>8, <1>9

\* What waits are the entries of the queue, in this state and in the next.
LEMMA InQueueIs ==
  /\ queued \in Seq(Prompts) => InQueue = {queued[i] : i \in 1 .. Len(queued)}
  /\ queued' \in Seq(Prompts) => InQueue' = {queued'[i] : i \in 1 .. Len(queued')}
BY LenProperties DEF InQueue, ToSet

\* The queue takes a prompt at its end,
LEMMA QueueAppended ==
  ASSUME PromptFlow, NEW p \in Prompts, p \notin InQueue, queued' = Append(queued, p)
  PROVE  queued' \in Seq(Prompts) /\ QueuedOnce' /\ InQueue' = InQueue \cup {p}
<1>1. /\ queued' \in Seq(Prompts) /\ Len(queued') = Len(queued) + 1 /\ Len(queued) \in Nat
      /\ \A i \in 1 .. Len(queued) : queued'[i] = queued[i] /\ queued[i] \in InQueue
      /\ queued'[Len(queued) + 1] = p
  BY DEF PromptFlow, InQueue, ToSet
<1>2. QueuedOnce'
  BY <1>1 DEF PromptFlow, QueuedOnce
<1>3. /\ InQueue' = {queued'[i] : i \in 1 .. Len(queued')}
      /\ InQueue = {queued[i] : i \in 1 .. Len(queued)}
  BY <1>1, InQueueIs DEF PromptFlow
<1>4. 1 .. Len(queued') = (1 .. Len(queued)) \cup {Len(queued) + 1}
  BY <1>1
<1>5. InQueue' = InQueue \cup {p}
  BY <1>1, <1>3, <1>4
<1> QED BY <1>1, <1>2, <1>5

\* or at its front,
LEMMA QueuePrepended ==
  ASSUME PromptFlow, NEW p \in Prompts, p \notin InQueue, queued' = <<p>> \o queued
  PROVE  queued' \in Seq(Prompts) /\ QueuedOnce' /\ InQueue' = InQueue \cup {p}
<1>1. /\ queued' \in Seq(Prompts) /\ Len(queued') = Len(queued) + 1 /\ Len(queued) \in Nat
      /\ \A i \in 1 .. Len(queued) : queued'[i + 1] = queued[i] /\ queued[i] \in InQueue
      /\ queued'[1] = p
  BY DEF PromptFlow, InQueue, ToSet
<1>2. \A i \in 1 .. Len(queued') :
        i # 1 => i - 1 \in 1 .. Len(queued) /\ queued'[i] = queued[i - 1]
  <2> SUFFICES ASSUME NEW i \in 1 .. Len(queued'), i # 1
               PROVE  i - 1 \in 1 .. Len(queued) /\ queued'[i] = queued[i - 1]
    OBVIOUS
  <2>1. i - 1 \in 1 .. Len(queued) /\ (i - 1) + 1 = i
    BY <1>1
  <2> QED BY <1>1, <2>1
<1>3. QueuedOnce'
  BY <1>1, <1>2 DEF PromptFlow, QueuedOnce
<1>4. /\ InQueue' = {queued'[i] : i \in 1 .. Len(queued')}
      /\ InQueue = {queued[i] : i \in 1 .. Len(queued)}
  BY <1>1, InQueueIs DEF PromptFlow
<1>5. 1 \in 1 .. Len(queued') /\ \A i \in 1 .. Len(queued) : i + 1 \in 1 .. Len(queued')
  BY <1>1
<1>6. InQueue \cup {p} \subseteq InQueue'
  BY <1>1, <1>4, <1>5
<1>7. ASSUME NEW i \in 1 .. Len(queued')
      PROVE  queued'[i] \in InQueue \cup {p}
  <2>1. CASE i = 1
    BY <1>1, <2>1
  <2>2. CASE i # 1
    BY <1>1, <1>2, <2>2
  <2> QED BY <2>1, <2>2
<1>8. InQueue' = InQueue \cup {p}
  BY <1>4, <1>6, <1>7
<1> QED BY <1>1, <1>3, <1>8

\* and gives the first one away.
LEMMA QueueShifted ==
  ASSUME PromptFlow, queued # <<>>, queued' = Tail(queued)
  PROVE  /\ queued' \in Seq(Prompts) /\ QueuedOnce' /\ Head(queued) \in Prompts
         /\ InQueue' = InQueue \ {Head(queued)} /\ Head(queued) \in InQueue
<1>1. /\ queued' \in Seq(Prompts) /\ Len(queued') = Len(queued) - 1 /\ Len(queued) \in Nat \ {0}
      /\ \A i \in 1 .. Len(queued') : queued'[i] = queued[i + 1]
      /\ Head(queued) = queued[1] /\ Head(queued) \in Prompts
  BY HeadTailProperties, EmptySeq DEF PromptFlow
<1>2. \A i \in 1 .. Len(queued') : i + 1 \in 1 .. Len(queued) /\ i + 1 # 1
  BY <1>1
<1>3. 1 \in 1 .. Len(queued) /\ \A i \in 1 .. Len(queued) :
        i # 1 => i - 1 \in 1 .. Len(queued') /\ (i - 1) + 1 = i
  BY <1>1
<1>4. QueuedOnce'
  <2> SUFFICES ASSUME NEW i \in 1 .. Len(queued'), NEW j \in 1 .. Len(queued'),
                      queued'[i] = queued'[j]
               PROVE  i = j
    BY DEF QueuedOnce
  <2>1. i + 1 = j + 1
    BY <1>1, <1>2 DEF PromptFlow, QueuedOnce
  <2> QED BY <1>1, <2>1
<1>5. /\ InQueue' = {queued'[i] : i \in 1 .. Len(queued')}
      /\ InQueue = {queued[i] : i \in 1 .. Len(queued)}
  BY <1>1, InQueueIs DEF PromptFlow
<1>6. \A i \in 1 .. Len(queued') : queued'[i] \in InQueue \ {Head(queued)}
  BY <1>1, <1>2, <1>3, <1>5 DEF PromptFlow, QueuedOnce
<1>7. \A i \in 1 .. Len(queued) : queued[i] = Head(queued) \/ queued[i] \in InQueue'
  BY <1>1, <1>3, <1>5
<1>8. InQueue' = InQueue \ {Head(queued)}
  BY <1>5, <1>6, <1>7
<1> QED BY <1>1, <1>3, <1>4, <1>5, <1>8

\* The run entries of the page.
LEMMA PromptRunFacts ==
  /\ NoRun \in RunRecs /\ \A b \in BOOLEAN : Run(b) \in RunRecs
  /\ \A r \in RunRecs : [r EXCEPT !.optimistic = FALSE] \in RunRecs
  /\ \A r \in RunRecs : [r EXCEPT !.old = TRUE] \in RunRecs
  /\ \A p \in Prompts, b \in BOOLEAN : chatRuns \in RunRecs => Flight(p, b) \in PromptFlights
  /\ \A p \in Prompts, b \in BOOLEAN : chatRuns \in RunRecs =>
       LET f == [Flight(p, b) EXCEPT !.before = NoRun] IN
         f \in PromptFlights /\ f.prompt = p /\ ~f.taken
<1>1. NoRun \in RunRecs /\ \A b \in BOOLEAN : Run(b) \in RunRecs
  BY DEF RunRecs, NoRun, Run
<1>2. ASSUME NEW r \in RunRecs
      PROVE  [r EXCEPT !.optimistic = FALSE] \in RunRecs /\ [r EXCEPT !.old = TRUE] \in RunRecs
  BY DEF RunRecs
<1>3. ASSUME NEW p \in Prompts, NEW b \in BOOLEAN, chatRuns \in RunRecs
      PROVE  Flight(p, b) \in PromptFlights
  BY <1>3 DEF Flight, PromptFlights
<1>4. ASSUME NEW p \in Prompts, NEW b \in BOOLEAN, chatRuns \in RunRecs
      PROVE  LET f == [Flight(p, b) EXCEPT !.before = NoRun] IN
               f \in PromptFlights /\ f.prompt = p /\ ~f.taken
  <2>1. Flight(p, b) \in PromptFlights /\ Flight(p, b).prompt = p /\ ~Flight(p, b).taken
    BY <1>3, <1>4 DEF Flight
  <2> QED BY <1>1, <2>1 DEF PromptFlights
<1> QED BY <1>1, <1>2, <1>3, <1>4

\* The prompts that wait, fly or are unserved change only with the queue and the flights.
LEMMA PromptSame ==
  /\ queued' = queued => InQueue' = InQueue /\ (QueuedOnce => QueuedOnce')
  /\ sending' = sending => Flying' = Flying /\ Unserved' = Unserved /\ (OneFlight => OneFlight')
BY DEF InQueue, ToSet, Flying, Unserved, OneFlight, QueuedOnce

\* The chat is finished: the head of the queue is sent.
LEMMA MarkFinishedOK ==
  ASSUME PromptPlaced, PromptFlow, MarkFinished,
         UNCHANGED <<accepted, doubled, composer, dropped, unsure>>
  PROVE  PromptPlaced' /\ PromptFlow' /\ statusRead' = "none"
<1>1. statusRead' = "none"
  BY DEF MarkFinished, Voided
<1>2. CASE queued = <<>>
  <2>1. UNCHANGED <<queued, sending>> /\ chatRuns' \in RunRecs
    BY <1>2, PromptRunFacts DEF MarkFinished
  <2>2. PromptFlow'
    BY <2>1, PromptSame DEF PromptFlow
  <2> QED BY <1>1, <2>1, <2>2, PromptSame DEF PromptPlaced
<1>3. CASE queued # <<>>
  <2> DEFINE p == Head(queued)
             f == [Flight(p, TRUE) EXCEPT !.before = NoRun]
  <2>1. /\ queued' = Tail(queued) /\ sending' = sending \cup {f} /\ chatRuns' \in RunRecs
    BY <1>3, PromptRunFacts DEF MarkFinished
  <2>2. /\ queued' \in Seq(Prompts) /\ QueuedOnce' /\ p \in Prompts
        /\ InQueue' = InQueue \ {p} /\ p \in InQueue
    BY <1>3, <2>1, QueueShifted
  <2>4. f \in PromptFlights /\ ~f.taken /\ f.prompt = p
    BY <2>2, PromptRunFacts DEF PromptFlow
  <2>5. p \notin Flying
    BY <2>2 DEF PromptPlaced
  <2> HIDE DEF p, f
  <2>6. /\ sending' \subseteq PromptFlights /\ OneFlight'
        /\ Flying' = Flying \cup {p} /\ Unserved' = Unserved \cup {p}
    BY <2>1, <2>4, <2>5, FlightAdded
  <2>7. PromptFlow'
    BY <2>1, <2>2, <2>6 DEF PromptFlow
  <2>8. PromptPlaced'
    BY <2>2, <2>6 DEF PromptPlaced
  <2> QED BY <1>1, <2>7, <2>8
<1> QED BY <1>2, <1>3

\* Every prompt in the composer at first.
LEMMA PromptInitOK == PromptInit => PromptIInv
<1> SUFFICES ASSUME PromptInit PROVE PromptIInv
  OBVIOUS
<1>1. InQueue = {} /\ Flying = {} /\ Unserved = {} /\ OneFlight /\ QueuedOnce
  BY DEF PromptInit, InQueue, ToSet, Flying, Unserved, OneFlight, QueuedOnce
<1>2. PromptPlaced
  BY <1>1 DEF PromptInit, PromptPlaced
<1>3. PromptFlow
  BY <1>1, PromptRunFacts, EmptySeq DEF PromptInit, PromptFlow
<1>4. PromptRuns /\ PromptSets
  BY DEF PromptInit, PromptRuns, PromptSets
<1>5. PromptEvents
  BY PromptAssumption, EmptySeq DEF PromptInit, PromptEvents
<1> QED BY <1>2, <1>3, <1>4, <1>5 DEF PromptIInv

\* The server takes a prompt: one it had already was unsure.
LEMMA AcceptOK ==
  ASSUME PromptIInv, NEW f \in sending, Accept(f)
  PROVE  PromptIInv'
<1>1. /\ sending' \subseteq PromptFlights /\ OneFlight'
      /\ Flying' = Flying /\ Unserved' = Unserved \ {f.prompt}
      /\ f.prompt \in Unserved /\ f.prompt \in Prompts
  BY FlightTaken DEF Accept, PromptIInv
<1>2. UNCHANGED <<queued, chatRuns, composer, dropped, unsure, failures, here, statusRead, cut>>
  BY DEF Accept
<1>3. InQueue' = InQueue /\ QueuedOnce'
  BY <1>2, PromptSame DEF PromptIInv, PromptFlow
<1>4. accepted' = accepted \cup {f.prompt} /\ doubled' = doubled \cup ({f.prompt} \cap accepted)
  BY DEF Accept
<1>5. PromptPlaced'
  <2>1. f.prompt \in Flying /\ f.prompt \notin composer \cup InQueue \cup dropped
    BY DEF Flying, PromptIInv, PromptPlaced
  <2>2. f.prompt \in accepted => f.prompt \in unsure
    BY <1>1 DEF PromptIInv, PromptPlaced
  <2>3. doubled' \subseteq unsure' /\ unsure' \subseteq accepted'
    BY <1>2, <1>4, <2>2 DEF PromptIInv, PromptPlaced
  <2>4. ASSUME NEW p \in Prompts \ unsure
        PROVE  p \in accepted' <=> p \notin composer' \cup InQueue' \cup Unserved' \cup dropped'
    BY <1>1, <1>2, <1>3, <1>4, <2>1 DEF PromptIInv, PromptPlaced
  <2>5. Flying' \subseteq Unserved' \cup accepted'
    BY <1>1, <1>4 DEF PromptIInv, PromptPlaced
  <2> QED BY <1>1, <1>2, <1>3, <2>3, <2>4, <2>5 DEF PromptIInv, PromptPlaced
<1>6. PromptFlow'
  BY <1>1, <1>2, <1>3 DEF PromptIInv, PromptFlow
<1>7. PromptRuns'
  BY <1>2 DEF PromptIInv, PromptRuns
<1>8. PromptSets'
  BY <1>1, <1>2, <1>4 DEF PromptIInv, PromptSets
<1>9. signals' \in Seq({"started", "ended"}) /\ working' = "ours"
  BY DEF Accept, PromptIInv, PromptEvents
<1>10. PromptEvents'
  BY <1>2, <1>9 DEF PromptIInv, PromptEvents
<1> QED BY <1>5, <1>6, <1>7, <1>8, <1>10 DEF PromptIInv

\* The events of the server and the user's way between chats move no prompt.
LEMMA PromptQuietOK ==
  ASSUME PromptIInv, \/ OtherPrompt \/ AnswerEnds \/ SwitchChat
                     \/ AskStatus \/ ReadStatus \/ StatusActive \/ RunAges
  PROVE  PromptIInv'
<1>1. UNCHANGED <<accepted, doubled, failures, composer, queued, sending, dropped, unsure, cut>>
  BY DEF OtherPrompt, AnswerEnds, SwitchChat, AskStatus, ReadStatus, StatusActive, RunAges
<1>2. chatRuns' \in RunRecs
  BY PromptRunFacts DEF PromptIInv, PromptFlow, OtherPrompt, AnswerEnds, SwitchChat,
    AskStatus, ReadStatus, StatusActive, RunAges
<1>3. PromptPlaced' /\ PromptFlow' /\ PromptSets'
  BY <1>1, <1>2, PromptSame DEF PromptIInv, PromptPlaced, PromptFlow, PromptSets
<1>4. PromptRuns'
  BY <1>1 DEF PromptIInv, PromptRuns, OtherPrompt, AnswerEnds, SwitchChat, AskStatus,
    ReadStatus, StatusActive, RunAges
<1>5. here' \in BOOLEAN
  BY Zenon DEF PromptIInv, PromptEvents, OtherPrompt, AnswerEnds, SwitchChat, AskStatus,
    ReadStatus, StatusActive, RunAges
<1>6. \/ UNCHANGED signals
      \/ signals' = Append(signals, "started") \/ signals' = Append(signals, "ended")
  BY DEF OtherPrompt, AnswerEnds, SwitchChat, AskStatus, ReadStatus, StatusActive, RunAges
<1>7. signals' \in Seq({"started", "ended"})
  BY <1>6 DEF PromptIInv, PromptEvents
<1>8. working' \in {"no", "ours", "other"}
  BY DEF PromptIInv, PromptEvents, OtherPrompt, AnswerEnds, SwitchChat, AskStatus,
    ReadStatus, StatusActive, RunAges
<1>9. PromptEvents'
  BY <1>1, <1>5, <1>7, <1>8 DEF PromptIInv, PromptEvents
<1> QED BY <1>3, <1>4, <1>9 DEF PromptIInv

\* The user queues a prompt, or sends one.
LEMMA SendPromptOK ==
  ASSUME PromptIInv, NEW p \in Prompts, QueuePrompt(p) \/ SendPrompt(p)
  PROVE  PromptIInv'
<1>1. p \in composer /\ p \notin InQueue /\ p \notin Flying
  BY DEF PromptIInv, PromptPlaced, QueuePrompt, SendPrompt
<1>2. /\ UNCHANGED <<working, accepted, doubled, failures, signals, here, dropped, unsure, cut>>
      /\ composer' = composer \ {p}
  BY DEF QueuePrompt, SendPrompt
<1>3. CASE QueuePrompt(p)
  <2>1. UNCHANGED <<sending, chatRuns, statusRead>> /\ queued' = Append(queued, p)
    BY <1>3 DEF QueuePrompt
  <2>2. queued' \in Seq(Prompts) /\ QueuedOnce' /\ InQueue' = InQueue \cup {p}
    BY <1>1, <2>1, QueueAppended DEF PromptIInv
  <2>3. PromptPlaced'
    BY <1>1, <1>2, <2>1, <2>2, PromptSame DEF PromptIInv, PromptPlaced
  <2>4. PromptFlow'
    BY <2>1, <2>2, PromptSame DEF PromptIInv, PromptFlow
  <2> QED BY <1>2, <2>1, <2>3, <2>4 DEF PromptIInv, PromptRuns, PromptSets, PromptEvents
<1>4. CASE SendPrompt(p)
  <2>1. /\ sending' = sending \cup {Flight(p, FALSE)} /\ queued' = queued
        /\ chatRuns' \in RunRecs /\ statusRead' = "none"
    BY <1>4, PromptRunFacts DEF SendPrompt, Voided
  <2>2. /\ Flight(p, FALSE) \in PromptFlights /\ ~Flight(p, FALSE).taken
        /\ Flight(p, FALSE).prompt = p
    BY PromptRunFacts DEF PromptIInv, PromptFlow, Flight
  <2>3. /\ sending' \subseteq PromptFlights /\ OneFlight'
        /\ Flying' = Flying \cup {p} /\ Unserved' = Unserved \cup {p}
    BY <1>1, <2>1, <2>2, FlightAdded DEF PromptIInv
  <2>4. PromptPlaced'
    BY <1>1, <1>2, <2>1, <2>3, PromptSame DEF PromptIInv, PromptPlaced
  <2>5. PromptFlow'
    BY <2>1, <2>3, PromptSame DEF PromptIInv, PromptFlow
  <2> QED BY <1>2, <2>1, <2>4, <2>5 DEF PromptIInv, PromptRuns, PromptSets, PromptEvents
<1> QED BY <1>3, <1>4

\* A send is answered, or fails: the prompt goes back where it came from.
LEMMA SendEndsOK ==
  ASSUME PromptIInv, NEW f \in sending, Answered(f) \/ SendFails(f)
  PROVE  PromptIInv'
<1>1. /\ sending' \subseteq PromptFlights /\ OneFlight'
      /\ Flying' = Flying \ {f.prompt} /\ Unserved' = Unserved \ {f.prompt}
      /\ f \in PromptFlights /\ f.prompt \in Flying /\ (f.prompt \in Unserved <=> ~f.taken)
  BY FlightRemoved DEF Answered, SendFails, PromptIInv
<1>2. f.prompt \in Prompts /\ f.before \in RunRecs
  BY <1>1 DEF PromptFlights
<1>3. /\ f.prompt \notin composer \cup InQueue \cup dropped
      /\ f.taken => f.prompt \in accepted
  BY <1>1 DEF PromptIInv, PromptPlaced
<1>4. UNCHANGED <<working, accepted, doubled, signals, here, cut>>
  BY DEF Answered, SendFails
<1>5. CASE Answered(f)
  <2>1. UNCHANGED <<failures, composer, queued, chatRuns, statusRead, dropped, unsure>> /\ f.taken
    BY <1>5 DEF Answered
  <2>2. PromptPlaced' /\ PromptFlow'
    BY <1>1, <1>4, <2>1, PromptSame DEF PromptIInv, PromptPlaced, PromptFlow
  <2>3. sending = {} => sending' = {}
    BY <1>1
  <2> QED BY <1>4, <2>1, <2>2, <2>3 DEF PromptIInv, PromptRuns, PromptSets, PromptEvents
<1>6. CASE SendFails(f)
  <2>1. statusRead' = "none" /\ failures' \in 0 .. MaxFailed /\ chatRuns' \in RunRecs
    BY <1>2, <1>6, PromptRunFacts, PromptAssumption DEF SendFails, Voided, PromptIInv, PromptEvents
  <2>2. unsure' = IF f.taken THEN unsure \cup {f.prompt} ELSE unsure
    BY <1>6 DEF SendFails
  <2>3. CASE f.queue
    <3>1. queued' = <<f.prompt>> \o queued /\ composer' = composer /\ dropped' = dropped
      BY <1>6, <2>3 DEF SendFails
    <3>2. queued' \in Seq(Prompts) /\ QueuedOnce' /\ InQueue' = InQueue \cup {f.prompt}
      BY <1>2, <1>3, <3>1, QueuePrepended DEF PromptIInv
    <3>3. PromptPlaced' /\ PromptFlow'
      BY <1>1, <1>2, <1>3, <1>4, <2>1, <2>2, <3>1, <3>2 DEF PromptIInv, PromptPlaced, PromptFlow
    <3> QED BY <1>2, <1>4, <2>1, <2>2, <3>1, <3>3 DEF PromptIInv, PromptRuns, PromptSets, PromptEvents
  <2>4. CASE ~f.queue
    <3>1. /\ queued' = queued
          /\ \/ composer' = composer \cup {f.prompt} /\ dropped' = dropped
             \/ composer' = composer /\ dropped' = dropped \cup {f.prompt}
      BY <1>6, <2>4 DEF SendFails
    <3>2. InQueue' = InQueue /\ QueuedOnce'
      BY <3>1, PromptSame DEF PromptIInv, PromptFlow
    <3>3. PromptFlow'
      BY <1>1, <2>1, <3>1, <3>2 DEF PromptIInv, PromptFlow
    <3>4. PromptPlaced'
      BY <1>1, <1>2, <1>3, <1>4, <2>2, <3>1, <3>2 DEF PromptIInv, PromptPlaced
    <3> QED BY <1>2, <1>4, <2>1, <2>2, <3>1, <3>3, <3>4 DEF PromptIInv, PromptRuns, PromptSets, PromptEvents
  <2> QED BY <2>3, <2>4
<1> QED BY <1>5, <1>6

\* An ended event or an idle snapshot finishes the run; a snapshot that counts as
\* idle was read with no prompt under way, and none has been sent since.
LEMMA PromptFinishOK ==
  ASSUME PromptIInv, Signal \/ \E listed \in BOOLEAN : StatusIdle(listed)
  PROVE  PromptIInv'
<1>1. UNCHANGED <<working, accepted, doubled, failures, composer, here, dropped, unsure>>
  BY DEF Signal, StatusIdle
<1>2. cut' = FALSE
  BY DEF Signal, StatusIdle, PromptIInv, PromptRuns
<1>3. signals' \in Seq({"started", "ended"})
  <2>1. CASE Signal
    BY <2>1, HeadTailProperties DEF Signal, PromptIInv, PromptEvents
  <2>2. CASE ~Signal
    BY <2>2 DEF StatusIdle, PromptIInv, PromptEvents
  <2> QED BY <2>1, <2>2
<1>4. PromptSets' /\ PromptEvents'
  BY <1>1, <1>3 DEF PromptIInv, PromptSets, PromptEvents
<1>5. CASE MarkFinished
  BY <1>1, <1>2, <1>4, <1>5, MarkFinishedOK DEF PromptIInv, PromptRuns
<1>6. CASE ~MarkFinished
  <2>1. UNCHANGED <<queued, sending>> /\ statusRead' = "none" /\ chatRuns' \in RunRecs
    BY <1>6, PromptRunFacts DEF Signal, StatusIdle, Voided, PromptIInv, PromptFlow
  <2>2. PromptPlaced' /\ PromptFlow'
    BY <1>1, <2>1, PromptSame DEF PromptIInv, PromptPlaced, PromptFlow
  <2> QED BY <1>2, <1>4, <2>1, <2>2 DEF PromptIInv, PromptRuns
<1> QED BY <1>5, <1>6

\* The invariant is inductive.
LEMMA PromptStepOK == PromptIInv /\ [PromptNext]_promptVars => PromptIInv'
<1> SUFFICES ASSUME PromptIInv, [PromptNext]_promptVars PROVE PromptIInv'
  OBVIOUS
<1>1. ASSUME UNCHANGED promptVars PROVE PromptIInv'
  BY <1>1, PromptSame DEF promptVars, PromptIInv, PromptPlaced, PromptFlow, PromptRuns,
    PromptSets, PromptEvents
<1>2. ASSUME PromptNext PROVE PromptIInv'
  BY <1>2, AcceptOK, PromptQuietOK, SendPromptOK, SendEndsOK, PromptFinishOK DEF PromptNext
<1> QED BY <1>1, <1>2

\* A prompt whose answer was not lost is in exactly one of its places.
LEMMA PromptOnePlace ==
  ASSUME PromptIInv, NEW p \in Prompts \ unsure
  PROVE  Cardinality({i \in 1 .. 5 : Places(p)[i]}) = 1
<1> DEFINE Here == {i \in 1 .. 5 : Places(p)[i]}
<1>1. /\ Places(p)[1] <=> p \in composer
      /\ Places(p)[2] <=> p \in InQueue
      /\ Places(p)[3] <=> p \in Unserved
      /\ Places(p)[4] <=> p \in accepted
      /\ Places(p)[5] <=> p \in dropped
  BY DEF Places, InQueue, Unserved
<1>2. Unserved \subseteq Flying
  BY DEF Unserved, Flying
<1>3. \A i : i \in 1 .. 5 <=> i \in {1, 2, 3, 4, 5}
  OBVIOUS
<1>4. \E k \in 1 .. 5 : Here = {k}
  <2>1. CASE p \in composer
    <3>1. Here = {1}
      BY <1>1, <1>2, <1>3, <2>1 DEF PromptIInv, PromptPlaced
    <3> QED BY <3>1
  <2>2. CASE p \in InQueue
    <3>1. Here = {2}
      BY <1>1, <1>2, <1>3, <2>2 DEF PromptIInv, PromptPlaced
    <3> QED BY <3>1
  <2>3. CASE p \in Unserved
    <3>1. Here = {3}
      BY <1>1, <1>2, <1>3, <2>3 DEF PromptIInv, PromptPlaced
    <3> QED BY <3>1
  <2>4. CASE p \in dropped
    <3>1. Here = {5}
      BY <1>1, <1>2, <1>3, <2>4 DEF PromptIInv, PromptPlaced
    <3> QED BY <3>1
  <2>5. CASE p \notin composer \cup InQueue \cup Unserved \cup dropped
    <3>1. Here = {4}
      BY <1>1, <1>2, <1>3, <2>5 DEF PromptIInv, PromptPlaced
    <3> QED BY <3>1
  <2> QED BY <2>1, <2>2, <2>3, <2>4, <2>5
<1> QED BY <1>4, FS_Singleton

\* The page keeps values of their types, for every set of prompts.
THEOREM PromptTypes == PromptSpec => []PromptTypeOK
<1>1. PromptIInv => PromptTypeOK
  <2>1. ASSUME PromptIInv, NEW f \in sending
        PROVE  f.prompt \in Prompts /\ f.queue \in BOOLEAN /\ f.taken \in BOOLEAN
    <3>1. f \in PromptFlights
      BY <2>1 DEF PromptIInv, PromptFlow
    <3> QED BY <3>1 DEF PromptFlights
  <2>2. PromptIInv => cut \in BOOLEAN
    BY DEF PromptIInv, PromptRuns
  <2> QED BY <2>1, <2>2 DEF PromptIInv, PromptFlow, PromptRuns, PromptSets, PromptEvents,
        PromptTypeOK
<1> QED BY <1>1, PromptInitOK, PromptStepOK, PTL DEF PromptSpec

\* No prompt is lost or sent twice, for every set of prompts and every number of
\* failures and events, apart from one whose answer was lost; and no snapshot ends a
\* run that it did not cross.
THEOREM PromptsAreAccounted == PromptSpec => []PromptsAccounted
<1>1. PromptIInv => PromptsAccounted
  BY PromptOnePlace DEF PromptIInv, PromptPlaced, PromptRuns, PromptsAccounted
<1> QED BY <1>1, PromptInitOK, PromptStepOK, PTL DEF PromptSpec
=============================================================================
