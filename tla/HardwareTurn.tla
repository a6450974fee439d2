---------------------------- MODULE HardwareTurn ----------------------------
(***************************************************************************)
(* plugins/hardware-orchestrator.js: one session of the Hardware Edition.  *)
(* A user turn opens a record with its own plan (the routed model) and a   *)
(* budget of specialist consultations; a consultation runs on the record   *)
(* of its turn, reserves and settles on the ledger, and may outlive it.    *)
(***************************************************************************)
EXTENDS Naturals, FiniteSets

CONSTANTS Turns,        \* user turns of the session
          Consults,     \* distinct consultations: role, packet, images, target
          CallBudget,   \* record.calls at most (4 in the code)
          ActiveLimit,  \* record.active at most (2 in the code)
          MaxRecords    \* bound: records opened

ASSUME HardwareAssumption == CallBudget \in Nat /\ ActiveLimit \in Nat /\ MaxRecords \in Nat

VARIABLES record,     \* sessions.get(id): its turn, its number and its plan
          recordCount,     \* records opened so far: the number is their identity
          parents,    \* requests of the parent model that wait for the plan
          routed,     \* transport: a request of the record was sent on
          workers,    \* consultations under way
          results,    \* record.results: consultations started, whatever came of them
          spent,      \* per record: provider calls of each consultation
          ledger,     \* reservations charged and settled there, settles on their way,
                      \* reservations about which a call was lost
          settledTwice, \* a reservation was settled more than once
          strayed     \* a receipt or a request of a superseded turn was let through

hardwareVars == <<record, recordCount, parents, routed, workers, results, spent,
                  ledger, settledTwice, strayed>>

NoRecord == [turn |-> "none", no |-> 0, plan |-> "none"]
Reservation(w) == [no |-> w.no, consult |-> w.consult]
Own(no) == {w \in workers : w.no = no}

-----------------------------------------------------------------------------
(* forget: workers of the record are aborted; prune and dispose do the same *)

Aborted(no) == {[w EXCEPT !.aborted = w.aborted \/ w.no = no] : w \in workers}

Forget ==
  /\ record # NoRecord
  /\ record' = NoRecord
  /\ workers' = Aborted(record.no)
  /\ results' = {} /\ routed' = FALSE
  /\ UNCHANGED <<recordCount, parents, spent, ledger, settledTwice, strayed>>

-----------------------------------------------------------------------------
(* The http.request hook of the parent *)

\* The first request of a turn supersedes the turn before it and starts the plan.
FirstRequest(t) ==
  /\ recordCount < MaxRecords /\ record.turn # t
  /\ recordCount' = recordCount + 1
  /\ record' = [turn |-> t, no |-> recordCount + 1, plan |-> "routing"]
  /\ parents' = parents \cup {recordCount + 1}
  /\ workers' = IF record = NoRecord THEN workers ELSE Aborted(record.no)
  /\ results' = {} /\ routed' = FALSE
  /\ UNCHANGED <<spent, ledger, settledTwice, strayed>>

\* Further requests of the turn share its plan; without a record a continuation
\* is refused.
NextRequest ==
  /\ record # NoRecord
  /\ parents' = parents \cup {record.no}
  /\ UNCHANGED <<record, recordCount, routed, workers, results, spent, ledger,
                 settledTwice, strayed>>

\* JevRouter.route and targetFor; a failure stays with the turn.
PlanReady ==
  /\ record.plan = "routing"
  /\ \E plan \in {"ready", "failed"} : record' = [record EXCEPT !.plan = plan]
  /\ UNCHANGED <<recordCount, parents, routed, workers, results, spent, ledger,
                 settledTwice, strayed>>

\* Faulty variant: a request goes out although its turn is over.
StillCurrentAlways(no) == TRUE
\* sessions.get(id) === record
StillCurrent(no) == record.no = no

\* The plan of a record that is gone was ready or failed by then.
RequestGoesOn(no) ==
  /\ no \in parents /\ (record.no = no => record.plan # "routing")
  /\ parents' = parents \ {no}
  /\ IF StillCurrent(no) /\ record.plan # "failed"
     THEN /\ routed' = (routed \/ record.no = no)
          /\ strayed' = (strayed \/ record.no # no)
     ELSE UNCHANGED <<routed, strayed>>
  /\ UNCHANGED <<record, recordCount, workers, results, spent, ledger, settledTwice>>

-----------------------------------------------------------------------------
(* hardware_consult *)

NewWorker(c) == [no |-> record.no, consult |-> c, stage |-> "target", aborted |-> FALSE]

Consult(c) ==
  /\ record # NoRecord
  /\ workers' = workers \cup {NewWorker(c)}
  /\ UNCHANGED <<record, recordCount, parents, routed, results, spent, ledger,
                 settledTwice, strayed>>

InConsult(no) == Cardinality({w \in Own(no) : w.stage # "target"})

\* Faulty variant: only a consultation that succeeded is remembered.
AnsweredBy(done, c, ok) == IF ok THEN done \cup {c} ELSE done \ {c}
\* What was started is remembered, errors as well.
Remembered(done, c, ok) == done \cup {c}

\* After the catalog: refused for a superseded turn, answered from results, or
\* refused at a limit or without a transport; else it counts and starts.
MayDispatch(w) ==
  /\ record.no = w.no /\ routed
  /\ w.consult \notin results
  /\ Cardinality(results) < CallBudget /\ InConsult(w.no) < ActiveLimit

Dispatch(w) ==
  /\ w \in workers /\ w.stage = "target"
  /\ IF MayDispatch(w)
     THEN /\ workers' = (workers \ {w}) \cup {[w EXCEPT !.stage = "reserving"]}
          /\ results' = results \cup {w.consult}
     ELSE workers' = workers \ {w} /\ UNCHANGED results
  /\ UNCHANGED <<record, recordCount, parents, routed, spent, ledger, settledTwice,
                 strayed>>

\* reserveWorker, then the request to the provider; an abort stops the fetch.  (The
\* runtime is configured: without it nothing is reserved.)
Reserve(w) ==
  /\ w \in workers /\ w.stage = "reserving"
  /\ workers' = (workers \ {w}) \cup {[w EXCEPT !.stage = "fetching"]}
  /\ ledger' = [ledger EXCEPT !.reserved = @ \cup {Reservation(w)}]
  /\ spent' = IF w.aborted THEN spent
              ELSE [spent EXCEPT ![w.no][w.consult] = @ + 1]
  /\ UNCHANGED <<record, recordCount, parents, routed, results, settledTwice, strayed>>

\* The call fails: the ledger refused it, or charged it and its answer was lost; nobody
\* settles what no answer named.
ReserveRefused(w) ==
  /\ w \in workers /\ w.stage = "reserving"
  /\ ledger' \in {ledger, [ledger EXCEPT !.reserved = @ \cup {Reservation(w)},
                                        !.lost = @ \cup {Reservation(w)}]}
  /\ workers' = workers \ {w}
  /\ results' = IF record.no = w.no THEN Remembered(results, w.consult, FALSE) ELSE results
  /\ UNCHANGED <<record, recordCount, parents, routed, spent, settledTwice, strayed>>

\* Faulty variant: what was settled is still held when a stale result is thrown away.
HeldAfterwards(ok) == TRUE
\* The reservation the error path settles: none once the answer was settled.
Held(ok) == ~ok

\* Fire and forget, once the answer is read and again on the error path.
Settle(w, ok) ==
  LET failed == ~ok \/ record.no # w.no
  IN /\ ledger' = IF ok \/ Held(ok) THEN [ledger EXCEPT !.settling = @ \cup {Reservation(w)}]
                  ELSE ledger
     /\ settledTwice' = (settledTwice \/ (ok /\ failed /\ Held(ok)))

SettleArrives(r) ==
  /\ r \in ledger.settling
  /\ ledger' = [ledger EXCEPT !.settling = @ \ {r}, !.settled = @ \cup {r}]
  /\ UNCHANGED <<record, recordCount, parents, routed, workers, results, spent,
                 settledTwice, strayed>>

\* Its error is swallowed, and it is not sent again.
SettleLost(r) ==
  /\ r \in ledger.settling
  /\ ledger' = [ledger EXCEPT !.settling = @ \ {r}, !.lost = @ \cup {r}]
  /\ UNCHANGED <<record, recordCount, parents, routed, workers, results, spent,
                 settledTwice, strayed>>

\* Faulty variant: the result of a superseded turn is handed over.
Fresh(w) == TRUE
\* After the answer was settled the record must still be the session's.
NotStale(w) == record.no = w.no

\* An answer that was complete before the abort still ends well.
WorkerEnds(w, ok) ==
  /\ w \in workers /\ w.stage = "fetching"
  /\ ok => spent[w.no][w.consult] > 0
  /\ Settle(w, ok)
  /\ workers' = workers \ {w}
  /\ results' = IF record.no = w.no THEN Remembered(results, w.consult, ok) ELSE results
  /\ strayed' = (strayed \/ (ok /\ NotStale(w) /\ record.no # w.no))
  /\ UNCHANGED <<record, recordCount, parents, routed, spent>>

-----------------------------------------------------------------------------
HardwareInit ==
  /\ record = NoRecord /\ recordCount = 0 /\ parents = {} /\ routed = FALSE
  /\ workers = {} /\ results = {}
  /\ ledger = [reserved |-> {}, settling |-> {}, settled |-> {}, lost |-> {}]
  /\ spent = [no \in 1 .. MaxRecords |-> [c \in Consults |-> 0]]
  /\ settledTwice = FALSE /\ strayed = FALSE

HardwareNext ==
  \/ Forget \/ NextRequest \/ PlanReady
  \/ \E t \in Turns : FirstRequest(t)
  \/ \E no \in 1 .. MaxRecords : RequestGoesOn(no)
  \/ \E c \in Consults : Consult(c)
  \/ \E w \in workers : \/ Dispatch(w) \/ Reserve(w) \/ ReserveRefused(w)
                        \/ \E ok \in BOOLEAN : WorkerEnds(w, ok)
  \/ \E r \in ledger.settling : SettleArrives(r) \/ SettleLost(r)

HardwareSpec == HardwareInit /\ [][HardwareNext]_hardwareVars

\* The turn and its consultations keep values of their types.
HardwareTypeOK ==
  /\ record \in [turn : Turns \cup {"none"}, no : 0 .. MaxRecords,
                 plan : {"none", "routing", "ready", "failed"}]
  /\ recordCount \in 0 .. MaxRecords /\ parents \subseteq 1 .. MaxRecords
  /\ routed \in BOOLEAN /\ settledTwice \in BOOLEAN /\ strayed \in BOOLEAN
  /\ workers \subseteq [no : 1 .. MaxRecords, consult : Consults, aborted : BOOLEAN,
                        stage : {"target", "reserving", "fetching"}]
  /\ results \subseteq Consults
  /\ spent \in [1 .. MaxRecords -> [Consults -> Nat]]
  /\ \A rs \in {ledger.reserved, ledger.settling, ledger.settled, ledger.lost} :
       rs \subseteq [no : 1 .. MaxRecords, consult : Consults]

\* A turn pays for a consultation once, whatever came of it, and for no more than
\* its budget; nothing of a superseded turn is let through; and no reservation is
\* settled twice, or stays open unless its worker runs, its settle is on the way or
\* a call about it was lost.
ConsultsBounded ==
  /\ \A no \in 1 .. MaxRecords :
       /\ \A c \in Consults : spent[no][c] <= 1
       /\ Cardinality({c \in Consults : spent[no][c] > 0}) <= CallBudget
       /\ InConsult(no) <= ActiveLimit
  /\ ledger.reserved \ ledger.settled \subseteq
       {Reservation(w) : w \in {w \in workers : w.stage = "fetching"}}
         \cup ledger.settling \cup ledger.lost
  /\ ~settledTwice /\ ~strayed
=============================================================================
