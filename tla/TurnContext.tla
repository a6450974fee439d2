---------------------------- MODULE TurnContext ----------------------------
(***************************************************************************)
(* The runtime context envelope of one session in                          *)
(* config/plugins/server-runtime-guard.js: fetched once per user turn,     *)
(* waited for at most two seconds by the first step, then frozen so that   *)
(* the prompt prefix of the turn does not change.                          *)
(*                                                                         *)
(* Steps of the context hook run concurrently.  A key stands for the user  *)
(* turn, model and context class it is built from; the text of an answer   *)
(* is the number of the call that fetched it, and 0 is the empty text.     *)
(***************************************************************************)
EXTENDS Naturals, Sequences

CONSTANTS CtxSteps,   \* context hooks that may run
          CtxTurns    \* bound: the turns, 1 .. CtxTurns

ASSUME CtxAssumption == CtxTurns \in Nat \ {0}

VARIABLES ctxTurn,     \* the newest user turn of the transcript
          ctxEnvelope, \* managedContexts: key (0 when absent) and text
          ctxFlight,   \* contextFlights: key and call number, or key 0
          ctxAnswer,   \* ctxAnswer[c]: "open", "failed" or "ok" for call c
          ctxBackoff,  \* contextFailures asks to wait
          ctxStep      \* ctxStep[i]: stage, key, call it waits for, text it used

ctxVars == <<ctxTurn, ctxEnvelope, ctxFlight, ctxAnswer, ctxBackoff, ctxStep>>

CtxKeys == 1 .. CtxTurns
CtxCalls == DOMAIN ctxAnswer
NoEnvelope == [key |-> 0, text |-> 0]
NoFlight == [key |-> 0, call |-> 0]

\* freeze and the value a step goes on with.
Freeze(i, key, text) ==
  /\ ctxEnvelope' = [key |-> key, text |-> text]
  /\ ctxStep' = [ctxStep EXCEPT ![i] = [stage |-> "done", key |-> key, call |-> 0]]

CtxUse(i, key) ==
  /\ ctxStep' = [ctxStep EXCEPT ![i] = [stage |-> "done", key |-> key, call |-> 0]]
  /\ UNCHANGED ctxEnvelope

CtxNewTurn ==
  /\ ctxTurn < CtxTurns
  /\ ctxTurn' = ctxTurn + 1
  /\ UNCHANGED <<ctxEnvelope, ctxFlight, ctxAnswer, ctxBackoff, ctxStep>>

\* refreshManagedContext until its wait: the frozen text, an empty one while
\* the server is backed off, or the flight of this key, started if needed.
CtxBegin(i) ==
  /\ ctxStep[i].stage = "idle"
  /\ \/ /\ ctxEnvelope.key = ctxTurn
        /\ CtxUse(i, ctxTurn)
        /\ UNCHANGED <<ctxFlight, ctxAnswer>>
     \/ /\ ctxEnvelope.key # ctxTurn /\ ctxBackoff
        /\ Freeze(i, ctxTurn, 0)
        /\ UNCHANGED <<ctxFlight, ctxAnswer>>
     \/ /\ ctxEnvelope.key # ctxTurn /\ ~ctxBackoff
        /\ LET joined == ctxFlight.key = ctxTurn
               call   == IF joined THEN ctxFlight.call ELSE Len(ctxAnswer) + 1
           IN /\ ctxAnswer' = IF joined THEN ctxAnswer ELSE Append(ctxAnswer, "open")
              /\ ctxFlight' = [key |-> ctxTurn, call |-> call]
              /\ ctxStep' = [ctxStep EXCEPT ![i] =
                              [stage |-> "waiting", key |-> ctxTurn, call |-> call]]
        /\ UNCHANGED ctxEnvelope
  /\ UNCHANGED <<ctxTurn, ctxBackoff>>

\* The context call answers; a failure doubles the backoff, an answer ends it.
CtxAnswered(c) ==
  /\ ctxAnswer[c] = "open"
  /\ \E outcome \in {"ok", "failed"} :
       /\ ctxAnswer' = [ctxAnswer EXCEPT ![c] = outcome]
       /\ ctxBackoff' = (outcome = "failed")
  /\ ctxFlight' = IF ctxFlight.call = c THEN NoFlight ELSE ctxFlight
  /\ UNCHANGED <<ctxTurn, ctxEnvelope, ctxStep>>

CtxBackoffEnds ==
  /\ ctxBackoff
  /\ ctxBackoff' = FALSE
  /\ UNCHANGED <<ctxTurn, ctxEnvelope, ctxFlight, ctxAnswer, ctxStep>>

\* What the race gives: the answer, or nothing (0) after the hot-path wait.
CtxRaced(c, text) ==
  \/ ctxAnswer[c] = "ok" /\ text = c
  \/ ctxAnswer[c] # "ok" /\ text = 0

\* Faulty variant: the step freezes what it got without looking again.
CtxResumeBlind(i) ==
  /\ ctxStep[i].stage = "waiting"
  /\ \E text \in 0 .. Len(ctxAnswer) :
       CtxRaced(ctxStep[i].call, text) /\ Freeze(i, ctxStep[i].key, text)
  /\ UNCHANGED <<ctxTurn, ctxFlight, ctxAnswer, ctxBackoff>>

\* After the wait: a concurrent step may have frozen the key already, and a
\* late answer is dropped.  A step of an older turn replaces a newer envelope.
CtxResume(i) ==
  /\ ctxStep[i].stage = "waiting"
  /\ IF ctxEnvelope.key = ctxStep[i].key
     THEN CtxUse(i, ctxStep[i].key)
     ELSE \E text \in 0 .. Len(ctxAnswer) :
            CtxRaced(ctxStep[i].call, text) /\ Freeze(i, ctxStep[i].key, text)
  /\ UNCHANGED <<ctxTurn, ctxFlight, ctxAnswer, ctxBackoff>>

\* The turn runs under a policy without runtime context: the envelope goes.
CtxPolicyOff ==
  /\ ctxEnvelope # NoEnvelope
  /\ ctxEnvelope' = NoEnvelope
  /\ UNCHANGED <<ctxTurn, ctxFlight, ctxAnswer, ctxBackoff, ctxStep>>

CtxInit ==
  /\ ctxTurn = 1
  /\ ctxEnvelope = NoEnvelope
  /\ ctxFlight = NoFlight
  /\ ctxAnswer = <<>>
  /\ ctxBackoff = FALSE
  /\ ctxStep = [i \in CtxSteps |-> [stage |-> "idle", key |-> 0, call |-> 0]]

CtxNext ==
  \/ \E i \in CtxSteps : CtxBegin(i) \/ CtxResume(i)
  \/ \E c \in CtxCalls : CtxAnswered(c)
  \/ CtxNewTurn \/ CtxBackoffEnds \/ CtxPolicyOff

CtxSpec == CtxInit /\ [][CtxNext]_ctxVars

-----------------------------------------------------------------------------
(* Properties *)

\* The plugin's maps hold values of their types.
CtxTypeOK ==
  /\ ctxTurn \in CtxKeys
  /\ ctxEnvelope \in [key : 0 .. CtxTurns, text : 0 .. Len(ctxAnswer)]
  /\ ctxFlight \in [key : 0 .. CtxTurns, call : 0 .. Len(ctxAnswer)]
  /\ \A c \in CtxCalls : ctxAnswer[c] \in {"open", "failed", "ok"}
  /\ ctxBackoff \in BOOLEAN
  /\ \A i \in CtxSteps :
       /\ ctxStep[i].stage \in {"idle", "waiting", "done"}
       /\ ctxStep[i].key \in 0 .. CtxTurns
       /\ ctxStep[i].stage = "waiting" => ctxStep[i].call \in CtxCalls

\* While a turn keeps its envelope the text does not change, whichever of its
\* concurrent steps come back late and whatever the server answers them.
FrozenWhileKept ==
  [][ctxEnvelope'.key = ctxEnvelope.key => ctxEnvelope'.text = ctxEnvelope.text]_ctxVars
=============================================================================
