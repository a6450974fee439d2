----------------------------- MODULE PromptQueue -----------------------------
(***************************************************************************)
(* app/app.js: the prompts of one chat.  A prompt is sent at once, steers  *)
(* the running answer or waits in state.queues; whether the chat runs is   *)
(* known from the events, from status snapshots and from what the page     *)
(* itself just sent (an optimistic run).  A newer fact of the page makes   *)
(* the snapshot under way void (invalidateRunSync).                        *)
(***************************************************************************)
EXTENDS Naturals, Sequences, FiniteSets, SequencesExt

CONSTANTS Prompts,   \* what the user sends in the chat
          MaxSignals,\* bound: run events on their way
          MaxFailed  \* bound: sends that fail

ASSUME PromptAssumption ==
  IsFiniteSet(Prompts) /\ MaxSignals \in Nat /\ MaxFailed \in Nat

VARIABLES working,  \* the server runs the chat: "no", "ours" or "other"
          accepted, \* the prompts the server has
          doubled,  \* those it took twice
          failures, \* sends that failed
          signals,  \* started and ended events on their way
          composer, \* prompts in the user's hands
          queued,   \* state.queues
          sending,  \* prompts under way, with the run entry they replaced
          chatRuns,  \* state.running
          statusRead, \* the status snapshot that still counts
          here,     \* the chat is the selected one
          dropped,  \* prompts that failed with another chat open
          unsure,   \* prompts that were taken and whose answer was lost
          cut       \* a snapshot that crossed no prompt ended a run of the page's

promptVars == <<working, accepted, doubled, failures, signals, composer, queued,
                sending, chatRuns, statusRead, here, dropped, unsure, cut>>

Run(optimistic) == [on |-> TRUE, optimistic |-> optimistic, old |-> FALSE]
NoRun == [on |-> FALSE, optimistic |-> FALSE, old |-> FALSE]
Flight(p, fromQueue) == [prompt |-> p, queue |-> fromQueue, taken |-> FALSE, before |-> chatRuns]

-----------------------------------------------------------------------------
(* The server *)

Accept(f) ==
  /\ f \in sending /\ ~f.taken
  /\ sending' = (sending \ {f}) \cup {[f EXCEPT !.taken = TRUE]}
  /\ Len(signals) < MaxSignals
  /\ accepted' = accepted \cup {f.prompt}
  /\ doubled' = doubled \cup ({f.prompt} \cap accepted)
  /\ working' = "ours"
  /\ signals' = IF working = "no" THEN Append(signals, "started") ELSE signals
  /\ UNCHANGED <<failures, composer, queued, chatRuns, statusRead, here, dropped,
                 unsure, cut>>

\* Another client prompts the chat.
OtherPrompt ==
  /\ working = "no" /\ Len(signals) < MaxSignals
  /\ working' = "other" /\ signals' = Append(signals, "started")
  /\ UNCHANGED <<accepted, doubled, failures, composer, queued, sending, chatRuns,
                 statusRead, here, dropped, unsure, cut>>

AnswerEnds ==
  /\ working # "no" /\ Len(signals) < MaxSignals
  /\ working' = "no" /\ signals' = Append(signals, "ended")
  /\ UNCHANGED <<accepted, doubled, failures, composer, queued, sending, chatRuns,
                 statusRead, here, dropped, unsure, cut>>

-----------------------------------------------------------------------------
(* sendMessage *)

\* Delivery "queue" while an answer runs.
QueuePrompt(p) ==
  /\ here /\ p \in composer /\ chatRuns.on
  /\ composer' = composer \ {p}
  /\ queued' = Append(queued, p)
  /\ UNCHANGED <<working, accepted, doubled, failures, signals, sending, chatRuns,
                 statusRead, here, dropped, unsure, cut>>

\* Faulty variant: the snapshot under way still counts after a prompt is sent.
VoidedNever == statusRead
\* invalidateRunSync
Voided == "none"

SendPrompt(p) ==
  /\ here /\ p \in composer
  /\ composer' = composer \ {p}
  /\ sending' = sending \cup {Flight(p, FALSE)}
  /\ chatRuns' = Run(TRUE)
  /\ statusRead' = Voided
  /\ UNCHANGED <<working, accepted, doubled, failures, signals, queued, here, dropped,
                 unsure, cut>>

Answered(f) ==
  /\ f \in sending /\ f.taken
  /\ sending' = sending \ {f}
  /\ UNCHANGED <<working, accepted, doubled, failures, signals, composer, queued,
                 chatRuns, statusRead, here, dropped, unsure, cut>>

\* The run entry is put back; the text returns to the composer of the open chat,
\* a queued prompt to the front of its queue.
SendFails(f) ==
  /\ f \in sending /\ failures < MaxFailed
  /\ failures' = failures + 1
  /\ sending' = sending \ {f}
  /\ statusRead' = Voided
  /\ chatRuns' = IF f.queue THEN NoRun ELSE f.before
  /\ queued' = IF f.queue THEN <<f.prompt>> \o queued ELSE queued
  /\ composer' = IF ~f.queue /\ here THEN composer \cup {f.prompt} ELSE composer
  /\ dropped' = IF ~f.queue /\ ~here THEN dropped \cup {f.prompt} ELSE dropped
  /\ unsure' = IF f.taken THEN unsure \cup {f.prompt} ELSE unsure
  /\ UNCHANGED <<working, accepted, doubled, signals, here, cut>>

SwitchChat ==
  /\ here' = ~here
  /\ UNCHANGED <<working, accepted, doubled, failures, signals, composer, queued,
                 sending, chatRuns, statusRead, dropped, unsure, cut>>

-----------------------------------------------------------------------------
(* markStarted, markFinished with flushQueue *)

MarkFinished ==
  /\ statusRead' = Voided
  /\ IF queued # <<>>
       THEN /\ queued' = Tail(queued)
            /\ sending' = sending \cup {[Flight(Head(queued), TRUE) EXCEPT !.before = NoRun]}
            /\ chatRuns' = Run(TRUE)
       ELSE chatRuns' = NoRun /\ UNCHANGED <<queued, sending>>

Signal ==
  /\ signals # <<>>
  /\ signals' = Tail(signals)
  /\ IF Head(signals) = "started"
       THEN /\ chatRuns' = Run(FALSE) /\ statusRead' = Voided
            /\ UNCHANGED <<queued, sending>>
       ELSE MarkFinished
  /\ UNCHANGED <<working, accepted, doubled, failures, composer, here, dropped, unsure,
                 cut>>

-----------------------------------------------------------------------------
(* pollStatuses and syncRunStatuses *)

AskStatus ==
  /\ statusRead' = "asked"
  /\ UNCHANGED <<working, accepted, doubled, failures, signals, composer, queued,
                 sending, chatRuns, here, dropped, unsure, cut>>

\* A snapshot read while a prompt was on its way has crossed it.
ReadStatus ==
  /\ statusRead = "asked"
  /\ statusRead' = IF working # "no" THEN "active"
                 ELSE IF sending = {} THEN "idle" ELSE "crossed"
  /\ UNCHANGED <<working, accepted, doubled, failures, signals, composer, queued,
                 sending, chatRuns, here, dropped, unsure, cut>>

StatusActive ==
  /\ statusRead = "active"
  /\ statusRead' = "none"
  /\ chatRuns' = IF chatRuns.on THEN [chatRuns EXCEPT !.optimistic = FALSE] ELSE Run(FALSE)
  /\ UNCHANGED <<working, accepted, doubled, failures, signals, composer, queued,
                 sending, here, dropped, unsure, cut>>

\* listed: the snapshot names idle chats too, so that a run it confirmed before
\* ends at once; otherwise only a run five seconds old does.
StatusIdle(listed) ==
  /\ statusRead \in {"idle", "crossed"}
  /\ IF chatRuns.on /\ sending = {} /\ ((~chatRuns.optimistic /\ listed) \/ chatRuns.old)
       THEN /\ MarkFinished
            /\ cut' = (cut \/ (working = "ours" /\ statusRead = "idle"))
       ELSE /\ statusRead' = "none"
            /\ UNCHANGED <<chatRuns, queued, sending, cut>>
  /\ UNCHANGED <<working, accepted, doubled, failures, signals, composer, here, dropped,
                 unsure>>

\* Five seconds since the run began: longer than the prompt and a snapshot asked
\* while it was under way take together.
RunAges ==
  /\ chatRuns.on /\ ~chatRuns.old /\ sending = {} /\ statusRead = "none"
  /\ chatRuns' = [chatRuns EXCEPT !.old = TRUE]
  /\ UNCHANGED <<working, accepted, doubled, failures, signals, composer, queued,
                 sending, statusRead, here, dropped, unsure, cut>>

-----------------------------------------------------------------------------
PromptInit ==
  /\ working = "no" /\ accepted = {} /\ doubled = {} /\ failures = 0 /\ signals = <<>>
  /\ composer = Prompts /\ queued = <<>> /\ sending = {}
  /\ chatRuns = NoRun /\ statusRead = "none" /\ here = TRUE
  /\ dropped = {} /\ unsure = {} /\ cut = FALSE

PromptNext ==
  \/ \E f \in sending : Accept(f) \/ Answered(f) \/ SendFails(f)
  \/ \E p \in Prompts : QueuePrompt(p) \/ SendPrompt(p)
  \/ OtherPrompt \/ AnswerEnds \/ SwitchChat \/ Signal
  \/ AskStatus \/ ReadStatus \/ StatusActive \/ RunAges
  \/ \E listed \in BOOLEAN : StatusIdle(listed)

PromptSpec == PromptInit /\ [][PromptNext]_promptVars

-----------------------------------------------------------------------------
PromptTypeOK ==
  /\ working \in {"no", "ours", "other"}
  /\ accepted \subseteq Prompts /\ doubled \subseteq Prompts /\ failures \in 0..MaxFailed
  /\ queued \in Seq(Prompts)
  /\ signals \in Seq({"started", "ended"})
  /\ composer \subseteq Prompts /\ dropped \subseteq Prompts /\ unsure \subseteq Prompts
  /\ \A f \in sending : f.prompt \in Prompts /\ f.queue \in BOOLEAN /\ f.taken \in BOOLEAN
  /\ statusRead \in {"none", "asked", "active", "idle", "crossed"}
  /\ here \in BOOLEAN /\ cut \in BOOLEAN

\* Where each prompt is; the parts are disjoint unless an answer was lost.
Places(p) == <<p \in composer, p \in ToSet(queued), \E f \in sending : f.prompt = p /\ ~f.taken,
               p \in accepted, p \in dropped>>

\* Every prompt is in one place and reaches the server at most once, apart from
\* one whose answer was lost; and a snapshot that crossed no prompt never ends a
\* run while the server works on a prompt of this page
\* (flushQueue's shift and unshift, sendMessage's restore, invalidateRunSync).
PromptsAccounted ==
  /\ \A p \in Prompts \ unsure : Cardinality({i \in 1..5 : Places(p)[i]}) = 1
  /\ doubled \subseteq unsure /\ unsure \subseteq accepted
  /\ ~cut
=============================================================================
