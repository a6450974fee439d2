------------------------------ MODULE DndWait ------------------------------
(***************************************************************************)
(* The automatic wait of a narrator session, config/plugins/dnd-watch.js:  *)
(* after every turn the host waits for player input in the campaign and    *)
(* wakes the session.  A live push link (server-sent events) is a doorbell *)
(* that replaces polling; a read decides whether the model is woken.       *)
(*                                                                         *)
(* The players' inputs are numbered by the sequence of ODM.  Time is left  *)
(* out: a delay that is over soon (backoff, minimum gap, polling) is a     *)
(* step, the five-minute safety read is one the property does not count on.*)
(* Explicit waits, several campaigns and whose table it is are in          *)
(* DndTables; the other wake reasons behave as the player's.               *)
(***************************************************************************)
EXTENDS Naturals

CONSTANTS MaxInputs,   \* bound: player inputs
          MaxAttempts, \* TURN_MAX_ATTEMPTS
          MaxQueued    \* bound: messages in the inbox; one wake more may be under way

ASSUME DndWaitAssumption ==
  MaxInputs \in Nat /\ MaxAttempts \in Nat \ {0} /\ MaxQueued \in Nat \ {0}

VARIABLES posted,     \* the newest input in ODM
          drained,    \* entry.cursor: what the narrator's reads drained
          wait,       \* the watcher's entry; one whose wake is awaited is not waiting
          wokenFor,   \* lastWake: inputs that woke the model
          link,       \* the push link: live or not, and its cursor
          wakes,      \* wakes under way to the session
          inbox,      \* synthetics and user messages that will start a turn
          turn,       \* the session's turn: none or running
          woke,       \* a wake of the watcher awaits its turn
          attempts,   \* failed turns in a row
          arming,     \* arm awaits session.get
          unheard     \* the input whose wake could not be delivered, if nothing is due
                      \* since; or 0

dndWaitVars == <<posted, drained, wait, wokenFor, link, wakes, inbox, turn, woke, attempts,
                 arming, unheard>>

Inputs == 0 .. MaxInputs
NoWait == [on |-> FALSE, scan |-> 0, read |-> "no", seen |-> 0, poked |-> FALSE,
           due |-> TRUE, backoff |-> FALSE]
Newest(keys) == CHOOSE k \in keys : \A j \in keys : j <= k
\* forgetLast: the newest wake never reached a finished turn.
ForgetLast == IF wokenFor = {} THEN wokenFor ELSE wokenFor \ {Newest(wokenFor)}

-----------------------------------------------------------------------------
(* ODM and the push link *)

InputPosted ==
  /\ posted < MaxInputs
  /\ posted' = posted + 1
  /\ UNCHANGED <<drained, wait, wokenFor, link, wakes, inbox, turn, woke, attempts, arming,
                 unheard>>

\* An entry whose wake is awaited is neither poked nor told of the link.
WaitingNow == wait.on /\ wait.read # "waking"

\* poke: the waits of the campaign are read as soon as the gap allows.
Poked == IF WaitingNow THEN [wait EXCEPT !.poked = TRUE, !.due = TRUE] ELSE wait

\* receive: the next event of the stream, or one replayed after a reconnect.
Doorbell ==
  /\ link.up /\ link.cursor < posted
  /\ link' = [link EXCEPT !.cursor = @ + 1]
  /\ wait' = Poked
  /\ unheard' = 0
  /\ UNCHANGED <<posted, drained, wokenFor, wakes, inbox, turn, woke, attempts, arming>>

\* The link connects, or is lost: setPush lets the wait poll again.
LinkChanges ==
  /\ link' = [link EXCEPT !.up = ~@, !.live = FALSE]
  /\ wait' = IF link.live /\ WaitingNow THEN [wait EXCEPT !.due = TRUE] ELSE wait
  /\ UNCHANGED <<posted, drained, wokenFor, wakes, inbox, turn, woke, attempts, arming,
                 unheard>>

\* stream_checkpoint: what was missed has been replayed, and one read catches up.
LinkLive ==
  /\ link.up /\ ~link.live /\ link.cursor = posted
  /\ link' = [link EXCEPT !.live = TRUE]
  /\ wait' = IF WaitingNow THEN [wait EXCEPT !.due = TRUE] ELSE wait
  /\ UNCHANGED <<posted, drained, wokenFor, wakes, inbox, turn, woke, attempts, arming,
                 unheard>>

-----------------------------------------------------------------------------
(* The watcher *)

\* start, with auto: an entry that reads at once, after the retry delay of a
\* failed turn; it replaces one whose wake is still awaited.
StartWait ==
  IF WaitingNow THEN wait
  ELSE [NoWait EXCEPT !.on = TRUE, !.scan = drained, !.backoff = attempts > 0]

DelayOver ==
  /\ wait.backoff
  /\ wait' = [wait EXCEPT !.backoff = FALSE]
  /\ UNCHANGED <<posted, drained, wokenFor, link, wakes, inbox, turn, woke, attempts, arming,
                 unheard>>

\* The safety read of a wait whose link is live.
SafetyRead ==
  /\ wait.on /\ wait.read = "no" /\ ~wait.due
  /\ wait' = [wait EXCEPT !.due = TRUE]
  /\ UNCHANGED <<posted, drained, wokenFor, link, wakes, inbox, turn, woke, attempts, arming,
                 unheard>>

\* tick: one read at a time.
ReadStarts ==
  /\ wait.on /\ wait.read = "no" /\ wait.due /\ ~wait.backoff
  /\ wait' = [wait EXCEPT !.read = "sent", !.poked = FALSE]
  /\ UNCHANGED <<posted, drained, wokenFor, link, wakes, inbox, turn, woke, attempts, arming,
                 unheard>>

ReadServed ==
  /\ wait.read = "sent"
  /\ wait' = [wait EXCEPT !.read = "served", !.seen = posted]
  /\ UNCHANGED <<posted, drained, wokenFor, link, wakes, inbox, turn, woke, attempts, arming,
                 unheard>>

\* Faulty variant: a doorbell that rang during the read is taken as answered.
DueAfterReadDeaf == ~link.live
\* A doorbell that rang during the read gets its own read; otherwise a live link
\* waits for the next signal.
DueAfterRead == wait.poked \/ ~link.live

AfterRead == [wait EXCEPT !.read = "no", !.seen = 0, !.due = DueAfterRead]

\* The read has an input that did not wake the model yet: finish sends a wake, and the
\* entry does not wait until it is answered.
ReadWakes ==
  /\ wait.read = "served"
  /\ wait.seen > wait.scan /\ wait.seen \notin wokenFor
  /\ wakes <= MaxQueued /\ wakes' = wakes + 1
  /\ wokenFor' = wokenFor \cup {wait.seen}
  /\ wait' = [wait EXCEPT !.read = "waking", !.due = DueAfterRead]
  /\ unheard' = 0
  /\ UNCHANGED <<posted, drained, link, inbox, turn, woke, attempts, arming>>

\* The wakes under way of entries that were stopped or replaced meanwhile.
Stale == IF wait.read = "waking" THEN wakes - 1 ELSE wakes

WakeDelivered ==
  /\ wakes > 0 /\ wakes' = wakes - 1
  /\ inbox < MaxQueued /\ inbox' = inbox + 1
  /\ woke' = TRUE
  /\ \/ wait.read = "waking" /\ wait' = NoWait
     \/ Stale > 0 /\ UNCHANGED wait
  /\ UNCHANGED <<posted, drained, wokenFor, link, turn, attempts, arming, unheard>>

\* The wake fails, or only its answer is lost: the entry, if it is still the
\* session's, waits again after a backoff.  When it reads again is what its last read
\* left: the doorbells of the meantime did not reach it.
WakeFails ==
  /\ wakes > 0 /\ wakes' = wakes - 1
  /\ \/ inbox' = inbox
     \/ inbox < MaxQueued /\ inbox' = inbox + 1
  /\ \/ /\ wait.read = "waking"
        /\ wokenFor' = ForgetLast
        /\ wait' = [wait EXCEPT !.read = "no", !.seen = 0, !.backoff = TRUE]
        /\ unheard' = IF wait.due THEN 0 ELSE wait.seen
     \/ Stale > 0 /\ UNCHANGED <<wait, wokenFor, unheard>>
  /\ UNCHANGED <<posted, drained, link, turn, woke, attempts, arming>>

ReadQuiet ==
  /\ wait.read = "served"
  /\ ~(wait.seen > wait.scan /\ wait.seen \notin wokenFor)
  /\ wait' = [AfterRead EXCEPT !.scan = wait.seen]
  /\ unheard' = 0
  /\ UNCHANGED <<posted, drained, wokenFor, link, wakes, inbox, turn, woke, attempts, arming>>

\* An automatic wait outlives failed reads with a backoff.
ReadFails ==
  /\ wait.read \in {"sent", "served"}
  /\ wait' = [wait EXCEPT !.read = "no", !.seen = 0, !.backoff = TRUE]
  /\ UNCHANGED <<posted, drained, wokenFor, link, wakes, inbox, turn, woke, attempts, arming,
                 unheard>>

-----------------------------------------------------------------------------
(* The session *)

TurnStarts ==
  /\ turn = "none" /\ inbox > 0
  /\ inbox' = inbox - 1 /\ turn' = "running"
  /\ UNCHANGED <<posted, drained, wait, wokenFor, link, wakes, woke, attempts, arming,
                 unheard>>

\* remember: a read of the narrator that drained the story.
NarratorReads ==
  /\ turn = "running"
  /\ drained' = posted
  /\ UNCHANGED <<posted, wait, wokenFor, link, wakes, inbox, turn, woke, attempts, arming,
                 unheard>>

TurnSucceeds ==
  /\ turn = "running"
  /\ turn' = "none" /\ woke' = FALSE /\ attempts' = 0 /\ arming' = TRUE
  /\ UNCHANGED <<posted, drained, wait, wokenFor, link, wakes, inbox, unheard>>

\* failedTurn: the same input may wake again, until the attempts are spent.
TurnFails ==
  /\ turn = "running"
  /\ turn' = "none" /\ woke' = FALSE /\ arming' = TRUE
  /\ wait' = NoWait /\ unheard' = 0
  /\ LET retried == woke /\ attempts + 1 < MaxAttempts IN
       /\ attempts' = IF retried THEN attempts + 1 ELSE IF woke THEN 0 ELSE attempts
       /\ wokenFor' = IF retried THEN ForgetLast ELSE wokenFor
  /\ UNCHANGED <<posted, drained, link, wakes, inbox>>

\* An interrupted turn stops the wait; the session is idle and arms again.
TurnInterrupted ==
  /\ turn = "running"
  /\ turn' = "none" /\ woke' = FALSE /\ arming' = TRUE
  /\ wait' = NoWait /\ unheard' = 0
  /\ UNCHANGED <<posted, drained, wokenFor, link, wakes, inbox, attempts>>

\* A message of the operator stops the wait; its turn will arm again.
OperatorWrites ==
  /\ inbox < MaxQueued
  /\ inbox' = inbox + 1
  /\ wait' = NoWait /\ unheard' = 0
  /\ UNCHANGED <<posted, drained, wokenFor, link, wakes, turn, woke, attempts, arming>>

\* A model switch stops the wait and, between turns, arms it again.
ModelSelected ==
  /\ wait' = NoWait /\ unheard' = 0
  /\ arming' = (arming \/ turn = "none")
  /\ UNCHANGED <<posted, drained, wokenFor, link, wakes, inbox, turn, woke, attempts>>

\* arm: session.get answered; a session that fails the check stays unwatched.
Armed ==
  /\ arming
  /\ arming' = FALSE
  /\ wait' \in {StartWait, wait}
  /\ unheard' = IF wait' = wait THEN unheard ELSE 0
  /\ UNCHANGED <<posted, drained, wokenFor, link, wakes, inbox, turn, woke, attempts>>

\* Restart: the table is restored from the status file and armed again.
HostRestarts ==
  /\ wait' = NoWait /\ unheard' = 0 /\ wokenFor' = {} /\ woke' = FALSE
  /\ attempts' = 0 /\ arming' = TRUE /\ turn' = "none" /\ inbox' \in {0, inbox}
  /\ wakes' = 0
  /\ link' = [up |-> FALSE, live |-> FALSE, cursor |-> drained]
  /\ UNCHANGED <<posted, drained>>

DndWaitInit ==
  /\ posted = 0 /\ drained = 0 /\ wait = NoWait /\ wokenFor = {}
  /\ link = [up |-> FALSE, live |-> FALSE, cursor |-> 0]
  /\ wakes = 0 /\ inbox = 0 /\ turn = "none" /\ woke = FALSE /\ attempts = 0
  /\ arming = TRUE /\ unheard = 0

DndWaitNext ==
  \/ InputPosted \/ Doorbell \/ LinkChanges \/ LinkLive
  \/ DelayOver \/ SafetyRead \/ ReadStarts \/ ReadServed \/ ReadQuiet \/ ReadFails
  \/ ReadWakes \/ WakeDelivered \/ WakeFails
  \/ TurnStarts \/ NarratorReads \/ TurnSucceeds \/ TurnFails \/ TurnInterrupted
  \/ OperatorWrites \/ ModelSelected \/ Armed \/ HostRestarts

DndWaitSpec == DndWaitInit /\ [][DndWaitNext]_dndWaitVars

-----------------------------------------------------------------------------
(* Properties *)

\* The watcher's entry and the table's bookkeeping have their types.
DndWaitTypeOK ==
  /\ posted \in Inputs /\ drained \in Inputs
  /\ wait \in [on : BOOLEAN, scan : Inputs, read : {"no", "sent", "served", "waking"},
               seen : Inputs, poked : BOOLEAN, due : BOOLEAN, backoff : BOOLEAN]
  /\ wokenFor \subseteq Inputs
  /\ link \in [up : BOOLEAN, live : BOOLEAN, cursor : Inputs]
  /\ inbox \in 0 .. MaxQueued /\ turn \in {"none", "running"}
  /\ woke \in BOOLEAN /\ attempts \in 0 .. MaxAttempts /\ arming \in BOOLEAN
  /\ unheard \in Inputs /\ wakes \in 0 .. MaxQueued + 1

\* A wait that only the next doorbell (or the five-minute read) will read again has
\* seen every input whose doorbell rang: no input is lost between a read, a doorbell
\* and a reconnect.  The exception is a wait whose last wake could not be delivered:
\* what rang during that wake does not make it read.  But its input is neither skipped
\* nor counted as handled: the read that comes wakes the model for it.
QuietWaitHasSeen ==
  /\ wait.on /\ wait.read = "no" /\ ~wait.due /\ unheard = 0 =>
       wait.scan >= link.cursor \/ link.cursor \in wokenFor
  /\ unheard # 0 => wait.on /\ wait.scan < unheard /\ unheard \notin wokenFor
=============================================================================
