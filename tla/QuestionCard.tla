---------------------------- MODULE QuestionCard ----------------------------
(***************************************************************************)
(* app/advanced-features.js: the card with the question an agent asks in   *)
(* the open chat.  It is filled by events and by polls (at most one at a   *)
(* time, createRefreshCoalescer), emptied by events, polls and the user's  *)
(* own answer.  questionRevision makes a poll under way void; a question   *)
(* that comes while an answer is sent is deferred until it was sent.       *)
(***************************************************************************)
EXTENDS Naturals, Sequences, SequencesExt, FiniteSets, FiniteSetsExt

CONSTANTS Questions,   \* of the sessions of one chat
          NoQuestion,
          MaxNews,     \* bound: events on their way
          MaxLeaves    \* bound: how often the chat is left

ASSUME QuestionAssumption ==
  /\ NoQuestion \notin Questions /\ MaxNews \in Nat /\ MaxLeaves \in Nat

VARIABLES asked,     \* asked[q]: what the server knows of q
          news,      \* events on their way, in order
          shown,     \* state.question
          source,    \* state.questionSource
          deferred,  \* state.questionDeferred
          replies,   \* answers and refusals under way
          replying,  \* state.questionActionPending
          questionPoll,      \* the poll under way
          pollAgain,     \* a forced refresh is to be replayed
          opened,    \* the chat of the questions is the open one
          leaves,    \* how often it was left
          newsMissed,    \* questions whose end an event gap swallowed
          ghosts     \* questions that ended while they were deferred

questionVars == <<asked, news, shown, source, deferred, replies, replying, questionPoll,
                  pollAgain, opened, leaves, newsMissed, ghosts>>

NoPoll == [stage |-> "none", void |-> FALSE, found |-> {}]
NewPoll == [stage |-> "asked", void |-> FALSE, found |-> {}]
Ended(q) == [kind |-> "settled", question |-> q]
Asked(q) == [kind |-> "asked", question |-> q]
OpenQuestions == {q \in Questions : asked[q] = "open"}

-----------------------------------------------------------------------------
(* The server, the agent and other clients *)

AgentAsks(q) ==
  /\ asked[q] = "new" /\ Len(news) < MaxNews
  /\ asked' = [asked EXCEPT ![q] = "open"]
  /\ news' = Append(news, Asked(q))
  /\ UNCHANGED <<shown, source, deferred, replies, replying, questionPoll, pollAgain,
                 opened, leaves, newsMissed, ghosts>>

\* Another client answers, or the agent withdraws the question.
SettledElsewhere(q) ==
  /\ asked[q] = "open" /\ Len(news) < MaxNews
  /\ asked' = [asked EXCEPT ![q] = "settled"]
  /\ news' = Append(news, Ended(q))
  /\ UNCHANGED <<shown, source, deferred, replies, replying, questionPoll, pollAgain,
                 opened, leaves, newsMissed, ghosts>>

\* The event stream is lost with what is on its way.
NewsLost ==
  /\ news # <<>>
  /\ news' = <<>>
  /\ newsMissed' = newsMissed \cup {e.question : e \in {e \in ToSet(news) : e.kind = "settled"}}
  /\ UNCHANGED <<asked, shown, source, deferred, replies, replying, questionPoll,
                 pollAgain, opened, leaves, ghosts>>

-----------------------------------------------------------------------------
(* setQuestionRequest and the refreshes *)

Show(q, from) == shown' = q /\ source' = IF q = NoQuestion THEN "" ELSE from
\* questionRevision += 1, with a forced refresh or without.
VoidPoll(force) ==
  /\ questionPoll' = IF questionPoll.stage # "none" THEN [questionPoll EXCEPT !.void = TRUE]
             ELSE IF force THEN NewPoll ELSE questionPoll
  /\ pollAgain' = (pollAgain \/ (force /\ questionPoll.stage # "none"))

\* tickFast, or the page becomes visible.
StartPoll ==
  /\ opened /\ questionPoll.stage = "none"
  /\ questionPoll' = NewPoll
  /\ UNCHANGED <<asked, news, shown, source, deferred, replies, replying, pollAgain,
                 opened, leaves, newsMissed, ghosts>>

ServePoll ==
  /\ questionPoll.stage = "asked"
  /\ questionPoll' = [questionPoll EXCEPT !.stage = "served", !.found = OpenQuestions]
  /\ UNCHANGED <<asked, news, shown, source, deferred, replies, replying, pollAgain,
                 opened, leaves, newsMissed, ghosts>>

\* An error counts as an empty answer (questionRequests).
PollFails ==
  /\ questionPoll.stage = "asked"
  /\ questionPoll' = [questionPoll EXCEPT !.stage = "served"]
  /\ UNCHANGED <<asked, news, shown, source, deferred, replies, replying, pollAgain,
                 opened, leaves, newsMissed, ghosts>>

\* Faulty variant: an older poll counts after an event or an answer.
StillCountsAlways == opened
\* refreshQuestionsNow: the same chat and the same revision.
StillCounts == opened /\ ~questionPoll.void

\* An empty answer does not take away what an event brought.
PollAnswers ==
  /\ questionPoll.stage = "served"
  /\ IF StillCounts /\ ~(questionPoll.found = {} /\ source = "event")
     THEN IF questionPoll.found = {} THEN Show(NoQuestion, "") ELSE \E q \in questionPoll.found : Show(q, "poll")
     ELSE UNCHANGED <<shown, source>>
  /\ questionPoll' = IF pollAgain THEN NewPoll ELSE NoPoll
  /\ pollAgain' = FALSE
  /\ UNCHANGED <<asked, news, deferred, replies, replying, opened, leaves, newsMissed,
                 ghosts>>

-----------------------------------------------------------------------------
(* handleQuestionEvent *)

EventAsked(q) ==
  /\ VoidPoll(FALSE)
  /\ IF shown \in {NoQuestion, q}
     THEN Show(q, "event") /\ UNCHANGED deferred
     ELSE /\ deferred' = IF replying THEN q ELSE deferred
          /\ UNCHANGED <<shown, source>>
  /\ UNCHANGED ghosts

\* A deferred question that ends stays deferred.
EventSettled(q) ==
  /\ VoidPoll(TRUE)
  /\ IF shown = q THEN Show(NoQuestion, "") ELSE UNCHANGED <<shown, source>>
  /\ ghosts' = ghosts \cup ({q} \cap {deferred})
  /\ UNCHANGED deferred

QuestionEvent ==
  /\ news # <<>>
  /\ news' = Tail(news)
  /\ IF ~opened THEN UNCHANGED <<shown, source, deferred, questionPoll, pollAgain,
                                 ghosts>>
     ELSE LET e == Head(news)
          IN IF e.kind = "asked" THEN EventAsked(e.question) ELSE EventSettled(e.question)
  /\ UNCHANGED <<asked, replies, replying, opened, leaves, newsMissed>>

-----------------------------------------------------------------------------
(* submitQuestion and rejectQuestion *)

Reply ==
  /\ shown # NoQuestion /\ ~replying
  /\ replying' = TRUE
  /\ replies' = replies \cup {[question |-> shown, taken |-> FALSE]}
  /\ UNCHANGED <<asked, news, shown, source, deferred, questionPoll, pollAgain, opened,
                 leaves, newsMissed, ghosts>>

\* The server refuses an answer to a question that is no longer open.
ReplyTaken(r) ==
  /\ r \in replies /\ ~r.taken /\ asked[r.question] = "open" /\ Len(news) < MaxNews
  /\ asked' = [asked EXCEPT ![r.question] = "settled"]
  /\ news' = Append(news, Ended(r.question))
  /\ replies' = (replies \ {r}) \cup {[r EXCEPT !.taken = TRUE]}
  /\ UNCHANGED <<shown, source, deferred, replying, questionPoll, pollAgain, opened,
                 leaves, newsMissed, ghosts>>

\* The card of the answer goes, unless another one is there; then the deferred
\* question has its turn.
ReplyDone(r) ==
  /\ r \in replies /\ r.taken
  /\ replies' = replies \ {r} /\ replying' = FALSE
  /\ deferred' = NoQuestion
  /\ LET left == IF shown = r.question THEN NoQuestion ELSE shown
     IN IF left = NoQuestion THEN Show(deferred, "event") ELSE UNCHANGED <<shown,
                                                                           source>>
  /\ IF shown = r.question THEN VoidPoll(FALSE) ELSE UNCHANGED <<questionPoll,
                                                                 pollAgain>>
  /\ UNCHANGED <<asked, news, opened, leaves, newsMissed, ghosts>>

\* The card stays for another try; a deferred question is dropped.
ReplyFails(r) ==
  /\ r \in replies
  /\ replies' = replies \ {r} /\ replying' = FALSE
  /\ deferred' = NoQuestion
  /\ UNCHANGED <<asked, news, shown, source, questionPoll, pollAgain, opened, leaves,
                 newsMissed, ghosts>>

-----------------------------------------------------------------------------
(* selectSessionState *)

LeaveChat ==
  /\ opened /\ leaves < MaxLeaves
  /\ opened' = FALSE /\ leaves' = leaves + 1
  /\ Show(NoQuestion, "") /\ deferred' = NoQuestion /\ replying' = FALSE
  /\ VoidPoll(FALSE)
  /\ UNCHANGED <<asked, news, replies, newsMissed, ghosts>>

\* refreshSelectedSessionNow forces a refresh.
EnterChat ==
  /\ ~opened
  /\ opened' = TRUE
  /\ VoidPoll(TRUE)
  /\ UNCHANGED <<asked, news, shown, source, deferred, replies, replying, leaves,
                 newsMissed, ghosts>>

-----------------------------------------------------------------------------
QuestionInit ==
  /\ asked = [q \in Questions |-> "new"] /\ news = <<>>
  /\ shown = NoQuestion /\ source = "" /\ deferred = NoQuestion
  /\ replies = {} /\ replying = FALSE /\ questionPoll = NoPoll /\ pollAgain = FALSE
  /\ opened = TRUE /\ leaves = 0 /\ newsMissed = {} /\ ghosts = {}

QuestionNext ==
  \/ \E q \in Questions : AgentAsks(q) \/ SettledElsewhere(q)
  \/ NewsLost \/ StartPoll \/ ServePoll \/ PollFails \/ PollAnswers \/ QuestionEvent \/ Reply
  \/ \E r \in replies : ReplyTaken(r) \/ ReplyDone(r) \/ ReplyFails(r)
  \/ LeaveChat \/ EnterChat

QuestionSpec == QuestionInit /\ [][QuestionNext]_questionVars

\* The card keeps values of their types.
QuestionTypeOK ==
  /\ asked \in [Questions -> {"new", "open", "settled"}]
  /\ \A i \in DOMAIN news : news[i].kind \in {"asked", "settled"} /\ news[i].question \in Questions
  /\ shown \in Questions \cup {NoQuestion} /\ deferred \in Questions \cup {NoQuestion}
  /\ source \in {"", "event", "poll"} /\ (source = "" <=> shown = NoQuestion)
  /\ replies \subseteq [question : Questions, taken : BOOLEAN] /\ replying \in BOOLEAN
  /\ questionPoll \in [stage : {"none", "asked", "served"}, void : BOOLEAN, found : SUBSET Questions]
  /\ pollAgain \in BOOLEAN /\ opened \in BOOLEAN /\ leaves \in Nat
  /\ newsMissed \subseteq Questions /\ ghosts \subseteq Questions

\* A question that was answered, here or elsewhere, does not come back to the
\* card from an older poll: one that is over is shown only until the event of its
\* end arrives.  Excused are a lost event and a question that ended deferred.
CardIsLive ==
  shown # NoQuestion /\ asked[shown] = "settled" =>
    \/ \E i \in DOMAIN news : news[i] = Ended(shown)
    \/ shown \in newsMissed \cup ghosts
=============================================================================
