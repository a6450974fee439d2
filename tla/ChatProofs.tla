----------------------------- MODULE ChatProofs -----------------------------
(***************************************************************************)
(* The open chat of the web client: the question card, the history, the    *)
(* composer, the permission banner and the dialogs.  For each an inductive *)
(* invariant, its proof, and the part of PageSound (MCClients) it implies. *)
(***************************************************************************)
EXTENDS QuestionCard, ChatHistory, Composer, PermissionBanner, ModalHistory,
        SequenceTheorems, FiniteSetTheorems, TLAPS

-----------------------------------------------------------------------------
(* The card with a question (QuestionCard).  A question that is over and    *)
(* may still reach the card is on its way to leave it: its end follows its  *)
(* beginning in the stream of events, or is excused.                        *)

QuestionNews == [kind : {"asked", "settled"}, question : Questions]
QuestionPolls == [stage : {"none", "asked", "served"}, void : BOOLEAN, found : SUBSET Questions]
EndUnderWay(q) == \E i \in DOMAIN news : news[i] = Ended(q)
MayLeave(q) ==
  q \in Questions /\ asked[q] = "settled" => EndUnderWay(q) \/ q \in newsMissed \cup ghosts
EndFollows ==
  \A i \in DOMAIN news :
    news[i].kind = "asked" /\ asked[news[i].question] = "settled" =>
      \/ \E j \in DOMAIN news : j > i /\ news[j] = Ended(news[i].question)
      \/ news[i].question \in newsMissed \cup ghosts

QuestionIInv ==
  /\ asked \in [Questions -> {"new", "open", "settled"}]
  /\ news \in Seq(QuestionNews)
  /\ shown \in Questions \cup {NoQuestion} /\ deferred \in Questions \cup {NoQuestion}
  /\ replies \subseteq [question : Questions, taken : BOOLEAN]
  /\ questionPoll \in QuestionPolls /\ opened \in BOOLEAN
  /\ questionPoll.stage # "served" => questionPoll.found = {}
  /\ ~opened => shown = NoQuestion /\ deferred = NoQuestion
  /\ MayLeave(shown) /\ MayLeave(deferred)
  /\ opened /\ questionPoll.stage = "served" /\ ~questionPoll.void =>
       \A q \in questionPoll.found : MayLeave(q)
  /\ EndFollows

\* Nothing is asked at first.
LEMMA QuestionInitOK == QuestionInit => QuestionIInv
<1> SUFFICES ASSUME QuestionInit PROVE QuestionIInv
  OBVIOUS
<1>1. NoPoll \in QuestionPolls
  BY DEF NoPoll, QuestionPolls
<1>2. news = <<>> /\ DOMAIN news = {} /\ news \in Seq(QuestionNews)
  <2>1. news = <<>>
    BY DEF QuestionInit
  <2>2. <<>> \in Seq(QuestionNews) /\ DOMAIN <<>> = {}
    OBVIOUS
  <2> QED BY <2>1, <2>2
<1>3. \A q : MayLeave(q)
  BY DEF QuestionInit, MayLeave
<1>4. EndFollows
  BY <1>2 DEF EndFollows
<1> QED BY <1>1, <1>2, <1>3, <1>4 DEF QuestionInit, QuestionIInv, NoPoll

\* What an event at the end of the stream leaves as it was.
LEMMA NewsAppended ==
  ASSUME QuestionIInv, NEW e \in QuestionNews, news' = Append(news, e)
  PROVE  /\ news' \in Seq(QuestionNews) /\ DOMAIN news' = 1 .. Len(news) + 1
         /\ DOMAIN news = 1 .. Len(news) /\ Len(news) \in Nat
         /\ \A i \in DOMAIN news : news'[i] = news[i]
         /\ news'[Len(news) + 1] = e
<1>1. news \in Seq(QuestionNews)
  BY DEF QuestionIInv
<1> HIDE DEF QuestionNews
<1> QED BY <1>1, AppendProperties, LenProperties

\* The server settles a question and says so.
LEMMA SettledOK ==
  ASSUME QuestionIInv, NEW q \in Questions, asked[q] = "open",
         asked' = [asked EXCEPT ![q] = "settled"], news' = Append(news, Ended(q)),
         UNCHANGED <<shown, deferred, questionPoll, opened, newsMissed, ghosts>>,
         replies' \subseteq [question : Questions, taken : BOOLEAN]
  PROVE  QuestionIInv'
<1>0. Ended(q) \in QuestionNews
  BY DEF Ended, QuestionNews
<1>1. /\ news' \in Seq(QuestionNews) /\ DOMAIN news' = 1 .. Len(news) + 1
      /\ DOMAIN news = 1 .. Len(news) /\ Len(news) \in Nat
      /\ \A i \in DOMAIN news : news'[i] = news[i]
      /\ news'[Len(news) + 1] = Ended(q)
  BY <1>0, NewsAppended
<1>2. /\ asked' \in [Questions -> {"new", "open", "settled"}]
      /\ \A p \in Questions : p # q => asked'[p] = asked[p]
  BY DEF QuestionIInv
<1>3. ASSUME NEW p, MayLeave(p) PROVE MayLeave(p)'
  <2>1. CASE p = q
    BY <1>1, <2>1 DEF MayLeave, EndUnderWay
  <2>2. CASE p # q
    BY <1>1, <1>2, <1>3, <2>2 DEF MayLeave, EndUnderWay
  <2> QED BY <2>1, <2>2
<1>4. EndFollows'
  <2> SUFFICES ASSUME NEW i \in DOMAIN news', news'[i].kind = "asked",
                      asked'[news'[i].question] = "settled"
               PROVE  \/ \E j \in DOMAIN news' : j > i /\ news'[j] = Ended(news'[i].question)
                      \/ news'[i].question \in newsMissed' \cup ghosts'
    BY DEF EndFollows
  <2>1. i \in DOMAIN news
    BY <1>1 DEF Ended
  <2>2. CASE news[i].question = q
    <3>1. Len(news) + 1 > i /\ Len(news) + 1 \in DOMAIN news'
      BY <1>1, <2>1
    <3> QED BY <1>1, <2>1, <2>2, <3>1
  <2>3. CASE news[i].question # q
    <3>1. news[i].question \in Questions
      <4>1. news[i] \in QuestionNews
        BY <1>1, <2>1, ElementOfSeq DEF QuestionIInv
      <4> QED BY <4>1 DEF QuestionNews
    <3>2. asked[news[i].question] = "settled" /\ news[i].kind = "asked"
      BY <1>1, <1>2, <2>1, <2>3, <3>1
    <3>3. \/ \E j \in DOMAIN news : j > i /\ news[j] = Ended(news[i].question)
          \/ news[i].question \in newsMissed \cup ghosts
      BY <2>1, <3>2 DEF QuestionIInv, EndFollows
    <3> QED BY <1>1, <2>1, <3>3
  <2> QED BY <2>2, <2>3
<1> QED BY <1>1, <1>2, <1>3, <1>4 DEF QuestionIInv

\* A question is asked for the first time.
LEMMA QuestionAsksOK == QuestionIInv /\ (\E q \in Questions : AgentAsks(q)) => QuestionIInv'
<1> SUFFICES ASSUME QuestionIInv, NEW q \in Questions, AgentAsks(q) PROVE QuestionIInv'
  OBVIOUS
<1>0. Asked(q) \in QuestionNews /\ asked[q] = "new"
  BY DEF Asked, QuestionNews, AgentAsks
<1>1. /\ news' \in Seq(QuestionNews) /\ DOMAIN news' = 1 .. Len(news) + 1
      /\ DOMAIN news = 1 .. Len(news) /\ Len(news) \in Nat
      /\ \A i \in DOMAIN news : news'[i] = news[i]
      /\ news'[Len(news) + 1] = Asked(q)
  BY <1>0, NewsAppended DEF AgentAsks
<1>2. /\ asked' \in [Questions -> {"new", "open", "settled"}] /\ asked'[q] = "open"
      /\ \A p \in Questions : p # q => asked'[p] = asked[p]
  BY DEF QuestionIInv, AgentAsks
<1>3. ASSUME NEW p, MayLeave(p) PROVE MayLeave(p)'
  BY <1>1, <1>2, <1>3 DEF MayLeave, EndUnderWay, AgentAsks
<1>4. EndFollows'
  <2> SUFFICES ASSUME NEW i \in DOMAIN news', news'[i].kind = "asked",
                      asked'[news'[i].question] = "settled"
               PROVE  \/ \E j \in DOMAIN news' : j > i /\ news'[j] = Ended(news'[i].question)
                      \/ news'[i].question \in newsMissed' \cup ghosts'
    BY DEF EndFollows
  <2>1. news'[i].question # q /\ i # Len(news) + 1
    BY <1>1, <1>2 DEF Asked
  <2>2. i \in DOMAIN news
    BY <1>1, <2>1
  <2>3. news[i] \in QuestionNews
    BY <1>1, <2>2, ElementOfSeq DEF QuestionIInv
  <2>4. asked[news[i].question] = "settled" /\ news[i].kind = "asked"
    BY <1>1, <1>2, <2>1, <2>2, <2>3 DEF QuestionNews
  <2> QED BY <1>1, <2>2, <2>4 DEF QuestionIInv, EndFollows, AgentAsks
<1> QED BY <1>1, <1>2, <1>3, <1>4 DEF QuestionIInv, AgentAsks

\* A lost stream excuses every question whose end was in it.
LEMMA NewsLostOK == QuestionIInv /\ NewsLost => QuestionIInv'
<1> SUFFICES ASSUME QuestionIInv, NewsLost PROVE QuestionIInv'
  OBVIOUS
<1>1. news' = <<>> /\ DOMAIN news' = {} /\ news' \in Seq(QuestionNews)
  BY DEF NewsLost
<1>2. \A i \in DOMAIN news : news[i].kind = "settled" => news[i].question \in newsMissed'
  BY DEF NewsLost, ToSet
<1>3. ASSUME NEW p, MayLeave(p) PROVE MayLeave(p)'
  <2>1. \A i \in DOMAIN news : news[i] = Ended(p) => p \in newsMissed'
    BY <1>2 DEF Ended
  <2> QED BY <1>3, <2>1 DEF MayLeave, EndUnderWay, NewsLost
<1>4. EndFollows'
  BY <1>1 DEF EndFollows
<1> QED BY <1>1, <1>3, <1>4 DEF QuestionIInv, NewsLost

\* A poll that is voided stays a poll.
LEMMA VoidPollOK ==
  ASSUME QuestionIInv, NEW force \in BOOLEAN, VoidPoll(force)
  PROVE  /\ questionPoll' \in QuestionPolls
         /\ questionPoll'.stage # "served" => questionPoll'.found = {}
         /\ questionPoll'.stage = "served" => questionPoll'.void
<1>1. NewPoll \in QuestionPolls /\ NewPoll.stage = "asked" /\ NewPoll.found = {}
  BY DEF NewPoll, QuestionPolls
<1>2. CASE questionPoll.stage # "none"
  BY <1>2 DEF VoidPoll, QuestionIInv, QuestionPolls
<1>3. CASE questionPoll.stage = "none"
  BY <1>1, <1>3 DEF VoidPoll, QuestionIInv
<1> QED BY <1>2, <1>3

\* The polls: a fresh answer knows open questions only.
LEMMA PollsOK ==
  QuestionIInv /\ (StartPoll \/ ServePoll \/ PollFails \/ PollAnswers) => QuestionIInv'
<1> SUFFICES ASSUME QuestionIInv, StartPoll \/ ServePoll \/ PollFails \/ PollAnswers
             PROVE  QuestionIInv'
  OBVIOUS
<1>1. /\ NewPoll \in QuestionPolls /\ NewPoll.stage = "asked" /\ NewPoll.found = {}
      /\ NoPoll \in QuestionPolls /\ NoPoll.stage = "none" /\ NoPoll.found = {}
  BY DEF NewPoll, NoPoll, QuestionPolls
<1>2. UNCHANGED <<asked, news, deferred, replies, opened, newsMissed, ghosts>>
  BY DEF StartPoll, ServePoll, PollFails, PollAnswers
<1>3. \A p : MayLeave(p) => MayLeave(p)'
  BY <1>2 DEF MayLeave, EndUnderWay
<1>4. EndFollows'
  BY <1>2 DEF EndFollows, QuestionIInv
<1>5. CASE StartPoll
  BY <1>1, <1>2, <1>3, <1>4, <1>5 DEF StartPoll, QuestionIInv
<1>6. CASE ServePoll
  <2>1. /\ questionPoll' \in QuestionPolls /\ questionPoll'.stage = "served"
        /\ questionPoll'.found = OpenQuestions
    BY <1>6 DEF ServePoll, QuestionIInv, QuestionPolls, OpenQuestions
  <2>2. \A q \in OpenQuestions : MayLeave(q)'
    BY <1>2 DEF OpenQuestions, MayLeave
  <2> QED BY <1>2, <1>3, <1>4, <1>6, <2>1, <2>2 DEF ServePoll, QuestionIInv
<1>7. CASE PollFails
  <2>1. /\ questionPoll' \in QuestionPolls /\ questionPoll'.found = {}
    BY <1>7 DEF PollFails, QuestionIInv, QuestionPolls
  <2> QED BY <1>2, <1>3, <1>4, <1>7, <2>1 DEF PollFails, QuestionIInv
<1>8. CASE PollAnswers
  <2>1. /\ questionPoll' \in QuestionPolls /\ questionPoll'.found = {}
        /\ questionPoll'.stage # "served"
    BY <1>1, <1>8 DEF PollAnswers
  <2>2. /\ shown' \in Questions \cup {NoQuestion} /\ MayLeave(shown')
        /\ ~opened => shown' = NoQuestion
    <3>1. CASE UNCHANGED <<shown, source>>
      BY <3>1 DEF QuestionIInv
    <3>2. CASE shown' = NoQuestion
      BY <3>2, QuestionAssumption DEF MayLeave
    <3>3. CASE StillCounts /\ \E q \in questionPoll.found : shown' = q
      BY <1>8, <3>3 DEF StillCounts, PollAnswers, QuestionIInv, QuestionPolls
    <3> QED BY <1>8, <3>1, <3>2, <3>3 DEF PollAnswers, Show
  <2>3. MayLeave(shown)' /\ MayLeave(deferred)'
    BY <1>2, <2>2 DEF MayLeave, EndUnderWay, QuestionIInv
  <2> QED BY <1>2, <1>4, <2>1, <2>2, <2>3 DEF QuestionIInv
<1> QED BY <1>5, <1>6, <1>7, <1>8

\* The head of the stream is taken from it.
LEMMA NewsTaken ==
  ASSUME QuestionIInv, news # <<>>, news' = Tail(news)
  PROVE  /\ news' \in Seq(QuestionNews) /\ Head(news) \in QuestionNews
         /\ Len(news) \in Nat /\ DOMAIN news = 1 .. Len(news)
         /\ DOMAIN news' = 1 .. Len(news) - 1 /\ Head(news) = news[1]
         /\ \A i \in DOMAIN news' : news'[i] = news[i + 1]
<1>1. news \in Seq(QuestionNews)
  BY DEF QuestionIInv
<1> HIDE DEF QuestionNews
<1> QED BY <1>1, HeadTailProperties, LenProperties, ElementOfSeq

\* An event is handled.  The end of a question takes it from the card, voids the
\* poll that might know it, and excuses it where it is deferred.
LEMMA EventOK == QuestionIInv /\ QuestionEvent => QuestionIInv'
<1> SUFFICES ASSUME QuestionIInv, QuestionEvent PROVE QuestionIInv'
  OBVIOUS
<1> DEFINE e == Head(news)
<1>1. /\ news' \in Seq(QuestionNews) /\ e \in QuestionNews
      /\ Len(news) \in Nat /\ DOMAIN news = 1 .. Len(news)
      /\ DOMAIN news' = 1 .. Len(news) - 1 /\ e = news[1]
      /\ \A i \in DOMAIN news' : news'[i] = news[i + 1]
  BY NewsTaken DEF QuestionEvent
<1>2. UNCHANGED <<asked, replies, opened, newsMissed>>
  BY DEF QuestionEvent
<1> HIDE DEF e
<1>3. ASSUME NEW p, p \notin ghosts' => e # Ended(p), ghosts \subseteq ghosts', MayLeave(p)
      PROVE  MayLeave(p)'
  <2>1. ASSUME NEW i \in DOMAIN news, news[i] = Ended(p), p \notin ghosts'
        PROVE  EndUnderWay(p)'
    <3>1. i - 1 \in DOMAIN news' /\ news'[i - 1] = news[i]
      BY <1>1, <1>3, <2>1
    <3> QED BY <2>1, <3>1 DEF EndUnderWay, Ended
  <2> QED BY <1>2, <1>3, <2>1 DEF MayLeave, EndUnderWay
<1>4. ASSUME ghosts \subseteq ghosts' PROVE EndFollows'
  <2> SUFFICES ASSUME NEW i \in DOMAIN news', news'[i].kind = "asked",
                      asked'[news'[i].question] = "settled"
               PROVE  \/ \E j \in DOMAIN news' : j > i /\ news'[j] = Ended(news'[i].question)
                      \/ news'[i].question \in newsMissed' \cup ghosts'
    BY DEF EndFollows
  <2>1. i + 1 \in DOMAIN news /\ news'[i] = news[i + 1]
    BY <1>1
  <2>2. \/ \E j \in DOMAIN news : j > i + 1 /\ news[j] = Ended(news'[i].question)
        \/ news'[i].question \in newsMissed \cup ghosts
    BY <1>2, <2>1 DEF QuestionIInv, EndFollows
  <2>3. ASSUME NEW j \in DOMAIN news, j > i + 1, news[j] = Ended(news'[i].question)
        PROVE  \E k \in DOMAIN news' : k > i /\ news'[k] = Ended(news'[i].question)
    <3>1. j - 1 \in DOMAIN news' /\ j - 1 > i /\ news'[j - 1] = news[j]
      BY <1>1, <2>3
    <3> QED BY <2>3, <3>1
  <2> QED BY <1>2, <1>4, <2>2, <2>3
<1>5. CASE ~opened
  <2>1. UNCHANGED <<shown, deferred, questionPoll, ghosts>>
    BY <1>5 DEF QuestionEvent
  <2>2. EndFollows' /\ MayLeave(shown)' /\ MayLeave(deferred)'
    BY <1>4, <1>5, <2>1, QuestionAssumption DEF QuestionIInv, MayLeave
  <2> QED BY <1>1, <1>2, <1>5, <2>1, <2>2 DEF QuestionIInv
<1>6. CASE opened /\ e.kind = "asked"
  <2>0. PICK q \in Questions : q = e.question
    BY <1>1 DEF QuestionNews
  <2>1. EventAsked(q) /\ ghosts' = ghosts
    BY <1>6, <2>0 DEF QuestionEvent, EventAsked, e
  <2>2. \A p : e # Ended(p)
    BY <1>6 DEF Ended
  <2>3. MayLeave(q)'
    <3>1. ASSUME asked[q] = "settled"
          PROVE  EndUnderWay(q)' \/ q \in newsMissed \cup ghosts
      <4>1. \/ \E j \in DOMAIN news : j > 1 /\ news[j] = Ended(q)
            \/ q \in newsMissed \cup ghosts
        <5>1. 1 \in DOMAIN news
          BY <1>1 DEF QuestionEvent
        <5> QED BY <1>1, <1>6, <2>0, <3>1, <5>1 DEF QuestionIInv, EndFollows
      <4>2. ASSUME NEW j \in DOMAIN news, j > 1, news[j] = Ended(q) PROVE EndUnderWay(q)'
        <5>1. j - 1 \in DOMAIN news' /\ news'[j - 1] = Ended(q)
          BY <1>1, <4>2
        <5> QED BY <5>1 DEF EndUnderWay, Ended
      <4> QED BY <4>1, <4>2
    <3> QED BY <1>2, <2>1, <3>1 DEF MayLeave
  <2>4. /\ shown' \in {shown, q} /\ deferred' \in {deferred, q}
    BY <2>1 DEF EventAsked, Show
  <2>5. MayLeave(shown)' /\ MayLeave(deferred)'
    BY <1>3, <2>1, <2>2, <2>3, <2>4 DEF QuestionIInv, MayLeave
  <2>6. EndFollows'
    BY <1>4, <2>1
  <2>7. VoidPoll(FALSE)
    BY <2>1 DEF EventAsked
  <2> QED BY <1>1, <1>2, <1>6, <2>1, <2>4, <2>5, <2>6, <2>7, VoidPollOK DEF QuestionIInv
<1>7. CASE opened /\ e.kind = "settled"
  <2> DEFINE q == e.question
  <2>1. EventSettled(q) /\ q \in Questions /\ e = Ended(q)
    BY <1>1, <1>7 DEF QuestionEvent, QuestionNews, Ended, e
  <2> HIDE DEF q
  <2>2. /\ deferred' = deferred /\ ghosts \subseteq ghosts' /\ (deferred = q => q \in ghosts')
        /\ shown' = IF shown = q THEN NoQuestion ELSE shown
    BY <2>1 DEF EventSettled, Show
  <2>3. \A p : e = Ended(p) => p = q
    BY <2>1 DEF Ended
  <2>4. MayLeave(deferred)'
    BY <1>3, <2>2, <2>3 DEF QuestionIInv, MayLeave
  <2>5. MayLeave(shown)'
    <3>1. CASE shown = q
      BY <2>2, <3>1, QuestionAssumption DEF MayLeave
    <3>2. CASE shown # q
      BY <1>3, <2>2, <2>3, <3>2 DEF QuestionIInv, MayLeave
    <3> QED BY <3>1, <3>2
  <2>6. EndFollows'
    BY <1>4, <2>2
  <2>7. VoidPoll(TRUE)
    BY <2>1 DEF EventSettled
  <2> QED BY <1>1, <1>2, <1>7, <2>2, <2>4, <2>5, <2>6, <2>7, VoidPollOK DEF QuestionIInv
<1> QED BY <1>1, <1>5, <1>6, <1>7 DEF QuestionNews, QuestionIInv

\* An answer ends.  The deferred question has its turn.
LEMMA ReplyEndsOK ==
  QuestionIInv /\ (\E r \in replies : ReplyDone(r) \/ ReplyFails(r)) => QuestionIInv'
<1> SUFFICES ASSUME QuestionIInv, NEW r \in replies, ReplyDone(r) \/ ReplyFails(r)
             PROVE  QuestionIInv'
  OBVIOUS
<1>1. /\ UNCHANGED <<asked, news, opened, newsMissed, ghosts>> /\ deferred' = NoQuestion
      /\ replies' \subseteq [question : Questions, taken : BOOLEAN]
  BY DEF ReplyDone, ReplyFails, QuestionIInv
<1>2. shown' \in {shown, deferred, NoQuestion}
  BY DEF ReplyDone, ReplyFails, Show
<1>3. \A p : MayLeave(p) => MayLeave(p)'
  BY <1>1 DEF MayLeave, EndUnderWay
<1>4. MayLeave(shown)' /\ MayLeave(deferred)' /\ EndFollows'
  BY <1>1, <1>2, <1>3, QuestionAssumption DEF QuestionIInv, MayLeave, EndUnderWay, EndFollows
<1>5. VoidPoll(FALSE) \/ UNCHANGED questionPoll
  BY DEF ReplyDone, ReplyFails
<1>6. CASE UNCHANGED questionPoll
  BY <1>1, <1>2, <1>3, <1>4, <1>6 DEF QuestionIInv
<1>7. CASE VoidPoll(FALSE)
  BY <1>1, <1>2, <1>4, <1>7, VoidPollOK DEF QuestionIInv
<1> QED BY <1>5, <1>6, <1>7

\* Leaving empties the card, and entering voids what was asked before.
LEMMA VisitsOK == QuestionIInv /\ (LeaveChat \/ EnterChat) => QuestionIInv'
<1> SUFFICES ASSUME QuestionIInv, LeaveChat \/ EnterChat PROVE QuestionIInv'
  OBVIOUS
<1>1. /\ UNCHANGED <<asked, news, replies, newsMissed, ghosts>> /\ opened' \in BOOLEAN
      /\ shown' \in {shown, NoQuestion} /\ deferred' \in {deferred, NoQuestion}
      /\ ~opened' => shown' = NoQuestion /\ deferred' = NoQuestion
      /\ \E force \in BOOLEAN : VoidPoll(force)
  BY DEF LeaveChat, EnterChat, Show
<1>2. \A p : MayLeave(p) => MayLeave(p)'
  BY <1>1 DEF MayLeave, EndUnderWay
<1>3. MayLeave(shown)' /\ MayLeave(deferred)' /\ EndFollows'
  BY <1>1, <1>2, QuestionAssumption DEF QuestionIInv, MayLeave, EndUnderWay, EndFollows
<1> QED BY <1>1, <1>3, VoidPollOK DEF QuestionIInv

\* The invariant is inductive.
LEMMA QuestionStepOK == QuestionIInv /\ [QuestionNext]_questionVars => QuestionIInv'
<1> SUFFICES ASSUME QuestionIInv, [QuestionNext]_questionVars PROVE QuestionIInv'
  OBVIOUS
<1>1. ASSUME UNCHANGED questionVars PROVE QuestionIInv'
  BY <1>1 DEF questionVars, QuestionIInv, MayLeave, EndUnderWay, EndFollows
<1>2. ASSUME NEW q \in Questions, SettledElsewhere(q) PROVE QuestionIInv'
  BY <1>2, SettledOK DEF SettledElsewhere, QuestionIInv
<1>3. ASSUME Reply PROVE QuestionIInv'
  <2>1. /\ [question |-> shown, taken |-> FALSE] \in [question : Questions, taken : BOOLEAN]
        /\ replies' = replies \cup {[question |-> shown, taken |-> FALSE]}
        /\ UNCHANGED <<asked, news, shown, deferred, questionPoll, opened, newsMissed, ghosts>>
    BY <1>3 DEF Reply, QuestionIInv
  <2>2. \A p : MayLeave(p) => MayLeave(p)'
    BY <2>1 DEF MayLeave, EndUnderWay
  <2>3. MayLeave(shown)' /\ MayLeave(deferred)' /\ EndFollows'
    BY <2>1 DEF QuestionIInv, MayLeave, EndUnderWay, EndFollows
  <2> QED BY <2>1, <2>2, <2>3 DEF QuestionIInv
<1>4. ASSUME NEW r \in replies, ReplyTaken(r) PROVE QuestionIInv'
  <2>1. /\ r.question \in Questions
        /\ replies' \subseteq [question : Questions, taken : BOOLEAN]
    BY <1>4 DEF ReplyTaken, QuestionIInv
  <2> QED BY <1>4, <2>1, SettledOK DEF ReplyTaken
<1> QED BY <1>1, <1>2, <1>3, <1>4, QuestionAsksOK, NewsLostOK, PollsOK, EventOK, ReplyEndsOK, VisitsOK
        DEF QuestionNext

\* An older poll never brings an answered question back to the card, for every
\* number of questions, events, answers and visits (refreshQuestionsNow, handleQuestionEvent).
THEOREM CardsAreLive == QuestionSpec => []CardIsLive
<1>1. QuestionIInv => CardIsLive
  BY QuestionAssumption DEF QuestionIInv, CardIsLive, MayLeave, EndUnderWay
<1> QED BY <1>1, QuestionInitOK, QuestionStepOK, PTL DEF QuestionSpec

-----------------------------------------------------------------------------
(* The history of a chat.  What the page has of an answer, the server has   *)
(* said; a load that no event has touched brings at least what is shown;    *)
(* and once nothing more is said, either all is shown or a load, a reload   *)
(* or a failure stands for what is missing.                                 *)

ChatEntryRecs == [kept : BOOLEAN, loaded : BOOLEAN, load : {"none", "asked", "read", "older"},
                  page : SUBSET Nat, again : BOOLEAN, words : SUBSET Nat, touched : BOOLEAN]
ChatEvents == [chat : Chats, word : Nat]

ChatTypes ==
  /\ said \in [Chats -> SUBSET Nat] /\ \A c \in Chats : IsFiniteSet(said[c])
  /\ over \in [Chats -> BOOLEAN] /\ failed \in [Chats -> BOOLEAN]
  /\ stream \in Seq(ChatEvents) /\ open \in Chats \cup {NoChat}
  /\ context \in [words : SUBSET Nat, own : BOOLEAN]
  /\ cache \in [Chats -> ChatEntryRecs] /\ reload \in BOOLEAN /\ erased = FALSE
  /\ tabRuns \subseteq Chats /\ lostRuns \subseteq Chats
\* What is on its way was said, and the last event of an answer is its end.
StreamTold ==
  /\ \A i \in 1 .. Len(stream) : stream[i].word # 0 => stream[i].word \in said[stream[i].chat]
  /\ \A i \in 1 .. Len(stream) : over[stream[i].chat] =>
       \E j \in i .. Len(stream) : stream[j].chat = stream[i].chat /\ stream[j].word = 0
EntryTold(c) ==
  /\ cache[c].kept \/ cache[c] = NoEntry
  /\ cache[c].words \subseteq said[c] /\ cache[c].page \subseteq said[c]
  /\ cache[c].load = "read" /\ ~cache[c].touched => cache[c].words \subseteq cache[c].page
ContextTold ==
  open # NoChat =>
    /\ cache[open].kept /\ context.words \subseteq said[open]
    /\ context.own => ~cache[open].loaded
    /\ ~context.own => context.words = cache[open].words
SaidAll(c) == over[c] /\ \A i \in 1 .. Len(stream) : stream[i].chat # c
Settling(c) ==
  \/ reload \/ failed[c] \/ c \in tabRuns \/ c \in lostRuns
  \/ cache[c].load # "none" /\ cache[c].again
  \/ cache[c].load = "asked" /\ ~cache[c].touched
  \/ cache[c].load = "read" /\ ~cache[c].touched /\ cache[c].page = said[c]
  \/ cache[c].load \in {"none", "older"} /\ context.words = said[c]
ChatIInv ==
  /\ ChatTypes /\ StreamTold /\ ContextTold
  /\ \A c \in Chats : EntryTold(c)
  /\ \A c \in Chats : c = open /\ SaidAll(c) => Settling(c)

LEMMA NoEntryIsOne ==
  /\ NoEntry \in ChatEntryRecs /\ NewEntry \in ChatEntryRecs
  /\ NoEntry.words = {} /\ NoEntry.load = "none" /\ ~NoEntry.loaded /\ NoEntry.page = {}
  /\ ~NoEntry.touched /\ ~NoEntry.kept
  /\ NewEntry.kept /\ NewEntry.words = {} /\ NewEntry.load = "none" /\ ~NewEntry.loaded
  /\ NewEntry.page = {}
BY DEF NoEntry, NewEntry, ChatEntryRecs

LEMMA ChatInitOK == ChatInit => ChatIInv
<1> SUFFICES ASSUME ChatInit PROVE ChatIInv
  OBVIOUS
<1>1. stream = <<>> /\ <<>> \in Seq(ChatEvents) /\ Len(<<>>) = 0
  BY EmptySeq DEF ChatInit
<1>2. over \in [Chats -> BOOLEAN] /\ failed \in [Chats -> BOOLEAN]
  BY DEF ChatInit
<1>3. \A c \in Chats : said[c] = {} /\ IsFiniteSet({}) /\ cache[c] = NoEntry
  BY FS_EmptySet DEF ChatInit
<1>4. ChatTypes
  <2>1. tabRuns \subseteq Chats /\ lostRuns = {}
    BY ChatAssumption DEF ChatInit
  <2> QED BY <1>1, <1>2, <1>3, <2>1, NoEntryIsOne DEF ChatInit, ChatTypes
<1>5. open = NoChat /\ NoChat \notin Chats
  BY ChatAssumption DEF ChatInit
<1>6. StreamTold
  BY <1>1 DEF StreamTold
<1>7. \A c \in Chats : EntryTold(c)
  BY <1>3, NoEntryIsOne DEF EntryTold
<1> QED BY <1>4, <1>5, <1>6, <1>7 DEF ChatIInv, ContextTold

-----------------------------------------------------------------------------
\* What loadContext makes of an entry.
LEMMA AgainIsOne ==
  ASSUME NEW entry \in ChatEntryRecs, NEW d \in BOOLEAN
  PROVE  LET l == [entry EXCEPT !.again = d]
         IN  /\ l \in ChatEntryRecs /\ l.kept = entry.kept /\ l.loaded = entry.loaded
             /\ l.load = entry.load /\ l.page = entry.page /\ l.words = entry.words
             /\ l.touched = entry.touched /\ l.again = d
BY DEF ChatEntryRecs

LEMMA ChatLoadOK ==
  ASSUME NEW entry \in ChatEntryRecs, entry.kept \/ entry = NoEntry, NEW force \in BOOLEAN
  PROVE  LET l == Load(entry, force)
         IN  /\ l \in ChatEntryRecs /\ l.kept /\ l.loaded = entry.loaded
             /\ l.words = entry.words /\ l.page = entry.page
             /\ entry.load = "none" /\ (force \/ ~entry.loaded) => l.load = "asked" /\ ~l.touched
             /\ entry.load # "none" => /\ l.load = entry.load /\ l.touched = entry.touched
                                       /\ force => l.again
             /\ entry.load = "none" => l.load \in {"none", "asked"}
<1> DEFINE e == IF entry.kept THEN entry ELSE NewEntry
<1>1. /\ e \in ChatEntryRecs /\ e.kept /\ e.loaded = entry.loaded /\ e.words = entry.words
      /\ e.page = entry.page /\ e.load = entry.load
      /\ entry.load # "none" => e = entry
  BY NoEntryIsOne DEF ChatEntryRecs
<1> DEFINE d == e.again \/ force
<1>2. Load(entry, force) =
        IF e.loaded /\ ~force THEN e
        ELSE IF e.load # "none" THEN [e EXCEPT !.again = d]
        ELSE [e EXCEPT !.load = "asked", !.touched = FALSE]
  BY DEF Load
<1>8. d \in BOOLEAN /\ (force => d)
  OBVIOUS
<1> HIDE DEF e, d
<1>3. LET l == [e EXCEPT !.load = "asked", !.touched = FALSE]
      IN  /\ l \in ChatEntryRecs /\ l.kept = e.kept /\ l.loaded = e.loaded /\ l.page = e.page
          /\ l.words = e.words /\ l.load = "asked" /\ ~l.touched
  BY <1>1 DEF ChatEntryRecs
<1>4. LET l == [e EXCEPT !.again = d]
      IN  /\ l \in ChatEntryRecs /\ l.kept = e.kept /\ l.loaded = e.loaded
          /\ l.load = e.load /\ l.page = e.page /\ l.words = e.words
          /\ l.touched = e.touched /\ l.again = d
  BY <1>1, <1>8, AgainIsOne
<1>5. CASE e.loaded /\ ~force
  <2>1. Load(entry, force) = e
    BY <1>2, <1>5
  <2> QED BY <1>1, <1>5, <2>1
<1>6. CASE ~(e.loaded /\ ~force) /\ e.load # "none"
  <2>1. Load(entry, force) = [e EXCEPT !.again = d]
    BY <1>2, <1>6
  <2> QED BY <1>1, <1>4, <1>6, <1>8, <2>1
<1>7. CASE ~(e.loaded /\ ~force) /\ e.load = "none"
  <2>1. Load(entry, force) = [e EXCEPT !.load = "asked", !.touched = FALSE]
    BY <1>2, <1>7
  <2> QED BY <1>1, <1>3, <1>7, <2>1
<1> QED BY <1>5, <1>6, <1>7

LEMMA LoadOverOK ==
  ASSUME NEW c, NEW entry \in ChatEntryRecs, entry.kept
  PROVE  LET l == LoadOver(c, entry)
         IN  /\ l \in ChatEntryRecs /\ l.kept /\ l.loaded = entry.loaded /\ l.words = entry.words
             /\ l.page = {}
             /\ entry.again /\ open = c => l.load = "asked" /\ ~l.touched
             /\ ~(entry.again /\ open = c) => l.load = "none"
<1> DEFINE idle == [entry EXCEPT !.load = "none", !.page = {}, !.again = FALSE]
<1>1. /\ idle \in ChatEntryRecs /\ idle.kept /\ idle.loaded = entry.loaded
      /\ idle.words = entry.words /\ idle.load = "none" /\ idle.page = {}
  BY DEF ChatEntryRecs
<1>2. LoadOver(c, entry) = IF entry.again /\ open = c THEN Load(idle, TRUE) ELSE idle
  BY DEF LoadOver
<1> HIDE DEF idle
<1>3. /\ Load(idle, TRUE) \in ChatEntryRecs /\ Load(idle, TRUE).kept
      /\ Load(idle, TRUE).loaded = idle.loaded /\ Load(idle, TRUE).words = idle.words
      /\ Load(idle, TRUE).load = "asked" /\ ~Load(idle, TRUE).touched
      /\ Load(idle, TRUE).page = idle.page
  BY <1>1, ChatLoadOK
<1> QED BY <1>1, <1>2, <1>3

\* A step that changes the entry of one chat, not what is shown.
LEMMA EntryChanges ==
  ASSUME ChatIInv, NEW c \in Chats, NEW entry \in ChatEntryRecs,
         cache' = [cache EXCEPT ![c] = entry],
         UNCHANGED <<said, over, stream, erased>>
  PROVE  /\ cache' \in [Chats -> ChatEntryRecs] /\ cache'[c] = entry
         /\ \A other \in Chats \ {c} : cache'[other] = cache[other]
         /\ StreamTold' /\ \A other \in Chats \ {c} : EntryTold(other)'
         /\ \A other \in Chats : SaidAll(other)' <=> SaidAll(other)
<1>1. cache' \in [Chats -> ChatEntryRecs] /\ cache'[c] = entry
      /\ \A other \in Chats \ {c} : cache'[other] = cache[other]
  BY DEF ChatIInv, ChatTypes
<1>2. \A other \in Chats \ {c} : EntryTold(other)'
  BY <1>1 DEF ChatIInv, EntryTold
<1>3. StreamTold'
  BY DEF ChatIInv, StreamTold
<1>4. \A other \in Chats : SaidAll(other)' <=> SaidAll(other)
  BY DEF SaidAll
<1> QED BY <1>1, <1>2, <1>3, <1>4

LEMMA StreamSeq ==
  ASSUME ChatTypes
  PROVE  /\ Len(stream) \in Nat /\ DOMAIN stream = 1 .. Len(stream)
         /\ \A i \in 1 .. Len(stream) : stream[i] \in ChatEvents
<1> HIDE DEF ChatEvents
<1>1. stream \in Seq(ChatEvents)
  BY DEF ChatTypes
<1> QED BY <1>1, LenProperties, ElementOfSeq

\* A new event comes last.
LEMMA EventComes ==
  ASSUME ChatIInv, NEW c \in Chats, ~over[c], NEW w \in Nat,
         stream' = Append(stream, [chat |-> c, word |-> w]),
         said' \in [Chats -> SUBSET Nat], \A d \in Chats : said[d] \subseteq said'[d],
         w # 0 => w \in said'[c],
         over' \in [Chats -> BOOLEAN], \A d \in Chats \ {c} : over'[d] = over[d],
         over'[c] => w = 0,
         UNCHANGED <<open, context, cache, reload, failed, tabRuns, lostRuns, erased>>,
         \A d \in Chats \ {c} : said'[d] = said[d],
         \A d \in Chats : IsFiniteSet(said'[d])
  PROVE  ChatIInv'
<1> DEFINE new == [chat |-> c, word |-> w]
<1>1. new \in ChatEvents /\ new.chat = c /\ new.word = w
  BY DEF ChatEvents
<1>2. stream \in Seq(ChatEvents) /\ Len(stream) \in Nat
  BY StreamSeq DEF ChatIInv, ChatTypes
<1>3. /\ stream' \in Seq(ChatEvents) /\ Len(stream') = Len(stream) + 1
      /\ \A i \in 1 .. Len(stream) : stream'[i] = stream[i]
      /\ stream'[Len(stream) + 1] = new
  <2> HIDE DEF ChatEvents, new
  <2>1. stream' = Append(stream, new)
    BY DEF new
  <2> QED BY <1>1, <1>2, <2>1, AppendProperties
<1> HIDE DEF new
<1>4. \A i \in 1 .. Len(stream') : i \in 1 .. Len(stream) \/ i = Len(stream) + 1
  BY <1>2, <1>3
<1>5. ChatTypes'
  BY <1>3 DEF ChatIInv, ChatTypes
<1>6. \A i \in 1 .. Len(stream) : stream[i].chat \in Chats
  BY StreamSeq DEF ChatIInv, ChatEvents
<1>7. Len(stream) + 1 \in 1 .. Len(stream') /\ stream'[Len(stream) + 1].chat = c
      /\ stream'[Len(stream) + 1].word = w
  BY <1>1, <1>2, <1>3
<1>8. StreamTold'
  <2>1. ASSUME NEW i \in 1 .. Len(stream'), stream'[i].word # 0
        PROVE  stream'[i].word \in said'[stream'[i].chat]
    <3>1. CASE i \in 1 .. Len(stream)
      BY <1>3, <1>6, <2>1, <3>1 DEF ChatIInv, StreamTold
    <3>2. CASE i = Len(stream) + 1
      BY <1>7, <2>1, <3>2
    <3> QED BY <1>4, <3>1, <3>2
  <2>2. ASSUME NEW i \in 1 .. Len(stream'), over'[stream'[i].chat]
        PROVE  \E j \in i .. Len(stream') : stream'[j].chat = stream'[i].chat /\ stream'[j].word = 0
    <3>1. CASE stream'[i].chat = c
      <4>1. Len(stream) + 1 \in i .. Len(stream') /\ w = 0
        BY <1>2, <1>3, <1>4, <2>2, <3>1
      <4> QED BY <1>7, <3>1, <4>1
    <3>2. CASE stream'[i].chat # c
      <4>1. i \in 1 .. Len(stream) /\ stream'[i] = stream[i] /\ stream[i].chat \in Chats \ {c}
        BY <1>3, <1>4, <1>6, <1>7, <3>2
      <4>2. over[stream[i].chat]
        BY <2>2, <4>1
      <4>3. PICK j \in i .. Len(stream) : stream[j].chat = stream[i].chat /\ stream[j].word = 0
        BY <4>1, <4>2 DEF ChatIInv, StreamTold
      <4>4. j \in 1 .. Len(stream) /\ j \in i .. Len(stream')
        BY <1>2, <1>3, <4>1
      <4> QED BY <1>3, <4>1, <4>3, <4>4
    <3> QED BY <3>1, <3>2
  <2> QED BY <2>1, <2>2 DEF StreamTold
<1>9. \A d \in Chats : EntryTold(d)'
  BY DEF ChatIInv, EntryTold
<1>10. open \in Chats \cup {NoChat}
  BY DEF ChatIInv, ChatTypes
<1>11. ContextTold'
  BY <1>10 DEF ChatIInv, ContextTold
<1>12. \A d \in Chats : SaidAll(d)' => d # c /\ SaidAll(d)
  <2>1. ASSUME NEW d \in Chats, SaidAll(d)' PROVE d # c /\ SaidAll(d)
    <3>1. d # c
      BY <1>7, <2>1 DEF SaidAll
    <3>2. \A i \in 1 .. Len(stream) : i \in 1 .. Len(stream') /\ stream'[i] = stream[i]
      BY <1>2, <1>3
    <3> QED BY <2>1, <3>1, <3>2 DEF SaidAll
  <2> QED BY <2>1
<1>13. \A d \in Chats : d = open' /\ SaidAll(d)' => Settling(d)'
  <2> SUFFICES ASSUME NEW d \in Chats, d = open', SaidAll(d)' PROVE Settling(d)'
    OBVIOUS
  <2>1. Settling(d) /\ said'[d] = said[d]
    BY <1>12 DEF ChatIInv
  <2> QED BY <2>1 DEF Settling
<1> QED BY <1>5, <1>8, <1>9, <1>11, <1>13 DEF ChatIInv

-----------------------------------------------------------------------------
LEMMA SayOK == ASSUME ChatIInv, NEW c \in Chats, Say(c) PROVE ChatIInv'
<1> DEFINE w == Cardinality(said[c]) + 1
<1>1. /\ ~over[c] /\ said' = [said EXCEPT ![c] = @ \cup {w}]
      /\ stream' = Append(stream, [chat |-> c, word |-> w])
      /\ UNCHANGED <<over, open, context, cache, reload, failed, tabRuns, lostRuns, erased>>
  BY DEF Say, runVars
<1>2. IsFiniteSet(said[c]) /\ said \in [Chats -> SUBSET Nat]
  BY DEF ChatIInv, ChatTypes
<1>3. w \in Nat /\ IsFiniteSet(said[c] \cup {w})
  BY <1>2, FS_CardinalityType, FS_AddElement
<1> HIDE DEF w
<1>4. /\ said' \in [Chats -> SUBSET Nat] /\ said'[c] = said[c] \cup {w}
      /\ \A d \in Chats \ {c} : said'[d] = said[d]
  BY <1>1, <1>2, <1>3
<1>5. \A d \in Chats : IsFiniteSet(said'[d])
  BY <1>3, <1>4 DEF ChatIInv, ChatTypes
<1>6. over' \in [Chats -> BOOLEAN]
  BY <1>1 DEF ChatIInv, ChatTypes
<1> QED BY <1>1, <1>3, <1>4, <1>5, <1>6, EventComes

LEMMA EndOK == ASSUME ChatIInv, NEW c \in Chats, End(c) PROVE ChatIInv'
<1>1. /\ ~over[c] /\ over' = [over EXCEPT ![c] = TRUE]
      /\ stream' = Append(stream, [chat |-> c, word |-> 0])
      /\ UNCHANGED <<said, open, context, cache, reload, failed, tabRuns, lostRuns, erased>>
  BY DEF End, runVars
<1>2. over' \in [Chats -> BOOLEAN] /\ \A d \in Chats \ {c} : over'[d] = over[d]
  BY <1>1 DEF ChatIInv, ChatTypes
<1>3. said' \in [Chats -> SUBSET Nat] /\ \A d \in Chats : said[d] \subseteq said'[d]
      /\ IsFiniteSet(said'[d])
  BY <1>1 DEF ChatIInv, ChatTypes
<1> QED BY <1>1, <1>2, <1>3, EventComes

LEMMA ServerReadsPageOK ==
  ASSUME ChatIInv, NEW c \in Chats, ServerReadsPage(c) PROVE ChatIInv'
<1> DEFINE entry == [cache[c] EXCEPT !.load = "read", !.page = said[c]]
<1>1. /\ cache[c].load = "asked" /\ cache' = [cache EXCEPT ![c] = entry]
      /\ UNCHANGED <<said, over, stream, open, context, reload, failed, tabRuns, lostRuns>>
      /\ erased' = erased
  BY DEF ServerReadsPage, runVars
<1>2. cache[c] \in ChatEntryRecs /\ said[c] \in SUBSET Nat
  BY DEF ChatIInv, ChatTypes
<1>3. /\ entry \in ChatEntryRecs /\ entry.kept = cache[c].kept /\ entry.loaded = cache[c].loaded
      /\ entry.load = "read" /\ entry.page = said[c] /\ entry.again = cache[c].again
      /\ entry.words = cache[c].words /\ entry.touched = cache[c].touched
  BY <1>2 DEF ChatEntryRecs
<1> HIDE DEF entry
<1>4. /\ cache' \in [Chats -> ChatEntryRecs] /\ cache'[c] = entry
      /\ \A other \in Chats \ {c} : cache'[other] = cache[other]
      /\ StreamTold' /\ \A other \in Chats \ {c} : EntryTold(other)'
      /\ \A other \in Chats : SaidAll(other)' <=> SaidAll(other)
  BY <1>1, <1>3, EntryChanges
<1>5. ChatTypes'
  BY <1>1, <1>4 DEF ChatIInv, ChatTypes
<1>6. EntryTold(c)'
  BY <1>1, <1>3, <1>4, NoEntryIsOne DEF ChatIInv, EntryTold
<1>7. ContextTold'
  <2>1. CASE open = c
    BY <1>1, <1>3, <1>4, <2>1 DEF ChatIInv, ContextTold
  <2>2. CASE open # c
    BY <1>1, <1>4, <2>2 DEF ChatIInv, ContextTold, ChatTypes
  <2> QED BY <2>1, <2>2
<1>8. ASSUME NEW d \in Chats, d = open', SaidAll(d)' PROVE Settling(d)'
  <2>1. Settling(d)
    BY <1>1, <1>4, <1>8 DEF ChatIInv
  <2>2. CASE d = c
    BY <1>1, <1>3, <1>4, <2>1, <2>2 DEF Settling
  <2>3. CASE d # c
    BY <1>1, <1>4, <2>1, <2>3 DEF Settling
  <2> QED BY <2>2, <2>3
<1> QED BY <1>4, <1>5, <1>6, <1>7, <1>8 DEF ChatIInv

LEMMA SelectOK == ASSUME ChatIInv, NEW c \in Chats, Select(c) PROVE ChatIInv'
<1> DEFINE entry == Load(cache[c], cache[c].kept)
           own == ~cache[c].kept
<1>1. /\ c # open /\ open' = c
      /\ context' = [words |-> cache[c].words, own |-> own]
      /\ cache' = [cache EXCEPT ![c] = entry]
      /\ failed' = [failed EXCEPT ![c] = FALSE]
      /\ UNCHANGED <<said, over, stream, tabRuns, reload, erased>>
      /\ lostRuns' = lostRuns \ {c}
  BY DEF Select
<1>2. cache[c] \in ChatEntryRecs /\ (cache[c].kept \/ cache[c] = NoEntry)
  BY DEF ChatIInv, ChatTypes, EntryTold
<1>3. cache[c].kept \in BOOLEAN /\ own \in BOOLEAN /\ cache[c].words \in SUBSET Nat
  BY <1>2 DEF ChatEntryRecs
<1>4. /\ entry \in ChatEntryRecs /\ entry.kept /\ entry.loaded = cache[c].loaded
      /\ entry.words = cache[c].words /\ entry.page = cache[c].page
      /\ cache[c].load = "none" /\ (cache[c].kept \/ ~cache[c].loaded)
           => entry.load = "asked" /\ ~entry.touched
      /\ cache[c].load # "none" => /\ entry.load = cache[c].load
                                   /\ entry.touched = cache[c].touched
                                   /\ cache[c].kept => entry.again
      /\ cache[c].load = "none" => entry.load \in {"none", "asked"}
  BY <1>2, <1>3, ChatLoadOK
<1>5. ~cache[c].kept => ~cache[c].loaded /\ cache[c].load = "none"
  BY <1>2, NoEntryIsOne
<1>6. own <=> ~cache[c].kept
  OBVIOUS
<1> HIDE DEF entry, own
<1>7. /\ cache' \in [Chats -> ChatEntryRecs] /\ cache'[c] = entry
      /\ StreamTold' /\ \A other \in Chats \ {c} : EntryTold(other)'
  BY <1>1, <1>4, EntryChanges
<1>8. /\ context' \in [words : SUBSET Nat, own : BOOLEAN] /\ context'.words = cache[c].words
      /\ context'.own = own
  BY <1>1, <1>3
<1>9. failed' \in [Chats -> BOOLEAN]
  BY <1>1 DEF ChatIInv, ChatTypes
<1>10. ChatTypes'
  BY <1>1, <1>7, <1>8, <1>9 DEF ChatIInv, ChatTypes
<1>11. EntryTold(c)'
  BY <1>1, <1>4, <1>7 DEF ChatIInv, EntryTold
<1>12. ContextTold'
  <2>1. cache[c].words \subseteq said[c]
    BY DEF ChatIInv, EntryTold
  <2>2. context'.own => ~cache'[c].loaded
    BY <1>4, <1>5, <1>6, <1>7, <1>8
  <2> QED BY <1>1, <1>4, <1>7, <1>8, <2>1, <2>2 DEF ContextTold
<1>13. Settling(c)'
  BY <1>4, <1>5, <1>7 DEF Settling
<1> QED BY <1>1, <1>7, <1>10, <1>11, <1>12, <1>13 DEF ChatIInv

LEMMA ClearSelectionOK == ASSUME ChatIInv, ClearSelection PROVE ChatIInv'
<1>1. /\ open' = NoChat /\ context' = [words |-> {}, own |-> TRUE]
      /\ UNCHANGED <<said, over, stream, cache, reload, failed, tabRuns, lostRuns, erased>>
  BY DEF ClearSelection, runVars
<1>2. context' \in [words : SUBSET Nat, own : BOOLEAN] /\ NoChat \notin Chats
  BY <1>1, ChatAssumption
<1> QED BY <1>1, <1>2 DEF ChatIInv, ChatTypes, StreamTold, EntryTold, ContextTold

\* The open chat is loaded again, or asked to be.
LEMMA OpenChatLoadOK ==
  ASSUME ChatIInv, open # NoChat, LoadOpenChat, reload' \in BOOLEAN,
         UNCHANGED <<said, over, open, context, erased>>, StreamTold', stream' \in Seq(ChatEvents),
         tabRuns' = tabRuns
  PROVE  ChatIInv'
<1> DEFINE entry == Load(cache[open], TRUE)
<1>1. /\ cache' = [cache EXCEPT ![open] = entry]
      /\ failed' = [failed EXCEPT ![open] = FALSE] /\ lostRuns' = lostRuns \ {open}
  BY DEF LoadOpenChat
<1>2. open \in Chats
  BY DEF ChatIInv, ChatTypes
<1>3. cache[open] \in ChatEntryRecs /\ cache[open].kept
  BY <1>2 DEF ChatIInv, ChatTypes, ContextTold
<1>4. /\ entry \in ChatEntryRecs /\ entry.kept /\ entry.loaded = cache[open].loaded
      /\ entry.words = cache[open].words /\ entry.page = cache[open].page
      /\ cache[open].load = "none" => entry.load = "asked" /\ ~entry.touched
      /\ cache[open].load # "none" => /\ entry.load = cache[open].load
                                      /\ entry.touched = cache[open].touched /\ entry.again
  BY <1>3, ChatLoadOK
<1> HIDE DEF entry
<1>5. /\ cache' \in [Chats -> ChatEntryRecs] /\ cache'[open] = entry
      /\ \A other \in Chats \ {open} : cache'[other] = cache[other]
  BY <1>1, <1>2, <1>4 DEF ChatIInv, ChatTypes
<1>6. failed' \in [Chats -> BOOLEAN]
  BY <1>1 DEF ChatIInv, ChatTypes
<1>7. ChatTypes'
  BY <1>1, <1>5, <1>6 DEF ChatIInv, ChatTypes
<1>8. \A c \in Chats : EntryTold(c)'
  <2>1. \A other \in Chats \ {open} : EntryTold(other)'
    BY <1>5 DEF ChatIInv, EntryTold
  <2>2. EntryTold(open)'
    BY <1>2, <1>4, <1>5 DEF ChatIInv, EntryTold
  <2> QED BY <2>1, <2>2
<1>9. ContextTold'
  BY <1>4, <1>5 DEF ChatIInv, ContextTold
<1>10. Settling(open)'
  BY <1>4, <1>5 DEF Settling
<1> QED BY <1>2, <1>7, <1>8, <1>9, <1>10 DEF ChatIInv

LEMMA ReloadStepOK == ASSUME ChatIInv, Reload PROVE ChatIInv'
<1>1. reload' = FALSE /\ UNCHANGED <<said, over, stream, tabRuns, open, context, erased>>
  BY DEF Reload
<1>2. CASE open = NoChat
  <2>1. UNCHANGED <<cache, failed>> /\ lostRuns' \subseteq lostRuns
    BY <1>2 DEF Reload, LoadOpenChat
  <2> QED BY <1>1, <1>2, <2>1, ChatAssumption
          DEF ChatIInv, ChatTypes, StreamTold, EntryTold, ContextTold
<1>3. CASE open # NoChat
  <2>1. LoadOpenChat /\ StreamTold' /\ stream' \in Seq(ChatEvents)
    BY <1>1 DEF Reload, ChatIInv, StreamTold, ChatTypes
  <2> QED BY <1>1, <1>3, <2>1, OpenChatLoadOK
<1> QED BY <1>2, <1>3

LEMMA DiscardOK == ASSUME ChatIInv, NEW c \in Chats, Discard(c) PROVE ChatIInv'
<1>1. /\ c # open /\ cache' = [cache EXCEPT ![c] = NoEntry]
      /\ UNCHANGED <<said, over, stream, open, context, reload, failed, tabRuns, lostRuns>>
      /\ erased' = erased
  BY DEF Discard, runVars
<1>2. /\ cache' \in [Chats -> ChatEntryRecs] /\ cache'[c] = NoEntry
      /\ \A other \in Chats \ {c} : cache'[other] = cache[other]
      /\ StreamTold' /\ \A other \in Chats \ {c} : EntryTold(other)'
      /\ \A other \in Chats : SaidAll(other)' <=> SaidAll(other)
  BY <1>1, NoEntryIsOne, EntryChanges
<1>3. ChatTypes'
  BY <1>1, <1>2 DEF ChatIInv, ChatTypes
<1>4. EntryTold(c)'
  BY <1>2, NoEntryIsOne DEF EntryTold
<1>5. ContextTold'
  BY <1>1, <1>2 DEF ChatIInv, ContextTold, ChatTypes
<1>6. ASSUME NEW d \in Chats, d = open', SaidAll(d)' PROVE Settling(d)'
  <2>1. Settling(d) /\ d # c
    BY <1>1, <1>2, <1>6 DEF ChatIInv
  <2> QED BY <1>1, <1>2, <2>1 DEF Settling
<1> QED BY <1>2, <1>3, <1>4, <1>5, <1>6 DEF ChatIInv

LEMMA PageArrivesOK == ASSUME ChatIInv, NEW c \in Chats, PageArrives(c) PROVE ChatIInv'
<1> DEFINE entry == cache[c]
           merged == Merged(entry)
           full  == [entry EXCEPT !.words = merged, !.loaded = TRUE]
           next  == LoadOver(c, full)
<1>1. /\ entry.load = "read" /\ cache' = [cache EXCEPT ![c] = next]
      /\ open = c => /\ context' = [words |-> merged, own |-> FALSE]
                     /\ erased' = (erased \/ (entry.loaded /\ ~(context.words \subseteq merged)))
      /\ open # c => UNCHANGED <<context, erased>>
      /\ UNCHANGED <<said, over, stream, open, reload, failed, tabRuns, lostRuns>>
  BY DEF PageArrives, runVars
<1>2. /\ entry \in ChatEntryRecs /\ entry.kept /\ entry.words \subseteq said[c]
      /\ entry.page \subseteq said[c]
      /\ ~entry.touched => entry.words \subseteq entry.page
  <2>1. entry \in ChatEntryRecs /\ EntryTold(c)
    BY DEF ChatIInv, ChatTypes
  <2> QED BY <1>1, <2>1, NoEntryIsOne DEF EntryTold
<1>3. merged \in SUBSET Nat /\ (entry.loaded => entry.words \subseteq merged)
      /\ (~entry.touched => merged = entry.page)
  BY <1>2 DEF Merged, ChatEntryRecs
<1> HIDE DEF merged
<1>4. /\ full \in ChatEntryRecs /\ full.kept /\ full.loaded /\ full.words = merged
      /\ full.again = entry.again
  BY <1>2, <1>3 DEF ChatEntryRecs
<1> HIDE DEF full
<1>5. /\ next \in ChatEntryRecs /\ next.kept /\ next.loaded /\ next.words = merged /\ next.page = {}
      /\ entry.again /\ open = c => next.load = "asked" /\ ~next.touched
      /\ ~(entry.again /\ open = c) => next.load = "none"
  BY <1>4, LoadOverOK
<1> HIDE DEF next
<1>6. erased' = FALSE
  <2>1. CASE open # c
    BY <1>1, <2>1 DEF ChatIInv, ChatTypes
  <2>2. CASE open = c /\ ~entry.loaded
    BY <1>1, <2>2 DEF ChatIInv, ChatTypes
  <2>3. CASE open = c /\ entry.loaded
    <3>1. c # NoChat
      BY ChatAssumption
    <3>2. context.words = entry.words
      BY <2>3, <3>1 DEF ChatIInv, ContextTold
    <3> QED BY <1>1, <1>3, <2>3, <3>2 DEF ChatIInv, ChatTypes
  <2> QED BY <2>1, <2>2, <2>3
<1>7. erased' = erased
  BY <1>6 DEF ChatIInv, ChatTypes
<1>8. /\ cache' \in [Chats -> ChatEntryRecs] /\ cache'[c] = next
      /\ \A other \in Chats \ {c} : cache'[other] = cache[other]
      /\ StreamTold' /\ \A other \in Chats \ {c} : EntryTold(other)'
      /\ \A other \in Chats : SaidAll(other)' <=> SaidAll(other)
  BY <1>1, <1>5, <1>7, EntryChanges
<1>9. merged \subseteq said[c]
  BY <1>2 DEF Merged, merged
<1>10. open = c => /\ context' \in [words : SUBSET Nat, own : BOOLEAN]
                   /\ context'.words = merged /\ ~context'.own
  <2> SUFFICES ASSUME open = c
               PROVE  /\ context' \in [words : SUBSET Nat, own : BOOLEAN]
                      /\ context'.words = merged /\ ~context'.own
    OBVIOUS
  <2>1. context' = [words |-> merged, own |-> FALSE]
    BY <1>1
  <2> QED BY <1>3, <2>1
<1>11. ChatTypes'
  BY <1>1, <1>6, <1>8, <1>10 DEF ChatIInv, ChatTypes
<1>12. EntryTold(c)'
  BY <1>1, <1>5, <1>8, <1>9 DEF EntryTold
<1>13. ContextTold'
  <2>1. CASE open = c
    BY <1>1, <1>5, <1>8, <1>9, <1>10, <2>1 DEF ContextTold
  <2>2. CASE open # c
    BY <1>1, <1>8, <2>2 DEF ChatIInv, ContextTold, ChatTypes
  <2> QED BY <2>1, <2>2
<1>14. ASSUME NEW d \in Chats, d = open', SaidAll(d)' PROVE Settling(d)'
  <2>1. Settling(d)
    BY <1>1, <1>8, <1>14 DEF ChatIInv
  <2>2. CASE d # c
    BY <1>1, <1>8, <1>14, <2>1, <2>2 DEF Settling
  <2>3. CASE d = c
    BY <1>1, <1>3, <1>5, <1>8, <1>10, <1>14, <2>1, <2>3 DEF Settling
  <2> QED BY <2>2, <2>3
<1> QED BY <1>8, <1>11, <1>12, <1>13, <1>14 DEF ChatIInv

LEMMA LoadOlderOK == ASSUME ChatIInv, NEW c \in Chats, LoadOlder(c) PROVE ChatIInv'
<1> DEFINE entry == [cache[c] EXCEPT !.load = "older"]
<1>1. /\ open = c /\ cache[c].loaded /\ cache[c].load = "none"
      /\ cache' = [cache EXCEPT ![c] = entry]
      /\ UNCHANGED <<said, over, stream, open, context, reload, failed, tabRuns, lostRuns>>
      /\ erased' = erased
  BY DEF LoadOlder, runVars
<1>2. cache[c] \in ChatEntryRecs
  BY DEF ChatIInv, ChatTypes
<1>3. /\ entry \in ChatEntryRecs /\ entry.kept = cache[c].kept /\ entry.loaded = cache[c].loaded
      /\ entry.load = "older" /\ entry.page = cache[c].page /\ entry.words = cache[c].words
      /\ entry.touched = cache[c].touched
  BY <1>2 DEF ChatEntryRecs
<1> HIDE DEF entry
<1>4. /\ cache' \in [Chats -> ChatEntryRecs] /\ cache'[c] = entry
      /\ StreamTold' /\ \A other \in Chats \ {c} : EntryTold(other)'
      /\ \A other \in Chats : SaidAll(other)' <=> SaidAll(other)
  BY <1>1, <1>3, EntryChanges
<1>5. ChatTypes'
  BY <1>1, <1>4 DEF ChatIInv, ChatTypes
<1>6. EntryTold(c)'
  BY <1>1, <1>2, <1>3, <1>4, NoEntryIsOne DEF ChatIInv, EntryTold
<1>7. ContextTold'
  BY <1>1, <1>3, <1>4 DEF ChatIInv, ContextTold
<1>8. SaidAll(c)' => Settling(c)'
  BY <1>1, <1>3, <1>4 DEF ChatIInv, Settling
<1> QED BY <1>1, <1>4, <1>5, <1>6, <1>7, <1>8 DEF ChatIInv

\* A load is over, with an older page or a failure.
LEMMA LoadEnds ==
  ASSUME ChatIInv, NEW c \in Chats, cache[c].load # "none",
         cache' = [cache EXCEPT ![c] = LoadOver(c, @)],
         failed' \in [Chats -> BOOLEAN], \A d \in Chats \ {c} : failed'[d] = failed[d],
         \/ cache[c].load = "older" /\ failed'[c] = failed[c]
         \/ cache[c].again /\ open = c
         \/ failed'[c],
         UNCHANGED <<said, over, stream, open, context, reload, tabRuns, lostRuns, erased>>
  PROVE  ChatIInv'
<1> DEFINE entry == LoadOver(c, cache[c])
<1>1. cache' = [cache EXCEPT ![c] = entry]
  OBVIOUS
<1>2. cache[c] \in ChatEntryRecs /\ cache[c].kept
  BY NoEntryIsOne DEF ChatIInv, ChatTypes, EntryTold
<1>3. /\ entry \in ChatEntryRecs /\ entry.kept /\ entry.loaded = cache[c].loaded
      /\ entry.words = cache[c].words /\ entry.page = {}
      /\ cache[c].again /\ open = c => entry.load = "asked" /\ ~entry.touched
      /\ ~(cache[c].again /\ open = c) => entry.load = "none"
  BY <1>2, LoadOverOK
<1> HIDE DEF entry
<1>4. /\ cache' \in [Chats -> ChatEntryRecs] /\ cache'[c] = entry
      /\ \A other \in Chats \ {c} : cache'[other] = cache[other]
      /\ StreamTold' /\ \A other \in Chats \ {c} : EntryTold(other)'
      /\ \A other \in Chats : SaidAll(other)' <=> SaidAll(other)
  BY <1>1, <1>3, EntryChanges
<1>5. ChatTypes'
  BY <1>4 DEF ChatIInv, ChatTypes
<1>6. EntryTold(c)'
  BY <1>3, <1>4 DEF ChatIInv, EntryTold
<1>7. ContextTold'
  <2>1. CASE open = c
    BY <1>3, <1>4, <2>1 DEF ChatIInv, ContextTold
  <2>2. CASE open # c
    BY <1>4, <2>2 DEF ChatIInv, ContextTold, ChatTypes
  <2> QED BY <2>1, <2>2
<1>8. ASSUME NEW d \in Chats, d = open', SaidAll(d)' PROVE Settling(d)'
  <2>1. Settling(d)
    BY <1>4, <1>8 DEF ChatIInv
  <2>2. CASE d = c
    BY <1>3, <1>4, <1>8, <2>1, <2>2 DEF Settling
  <2>3. CASE d # c
    BY <1>4, <2>1, <2>3 DEF Settling
  <2> QED BY <2>2, <2>3
<1> QED BY <1>4, <1>5, <1>6, <1>7, <1>8 DEF ChatIInv

LEMMA OlderArrivesOK == ASSUME ChatIInv, NEW c \in Chats, OlderArrives(c) PROVE ChatIInv'
<1>1. /\ cache[c].load = "older" /\ cache' = [cache EXCEPT ![c] = LoadOver(c, @)]
      /\ UNCHANGED <<said, over, stream, open, context, reload, failed, tabRuns, lostRuns>>
      /\ erased' = erased
  BY DEF OlderArrives, runVars
<1>2. failed' \in [Chats -> BOOLEAN]
  BY <1>1 DEF ChatIInv, ChatTypes
<1> QED BY <1>1, <1>2, LoadEnds

LEMMA LoadFailsOK == ASSUME ChatIInv, NEW c \in Chats, LoadFails(c) PROVE ChatIInv'
<1> DEFINE d == ~(cache[c].again /\ open = c)
<1>1. /\ cache[c].load \in {"asked", "read"} /\ cache' = [cache EXCEPT ![c] = LoadOver(c, @)]
      /\ failed' = [failed EXCEPT ![c] = d]
      /\ UNCHANGED <<said, over, stream, open, context, reload, tabRuns, lostRuns, erased>>
  BY DEF LoadFails, runVars
<1>2. d \in BOOLEAN /\ (~d => cache[c].again /\ open = c)
  OBVIOUS
<1> HIDE DEF d
<1>3. /\ failed' \in [Chats -> BOOLEAN] /\ failed'[c] = d
      /\ \A other \in Chats \ {c} : failed'[other] = failed[other]
  BY <1>1, <1>2 DEF ChatIInv, ChatTypes
<1> QED BY <1>1, <1>2, <1>3, LoadEnds

\* The first event is taken off.
LEMMA EventTaken ==
  ASSUME ChatIInv, stream # <<>>, stream' = Tail(stream), UNCHANGED <<said, over, open>>
  PROVE  /\ stream' \in Seq(ChatEvents) /\ StreamTold'
         /\ Head(stream).chat \in Chats /\ Head(stream).word \in Nat
         /\ Head(stream).word # 0 => Head(stream).word \in said[Head(stream).chat]
         /\ \A c \in Chats : c = Head(stream).chat /\ Head(stream).word # 0 => ~SaidAll(c)'
         /\ \A c \in Chats \ {Head(stream).chat} : SaidAll(c)' => SaidAll(c)
<1> DEFINE n == Len(stream)
<1>1. stream \in Seq(ChatEvents) /\ n \in Nat /\ \A i \in 1 .. n : stream[i] \in ChatEvents
  BY StreamSeq DEF ChatIInv, ChatTypes
<1>2. /\ Head(stream) = stream[1] /\ stream' \in Seq(ChatEvents) /\ Len(stream') = n - 1
      /\ \A i \in 1 .. Len(stream') : stream'[i] = stream[i + 1]
  <2> HIDE DEF ChatEvents
  <2> QED BY <1>1, HeadTailProperties
<1>3. n # 0
  <2> HIDE DEF ChatEvents
  <2> QED BY <1>1, EmptySeq
<1> HIDE DEF n
<1>4. 1 \in 1 .. n /\ \A i \in 1 .. Len(stream') : i + 1 \in 1 .. n
  BY <1>1, <1>2, <1>3
<1>5. stream[1].chat \in Chats /\ stream[1].word \in Nat
  BY <1>1, <1>4 DEF ChatEvents
<1>6. /\ \A i \in 1 .. n : stream[i].word # 0 => stream[i].word \in said[stream[i].chat]
      /\ \A i \in 1 .. n : over[stream[i].chat] =>
           \E j \in i .. n : stream[j].chat = stream[i].chat /\ stream[j].word = 0
  BY DEF ChatIInv, StreamTold, n
<1>7. StreamTold'
  <2>1. ASSUME NEW i \in 1 .. Len(stream'), stream'[i].word # 0
        PROVE  stream'[i].word \in said'[stream'[i].chat]
    BY <1>2, <1>4, <1>6, <2>1
  <2>2. ASSUME NEW i \in 1 .. Len(stream'), over'[stream'[i].chat]
        PROVE  \E j \in i .. Len(stream') : stream'[j].chat = stream'[i].chat /\ stream'[j].word = 0
    <3>1. PICK j \in i + 1 .. n : stream[j].chat = stream[i + 1].chat /\ stream[j].word = 0
      BY <1>2, <1>4, <1>6, <2>2
    <3>2. j - 1 \in i .. Len(stream') /\ j - 1 \in 1 .. Len(stream') /\ (j - 1) + 1 = j
      BY <1>1, <1>2, <1>4, <3>1
    <3>3. stream'[j - 1] = stream[j] /\ stream'[i] = stream[i + 1]
      BY <1>2, <3>2
    <3> QED BY <3>1, <3>2, <3>3
  <2> QED BY <2>1, <2>2 DEF StreamTold
<1>8. ASSUME NEW c \in Chats, c = stream[1].chat, stream[1].word # 0, SaidAll(c)' PROVE FALSE
  <2>1. over[stream[1].chat] /\ \A i \in 1 .. Len(stream') : stream'[i].chat # stream[1].chat
    BY <1>8 DEF SaidAll
  <2>2. PICK j \in 1 .. n : stream[j].chat = stream[1].chat /\ stream[j].word = 0
    BY <1>4, <1>6, <2>1
  <2>4. j # 1
    BY <1>8, <2>2
  <2>3. j - 1 \in 1 .. Len(stream') /\ (j - 1) + 1 = j
    BY <1>1, <1>2, <2>4
  <2>5. stream'[j - 1] = stream[j]
    BY <1>2, <2>3
  <2> QED BY <2>1, <2>2, <2>3, <2>5
<1>9. ASSUME NEW c \in Chats \ {stream[1].chat}, SaidAll(c)' PROVE SaidAll(c)
  <2>1. ASSUME NEW i \in 1 .. n PROVE stream[i].chat # c
    <3>1. CASE i = 1
      BY <3>1
    <3>2. CASE i # 1
      <4>1. i - 1 \in 1 .. Len(stream') /\ (i - 1) + 1 = i
        BY <1>1, <1>2, <3>2
      <4> QED BY <1>2, <1>9, <4>1 DEF SaidAll
    <3> QED BY <3>1, <3>2
  <2>2. over[c] /\ DOMAIN stream = 1 .. n
    BY <1>9, StreamSeq DEF SaidAll, n, ChatIInv
  <2> QED BY <2>1, <2>2 DEF SaidAll, n
<1> QED BY <1>2, <1>4, <1>5, <1>6, <1>7, <1>8, <1>9

LEMMA StreamEventOK == ASSUME ChatIInv, StreamEvent PROVE ChatIInv'
<1> DEFINE event == Head(stream)
<1>1. /\ stream # <<>> /\ stream' = Tail(stream)
      /\ UNCHANGED <<said, over, open, failed, lostRuns, erased>>
      /\ tabRuns' \subseteq tabRuns
      /\ event.chat # open \/ event.word # 0 =>
           \A c \in Chats : c = open /\ c \in tabRuns => c \in tabRuns'
  BY DEF StreamEvent
<1>2. /\ stream' \in Seq(ChatEvents) /\ StreamTold' /\ event.chat \in Chats /\ event.word \in Nat
      /\ event.word # 0 => event.word \in said[event.chat]
      /\ \A c \in Chats : c = event.chat /\ event.word # 0 => ~SaidAll(c)'
      /\ \A c \in Chats \ {event.chat} : SaidAll(c)' => SaidAll(c)
  BY <1>1, EventTaken
<1>3. CASE event.chat # open
  <2>1. UNCHANGED <<context, cache, reload>>
    BY <1>3 DEF StreamEvent
  <2>2. ChatTypes' /\ ContextTold' /\ \A c \in Chats : EntryTold(c)'
    BY <1>1, <1>2, <2>1 DEF ChatIInv, ChatTypes, ContextTold, EntryTold
  <2>3. \A c \in Chats : c = open /\ SaidAll(c)' => Settling(c)
    BY <1>2, <1>3 DEF ChatIInv
  <2>4. \A c \in Chats : c = open /\ Settling(c) => Settling(c)'
    BY <1>1, <1>3, <2>1 DEF Settling
  <2> QED BY <1>1, <1>2, <2>2, <2>3, <2>4 DEF ChatIInv
<1>4. CASE event.chat = open /\ event.word = 0
  <2>1. reload' = TRUE /\ UNCHANGED <<context, cache>>
    BY <1>4 DEF StreamEvent
  <2>2. ChatTypes' /\ ContextTold' /\ \A c \in Chats : EntryTold(c)'
    BY <1>1, <1>2, <2>1 DEF ChatIInv, ChatTypes, ContextTold, EntryTold
  <2>3. \A c \in Chats : Settling(c)'
    BY <2>1 DEF Settling
  <2> QED BY <1>2, <2>2, <2>3 DEF ChatIInv
<1>5. CASE event.chat = open /\ event.word # 0
  <2> DEFINE withWord == [context EXCEPT !.words = @ \cup {event.word}]
             entry == [cache[open] EXCEPT !.words = @ \cup {event.word}, !.touched = TRUE]
  <2>1. /\ context' = withWord /\ reload' = reload
        /\ ~context.own => cache' = [cache EXCEPT ![open] = entry]
        /\ context.own => cache' = cache
    BY <1>5 DEF StreamEvent
  <2>2. /\ open \in Chats /\ event.word \in Nat /\ event.word \in said[open] /\ open # NoChat
        /\ \A c \in Chats : c = open => ~SaidAll(c)'
    BY <1>2, <1>5, ChatAssumption
  <2>3. context \in [words : SUBSET Nat, own : BOOLEAN] /\ cache[open] \in ChatEntryRecs
    BY <2>2 DEF ChatIInv, ChatTypes
  <2>4. /\ withWord \in [words : SUBSET Nat, own : BOOLEAN]
        /\ withWord.words = context.words \cup {event.word} /\ withWord.own = context.own
    BY <2>2, <2>3
  <2>5. /\ entry \in ChatEntryRecs /\ entry.kept = cache[open].kept
        /\ entry.loaded = cache[open].loaded /\ entry.page = cache[open].page
        /\ entry.words = cache[open].words \cup {event.word} /\ entry.touched
    BY <2>2, <2>3 DEF ChatEntryRecs
  <2> HIDE DEF withWord, entry
  <2>6. cache[open].kept /\ context.words \subseteq said[open]
        /\ (context.own => ~cache[open].loaded)
        /\ (~context.own => context.words = cache[open].words)
    BY <2>2 DEF ChatIInv, ContextTold
  <2>7. /\ cache' \in [Chats -> ChatEntryRecs]
        /\ \A c \in Chats \ {open} : cache'[c] = cache[c]
        /\ cache'[open] = IF context.own THEN cache[open] ELSE entry
    BY <2>1, <2>2, <2>5 DEF ChatIInv, ChatTypes
  <2>8. ChatTypes'
    BY <1>1, <1>2, <2>1, <2>4, <2>7 DEF ChatIInv, ChatTypes
  <2>9. \A c \in Chats \ {open} : EntryTold(c)'
    BY <1>1, <2>7 DEF ChatIInv, EntryTold
  <2>10. EntryTold(open)'
    <3>1. EntryTold(open)
      BY <2>2 DEF ChatIInv
    <3>2. CASE context.own
      BY <1>1, <2>7, <3>1, <3>2 DEF EntryTold
    <3>3. CASE ~context.own
      BY <1>1, <2>2, <2>5, <2>6, <2>7, <3>1, <3>3 DEF EntryTold
    <3> QED BY <3>2, <3>3
  <2>11. ContextTold'
    <3>1. CASE context.own
      BY <1>1, <2>1, <2>2, <2>4, <2>6, <2>7, <3>1 DEF ContextTold
    <3>2. CASE ~context.own
      BY <1>1, <2>1, <2>2, <2>4, <2>5, <2>6, <2>7, <3>2 DEF ContextTold
    <3> QED BY <3>1, <3>2
  <2> QED BY <1>1, <1>2, <2>2, <2>8, <2>9, <2>10, <2>11 DEF ChatIInv
<1> QED BY <1>3, <1>4, <1>5

\* A poll forgets the runs that ended, and the one of the open chat reloads it.
LEMMA StatusPollOK == ASSUME ChatIInv, StatusPoll PROVE ChatIInv'
<1>1. PICK gone \in SUBSET {c \in tabRuns : over[c]} :
        /\ tabRuns' = (tabRuns \ gone) \cup {c \in Chats : ~over[c]}
        /\ reload' = (reload \/ open \in gone)
  BY DEF StatusPoll
<1>2. UNCHANGED <<said, over, stream, open, context, cache, failed, lostRuns, erased>>
  BY DEF StatusPoll
<1>3. ChatTypes'
  <2>1. reload' \in BOOLEAN /\ tabRuns' \subseteq Chats
    BY <1>1 DEF ChatIInv, ChatTypes
  <2> QED BY <1>2, <2>1 DEF ChatIInv, ChatTypes
<1>4. StreamTold' /\ ContextTold' /\ \A c \in Chats : EntryTold(c)'
  BY <1>2 DEF ChatIInv, StreamTold, ContextTold, EntryTold
<1>5. ASSUME NEW c \in Chats, c = open', SaidAll(c)' PROVE Settling(c)'
  <2>1. Settling(c)
    BY <1>2, <1>5 DEF ChatIInv, SaidAll
  <2>2. CASE c \in tabRuns
    BY <1>1, <1>2, <1>5, <2>2 DEF Settling
  <2>3. CASE c \notin tabRuns
    BY <1>1, <1>2, <2>1, <2>3 DEF Settling
  <2> QED BY <2>2, <2>3
<1> QED BY <1>3, <1>4, <1>5 DEF ChatIInv

LEMMA LongGapOK == ASSUME ChatIInv, LongGap PROVE ChatIInv'
<1>1. /\ stream' = <<>> /\ LoadOpenChat
      /\ UNCHANGED <<said, over, tabRuns, open, context, reload, erased>>
  BY DEF LongGap
<1>2. <<>> \in Seq(ChatEvents) /\ Len(<<>>) = 0
  BY EmptySeq
<1>3. StreamTold' /\ stream' \in Seq(ChatEvents)
  BY <1>1, <1>2 DEF StreamTold
<1>4. CASE open = NoChat
  <2>1. UNCHANGED <<cache, failed>> /\ lostRuns' \subseteq lostRuns
    BY <1>1, <1>4 DEF LoadOpenChat
  <2>2. ChatTypes' /\ ContextTold' /\ \A c \in Chats : EntryTold(c)'
    BY <1>1, <1>3, <1>4, <2>1 DEF ChatIInv, ChatTypes, ContextTold, EntryTold
  <2> QED BY <1>1, <1>3, <1>4, <2>2, ChatAssumption DEF ChatIInv
<1>5. CASE open # NoChat
  <2>1. reload' \in BOOLEAN
    BY <1>1 DEF ChatIInv, ChatTypes
  <2> QED BY <1>1, <1>3, <1>5, <2>1, OpenChatLoadOK
<1> QED BY <1>4, <1>5

\* An end that a short gap loses is that of a run the tab polls, or knows nothing of.
LEMMA ShortGapOK == ASSUME ChatIInv, ShortGap PROVE ChatIInv'
<1>1. /\ stream' = <<>> /\ lostRuns' = lostRuns \cup (EndsLost \ tabRuns)
      /\ UNCHANGED <<said, over, tabRuns, open, context, cache, reload, failed, erased>>
  BY DEF ShortGap
<1>2. <<>> \in Seq(ChatEvents) /\ Len(<<>>) = 0
  BY EmptySeq
<1>3. lostRuns' \subseteq Chats
  BY <1>1 DEF EndsLost, ChatIInv, ChatTypes
<1>4. ChatTypes' /\ ContextTold' /\ \A c \in Chats : EntryTold(c)'
  BY <1>1, <1>2, <1>3 DEF ChatIInv, ChatTypes, ContextTold, EntryTold
<1>5. StreamTold'
  BY <1>1, <1>2 DEF StreamTold
<1>6. ASSUME NEW c \in Chats, c = open', SaidAll(c)' PROVE Settling(c)'
  <2>1. over[c] /\ c = open
    BY <1>1, <1>6 DEF SaidAll
  <2>2. CASE SaidAll(c)
    <3>1. Settling(c)
      BY <2>1, <2>2 DEF ChatIInv
    <3> QED BY <1>1, <3>1 DEF Settling
  <2>3. CASE ~SaidAll(c)
    <3>1. PICK i \in 1 .. Len(stream) : stream[i].chat = c
      BY <2>1, <2>3 DEF SaidAll
    <3>2. PICK j \in i .. Len(stream) : stream[j].chat = c /\ stream[j].word = 0
      BY <2>1, <3>1 DEF ChatIInv, StreamTold
    <3>3. j \in DOMAIN stream /\ stream[j] \in ChatEvents
      BY <3>1, <3>2, StreamSeq DEF ChatIInv
    <3>4. stream[j] = [chat |-> c, word |-> 0]
      BY <3>2, <3>3 DEF ChatEvents
    <3>5. c \in EndsLost
      BY <3>3, <3>4 DEF EndsLost
    <3> QED BY <1>1, <3>5 DEF Settling
  <2> QED BY <2>2, <2>3
<1> QED BY <1>4, <1>5, <1>6 DEF ChatIInv

LEMMA ChatStepOK == ASSUME ChatIInv, [ChatNext]_chatVars PROVE ChatIInv'
<1>1. ASSUME NEW c \in Chats,
             \/ Say(c) \/ End(c) \/ ServerReadsPage(c) \/ Select(c) \/ Discard(c)
             \/ PageArrives(c) \/ LoadOlder(c) \/ OlderArrives(c) \/ LoadFails(c)
      PROVE  ChatIInv'
  BY <1>1, SayOK, EndOK, ServerReadsPageOK, SelectOK, DiscardOK, PageArrivesOK, LoadOlderOK,
     OlderArrivesOK, LoadFailsOK
<1>2. CASE ClearSelection \/ Reload \/ StreamEvent \/ StatusPoll \/ LongGap \/ ShortGap
  BY <1>2, ClearSelectionOK, ReloadStepOK, StreamEventOK, StatusPollOK, LongGapOK, ShortGapOK
<1>3. CASE UNCHANGED chatVars
  BY <1>3 DEF chatVars, ChatIInv, ChatTypes, StreamTold, EntryTold, ContextTold, SaidAll, Settling
<1> QED BY <1>1, <1>2, <1>3 DEF ChatNext

LEMMA HistoryIsWhole == ChatIInv => HistoryComplete
<1> SUFFICES ASSUME ChatIInv PROVE HistoryComplete
  OBVIOUS
<1>1. ~erased
  BY DEF ChatIInv, ChatTypes
<1>2. ASSUME open # NoChat, over[open], ~reload, ~failed[open], cache[open].load = "none",
             open \notin tabRuns, open \notin lostRuns,
             \A i \in DOMAIN stream : stream[i].chat # open
      PROVE  context.words = said[open]
  <2>1. open \in Chats /\ SaidAll(open)
    BY <1>2, StreamSeq DEF ChatIInv, ChatTypes, SaidAll
  <2> QED BY <1>2, <2>1 DEF ChatIInv, Settling
<1> QED BY <1>1, <1>2 DEF HistoryComplete

\* No reply takes words off a chat that showed them, and once an answer has ended, the
\* tab does not take it as running and nothing of the open chat is under way, all of its
\* words are shown, unless the tab did not know of the run and lost its end in a gap of
\* less than ten seconds (loadContext, mergeContextMessages, handleEvent,
\* connectEventStream).
THEOREM NothingIsErased == ChatSpec => []HistoryComplete
<1>1. ChatIInv /\ [ChatNext]_chatVars => ChatIInv'
  BY ChatStepOK
<1> QED BY <1>1, ChatInitOK, HistoryIsWhole, PTL DEF ChatSpec

-----------------------------------------------------------------------------
(* The composer.  A text belongs to the chat it was written in, or to the   *)
(* chat made for it; it is in one place, the draft of the open chat aside,  *)
(* which the text area stands for; and a file leaves the composer only      *)
(* with a send that reads it or by the user's hand.                         *)

ComposerStages == {"reading", "posting", "taken", "native", "creating", "sending"}
ComposerSends ==
  [text : Texts \cup {NoText}, chat : Everywhere, files : SUBSET Files, list : Nat,
   opens : Nat, stage : ComposerStages, asked : SUBSET Files]
ComposerPosts ==
  [text : Texts \cup {NoText}, chat : Everywhere, files : SUBSET Files, asked : SUBSET Files]
ComposerTypes ==
  /\ inChat \in Everywhere /\ box \in Texts \cup {NoText}
  /\ drafts \in [Everywhere -> Texts \cup {NoText}]
  /\ chips \in SUBSET Files /\ list \in Nat /\ opens \in Nat /\ chatMade \subseteq {MadeChat}
  /\ reads \in [Files -> {"none", "reading", "read", "failed", "released"}]
  /\ sends \in SUBSET ComposerSends /\ inTransit \in SUBSET ComposerPosts
  /\ DOMAIN written = Texts

TextBelongs(t, c) ==
  t # NoText => /\ written[t] # "nowhere"
                /\ written[t] = c \/ (written[t] = NewChat /\ c = MadeChat)
TextsBelong ==
  /\ TextBelongs(box, inChat)
  /\ \A c \in Everywhere : TextBelongs(drafts[c], c)
  /\ \A x \in sends : TextBelongs(x.text, x.chat)
  /\ \A m \in inTransit : TextBelongs(m.text, m.chat)

\* The drafts that count, and the sends that took their text.
Aside == Everywhere \ {inChat}
Carries(x) == x.text # NoText /\ x.stage # "native"
TextsOnce ==
  /\ \A d \in Aside : drafts[d] # NoText =>
       drafts[d] # box /\ \A e \in Aside \ {d} : drafts[e] # drafts[d]
  /\ \A x \in sends : Carries(x) =>
       /\ x.text # box /\ \A d \in Aside : drafts[d] # x.text
       /\ \A y \in sends : Carries(y) /\ y.text = x.text => y = x
  /\ \A m \in inTransit : m.text # NoText =>
       /\ m.text # box /\ \A d \in Aside : drafts[d] # m.text
       /\ \A x \in sends : Carries(x) /\ x.text = m.text => x.stage = "taken"
       /\ \A n \in inTransit : n.text = m.text => n = m

IsHeld(t) ==
  \/ t = box \/ t \in cancelled
  \/ \E d \in Aside : drafts[d] = t
  \/ \E x \in sends : Carries(x) /\ x.text = t
  \/ \E m \in inTransit : m.text = t
TextsHeld ==
  /\ \A t \in Texts : written[t] # "nowhere" => IsHeld(t)
  /\ \A x \in sends : x.stage = "taken" /\ x.text # NoText => \E m \in inTransit : m.text = x.text

Managed(x) == x.stage \in {"reading", "posting", "taken"}
IsReading(x) == x.stage \in {"reading", "native"}
FilesFollow ==
  /\ \A f \in chips : reads[f] \in {"reading", "read", "failed"}
  /\ \A x \in sends :
       /\ x.list <= list /\ x.opens <= opens
       /\ IsReading(x) => x.files = x.asked
       /\ IsReading(x) /\ x.list = list =>
            x.chat = inChat /\ x.opens = opens /\ x.asked \ taken \subseteq chips
       /\ ~IsReading(x) => x.asked \ taken \subseteq x.files
       /\ x.stage \in {"native", "creating"} => x.chat = NewChat
       /\ Managed(x) => x.chat # NewChat
       /\ x.stage = "native" /\ x.list = list => x.text \in {NoText, box}
  /\ \A x, y \in sends :
       /\ x.stage = "native" /\ y.stage = "native" /\ x.list = list /\ y.list = list => x = y
       /\ Managed(x) /\ Managed(y) /\ StillOpen(x) /\ StillOpen(y) => x = y
  /\ \A m \in inTransit : m.asked \subseteq m.files

ComposerIInv == ComposerTypes /\ TextsBelong /\ TextsOnce /\ TextsHeld /\ FilesFollow

LEMMA ChatsApart ==
  /\ NewChat \in Everywhere /\ MadeChat \in Everywhere /\ MadeChat # NewChat
  /\ "nowhere" \notin Everywhere /\ NoText \notin Texts
BY ComposerAssumption DEF Everywhere

LEMMA ComposerInitOK == ComposerInit => ComposerIInv
<1> SUFFICES ASSUME ComposerInit PROVE ComposerIInv
  OBVIOUS
<1>1. /\ inChat = NewChat /\ box = NoText /\ chips = {} /\ list = 0 /\ opens = 0
      /\ drafts = [c \in Everywhere |-> NoText] /\ reads = [f \in Files |-> "none"]
      /\ sends = {} /\ inTransit = {} /\ taken = {} /\ cancelled = {} /\ chatMade = {}
      /\ written = [t \in Texts |-> "nowhere"]
  BY DEF ComposerInit
<1>2. ComposerTypes
  BY <1>1, ChatsApart DEF ComposerTypes
<1>3. TextsBelong /\ TextsHeld
  BY <1>1 DEF TextsBelong, TextBelongs, TextsHeld
<1>4. TextsOnce
  BY <1>1 DEF TextsOnce, Aside
<1>5. FilesFollow
  BY <1>1 DEF FilesFollow
<1> QED BY <1>2, <1>3, <1>4, <1>5 DEF ComposerIInv

\* A send that was submitted.
LEMMA SubmittedIsOne ==
  ASSUME ComposerTypes, NEW to \in ComposerStages
  PROVE  LET x == Submitted(to)
         IN  /\ x \in ComposerSends /\ x.text = box /\ x.chat = inChat /\ x.files = chips
             /\ x.list = list /\ x.opens = opens /\ x.stage = to /\ x.asked = chips
BY DEF ComposerTypes, ComposerSends, Submitted


-----------------------------------------------------------------------------
LEMMA WriteOK == ASSUME ComposerIInv, NEW t \in Texts, Write(t) PROVE ComposerIInv'
<1>1. /\ box = NoText /\ written[t] = "nowhere" /\ box' = t
      /\ written' = [written EXCEPT ![t] = inChat]
      /\ UNCHANGED <<inChat, drafts, chips, list, reads, sends, inTransit, opens, chatMade,
                     taken, cancelled>>
  BY DEF Write
<1>2. written'[t] = inChat /\ \A u \in Texts \ {t} : written'[u] = written[u]
  BY <1>1 DEF ComposerIInv, ComposerTypes
<1>3. ComposerTypes'
  BY <1>1 DEF ComposerIInv, ComposerTypes
<1>4. inChat # "nowhere" /\ t # NoText
  BY ChatsApart DEF ComposerIInv, ComposerTypes
<1>5. /\ \A c \in Everywhere : drafts[c] \in Texts \cup {NoText} /\ drafts[c] # t
      /\ \A x \in sends : x.text \in Texts \cup {NoText} /\ x.text # t
      /\ \A m \in inTransit : m.text \in Texts \cup {NoText} /\ m.text # t
  BY <1>1, <1>4
  DEF ComposerIInv, ComposerTypes, ComposerSends, ComposerPosts, TextsBelong, TextBelongs
<1>6. TextsBelong'
  BY <1>1, <1>2, <1>4, <1>5 DEF ComposerIInv, TextsBelong, TextBelongs
<1>7. TextsOnce'
  BY <1>1, <1>4, <1>5 DEF ComposerIInv, TextsOnce, Aside, Carries
<1>8. TextsHeld'
  BY <1>1, <1>2, ChatsApart DEF ComposerIInv, TextsHeld, IsHeld, Aside, Carries
<1>9. FilesFollow'
  BY <1>1 DEF ComposerIInv, FilesFollow, Managed, IsReading, StillOpen
<1> QED BY <1>3, <1>6, <1>7, <1>8, <1>9 DEF ComposerIInv

LEMMA DraftSavedOK == ASSUME ComposerIInv, DraftSaved PROVE ComposerIInv'
<1>1. /\ drafts' = [drafts EXCEPT ![inChat] = box]
      /\ UNCHANGED <<inChat, box, chips, list, reads, sends, inTransit, opens, chatMade,
                     written, taken, cancelled>>
  BY DEF DraftSaved
<1>2. /\ drafts' \in [Everywhere -> Texts \cup {NoText}] /\ drafts'[inChat] = box
      /\ \A d \in Everywhere \ {inChat} : drafts'[d] = drafts[d]
  BY <1>1 DEF ComposerIInv, ComposerTypes
<1>3. ComposerTypes'
  BY <1>1, <1>2 DEF ComposerIInv, ComposerTypes
<1>4. TextsBelong'
  BY <1>1, <1>2 DEF ComposerIInv, TextsBelong, TextBelongs
<1>5. TextsOnce'
  BY <1>1, <1>2 DEF ComposerIInv, TextsOnce, Aside, Carries
<1>6. TextsHeld'
  BY <1>1, <1>2 DEF ComposerIInv, TextsHeld, IsHeld, Aside, Carries
<1>7. FilesFollow'
  BY <1>1 DEF ComposerIInv, FilesFollow, Managed, IsReading, StillOpen
<1> QED BY <1>3, <1>4, <1>5, <1>6, <1>7 DEF ComposerIInv

\* The texts stay where they are.
LEMMA FilesMove ==
  ASSUME ComposerIInv, chips' \in SUBSET Files,
         reads' \in [Files -> {"none", "reading", "read", "failed", "released"}],
         \A f \in chips' : reads'[f] \in {"reading", "read", "failed"},
         taken \subseteq taken', chips \subseteq chips' \cup taken',
         UNCHANGED <<inChat, box, drafts, list, sends, inTransit, opens, chatMade, written,
                     cancelled>>
  PROVE  ComposerIInv'
<1>1. ComposerTypes'
  BY DEF ComposerIInv, ComposerTypes
<1>2. TextsBelong' /\ TextsHeld'
  BY DEF ComposerIInv, TextsBelong, TextBelongs, TextsHeld, IsHeld, Aside, Carries
<1>3. TextsOnce'
  BY DEF ComposerIInv, TextsOnce, Aside, Carries
<1>4. FilesFollow'
  <2>1. \A x \in sends :
          /\ x.asked \ taken \subseteq chips => x.asked \ taken' \subseteq chips'
          /\ x.asked \ taken \subseteq x.files => x.asked \ taken' \subseteq x.files
    OBVIOUS
  <2> QED BY <2>1 DEF ComposerIInv, FilesFollow, Managed, IsReading, StillOpen
<1> QED BY <1>1, <1>2, <1>3, <1>4 DEF ComposerIInv

LEMMA FileStepsOK ==
  ASSUME ComposerIInv, NEW f \in Files, NEW how \in {"read", "failed"},
         AddFile(f) \/ FileRead(f, how) \/ RemoveFile(f)
  PROVE  ComposerIInv'
<1>1. /\ chips \in SUBSET Files
      /\ reads \in [Files -> {"none", "reading", "read", "failed", "released"}]
      /\ \A g \in chips : reads[g] \in {"reading", "read", "failed"}
  BY DEF ComposerIInv, ComposerTypes, FilesFollow
<1>2. CASE AddFile(f)
  <2>1. /\ chips' = chips \cup {f} /\ reads' = [reads EXCEPT ![f] = "reading"]
        /\ UNCHANGED <<inChat, box, drafts, list, sends, inTransit, opens, chatMade, written,
                       taken, cancelled>>
    BY <1>2 DEF AddFile
  <2> QED BY <1>1, <2>1, FilesMove
<1>3. CASE FileRead(f, how)
  <2>1. /\ reads' = [reads EXCEPT ![f] = IF f \in chips THEN how ELSE "released"]
        /\ UNCHANGED <<inChat, box, drafts, chips, list, sends, inTransit, opens, chatMade,
                       written, taken, cancelled>>
    BY <1>3 DEF FileRead
  <2> QED BY <1>1, <2>1, FilesMove
<1>4. CASE RemoveFile(f)
  <2>1. /\ chips' = chips \ {f} /\ taken' = taken \cup {f}
        /\ reads' = [g \in Files |-> IF g \in {f} THEN "released" ELSE reads[g]]
        /\ UNCHANGED <<inChat, box, drafts, list, sends, inTransit, opens, chatMade, written,
                       cancelled>>
    BY <1>4 DEF RemoveFile, Released
  <2> QED BY <1>1, <2>1, FilesMove
<1> QED BY <1>2, <1>3, <1>4

-----------------------------------------------------------------------------
\* Another chat is opened: what Opened does to each part.
LEMMA OpenedOK ==
  ASSUME ComposerIInv, NEW c \in Everywhere, Opened(c),
         UNCHANGED <<sends, inTransit, written, taken, cancelled>>,
         chatMade' \subseteq {MadeChat}
  PROVE  ComposerIInv'
<1>1. /\ drafts' = [drafts EXCEPT ![inChat] = box] /\ box' = drafts'[c]
      /\ chips' = {} /\ list' = list + 1 /\ inChat' = c
      /\ reads' = [f \in Files |-> IF f \in chips THEN "released" ELSE reads[f]]
      /\ c = inChat => opens' = opens
      /\ c # inChat => opens' = opens + 1
  BY DEF Opened, Released
<1>2. /\ drafts' \in [Everywhere -> Texts \cup {NoText}] /\ drafts'[inChat] = box
      /\ \A d \in Everywhere \ {inChat} : drafts'[d] = drafts[d]
  BY <1>1 DEF ComposerIInv, ComposerTypes
<1>3. reads' \in [Files -> {"none", "reading", "read", "failed", "released"}]
  BY <1>1 DEF ComposerIInv, ComposerTypes
<1>4. ComposerTypes'
  BY <1>1, <1>2, <1>3 DEF ComposerIInv, ComposerTypes
<1>5. inChat \in Everywhere
  BY DEF ComposerIInv, ComposerTypes
<1>6. TextsBelong'
  BY <1>1, <1>2, <1>5 DEF ComposerIInv, TextsBelong, TextBelongs
<1>7. TextsOnce'
  <2>1. CASE c = inChat
    BY <1>1, <1>2, <2>1 DEF ComposerIInv, TextsOnce, Aside, Carries
  <2>2. CASE c # inChat
    <3>1. /\ box' = drafts[c] /\ c \in Aside /\ drafts'[inChat] = box
          /\ \A d \in Everywhere \ {c} : d = inChat \/ (d \in Aside /\ drafts'[d] = drafts[d])
      BY <1>1, <1>2, <2>2 DEF Aside
    <3>2. \A d \in Aside' : d \in Everywhere \ {c}
      BY <1>1 DEF Aside
    <3>3. ASSUME NEW d \in Aside', drafts'[d] # NoText
          PROVE  drafts'[d] # box' /\ \A e \in Aside' \ {d} : drafts'[e] # drafts'[d]
      BY <3>1, <3>2, <3>3 DEF ComposerIInv, TextsOnce
    <3>4. ASSUME NEW x \in sends, Carries(x)
          PROVE  x.text # box' /\ \A d \in Aside' : drafts'[d] # x.text
      BY <3>1, <3>2, <3>4 DEF ComposerIInv, TextsOnce
    <3>5. ASSUME NEW m \in inTransit, m.text # NoText
          PROVE  m.text # box' /\ \A d \in Aside' : drafts'[d] # m.text
      BY <3>1, <3>2, <3>5 DEF ComposerIInv, TextsOnce
    <3> QED BY <3>3, <3>4, <3>5 DEF ComposerIInv, TextsOnce, Carries
  <2> QED BY <2>1, <2>2
<1>8. TextsHeld'
  BY <1>1, <1>2, <1>5 DEF ComposerIInv, TextsHeld, IsHeld, Aside, Carries
<1>9. FilesFollow'
  <2>1. \A x \in sends : x.list \in Nat /\ x.opens \in Nat /\ list \in Nat /\ opens \in Nat
    BY DEF ComposerIInv, ComposerTypes, ComposerSends
  <2>2. \A x \in sends : x.list <= list /\ x.opens <= opens
    BY DEF ComposerIInv, FilesFollow
  <2>3. \A x \in sends : x.list <= list' /\ x.opens <= opens' /\ x.list # list'
    BY <1>1, <2>1, <2>2
  <2>4. \A x \in sends : StillOpen(x)' => StillOpen(x)
    BY <1>1, <2>1, <2>2 DEF StillOpen
  <2> QED BY <1>1, <2>3, <2>4 DEF ComposerIInv, FilesFollow, Managed, IsReading
<1> QED BY <1>4, <1>6, <1>7, <1>8, <1>9 DEF ComposerIInv

LEMMA OpenChatOK == ASSUME ComposerIInv, NEW c \in Everywhere, OpenChat(c) PROVE ComposerIInv'
BY OpenedOK DEF OpenChat, ComposerIInv, ComposerTypes

\* The chat a prompt needs is made, and opened.
LEMMA QuickCreatedOK ==
  ASSUME ComposerIInv, NEW x \in sends, QuickCreated(x) PROVE ComposerIInv'
<1> DEFINE y == [x EXCEPT !.stage = "sending", !.chat = MadeChat]
           c == MadeChat
<1>1. /\ x.stage = "creating" /\ sends' = (sends \ {x}) \cup {y}
      /\ drafts' = [drafts EXCEPT ![inChat] = box] /\ box' = drafts'[c]
      /\ chips' = {} /\ list' = list + 1 /\ inChat' = c
      /\ reads' = [f \in Files |-> IF f \in chips THEN "released" ELSE reads[f]]
      /\ c = inChat => opens' = opens
      /\ c # inChat => opens' = opens + 1
      /\ chatMade' = chatMade \cup {MadeChat}
      /\ UNCHANGED <<inTransit, written, taken, cancelled>>
  BY DEF QuickCreated, Resend, Opened, Released
<1>2. x \in ComposerSends /\ c \in Everywhere
  BY ChatsApart DEF ComposerIInv, ComposerTypes
<1>3. /\ y \in ComposerSends /\ y.text = x.text /\ y.chat = MadeChat /\ y.files = x.files
      /\ y.list = x.list /\ y.opens = x.opens /\ y.stage = "sending" /\ y.asked = x.asked
  BY <1>2 DEF ComposerSends, ComposerStages
<1> HIDE DEF y, c
<1>4. /\ drafts' \in [Everywhere -> Texts \cup {NoText}] /\ drafts'[inChat] = box
      /\ \A d \in Everywhere \ {inChat} : drafts'[d] = drafts[d]
  BY <1>1 DEF ComposerIInv, ComposerTypes
<1>5. reads' \in [Files -> {"none", "reading", "read", "failed", "released"}]
  BY <1>1 DEF ComposerIInv, ComposerTypes
<1>6. ComposerTypes'
  BY <1>1, <1>2, <1>3, <1>4, <1>5 DEF ComposerIInv, ComposerTypes
<1>7. inChat \in Everywhere
  BY DEF ComposerIInv, ComposerTypes
<1>8. TextsBelong'
  <2>1. x.chat = NewChat
    BY <1>1 DEF ComposerIInv, FilesFollow
  <2>2. TextBelongs(y.text, y.chat)
    BY <1>3, <2>1, ChatsApart DEF ComposerIInv, TextsBelong, TextBelongs
  <2>3. /\ TextBelongs(box', inChat') /\ \A d \in Everywhere : TextBelongs(drafts'[d], d)
    BY <1>1, <1>2, <1>4, <1>7 DEF ComposerIInv, TextsBelong, TextBelongs
  <2>4. \A z \in sends' : TextBelongs(z.text, z.chat)
    BY <1>1, <2>2 DEF ComposerIInv, TextsBelong
  <2>5. \A m \in inTransit : TextBelongs(m.text, m.chat)
    BY DEF ComposerIInv, TextsBelong
  <2> QED BY <1>1, <2>3, <2>4, <2>5 DEF TextsBelong, TextBelongs
<1>9. TextsOnce'
  <2>1. /\ \A z \in sends' : z = y \/ (z \in sends /\ z # x)
        /\ Carries(y) <=> Carries(x)
    BY <1>1, <1>3 DEF Carries
  <2>2. CASE c = inChat
    <3>1. box' = box /\ Aside' = Aside /\ \A d \in Aside : drafts'[d] = drafts[d]
      BY <1>1, <1>4, <2>2 DEF Aside
    <3>2. \A z \in sends' : Carries(z) =>
            /\ z.text # box /\ \A d \in Aside : drafts[d] # z.text
            /\ \A m \in inTransit : m.text = z.text => z.stage = "taken"
      BY <1>1, <1>3, <2>1 DEF ComposerIInv, TextsOnce, Carries
    <3>3. \A z, w \in sends' : Carries(z) /\ Carries(w) /\ z.text = w.text => z = w
      BY <1>3, <2>1 DEF ComposerIInv, TextsOnce
    <3> QED BY <1>1, <3>1, <3>2, <3>3 DEF ComposerIInv, TextsOnce, Carries
  <2>3. CASE c # inChat
    <3>1. /\ box' = drafts[c] /\ c \in Aside /\ drafts'[inChat] = box
          /\ \A d \in Everywhere \ {c} : d = inChat \/ (d \in Aside /\ drafts'[d] = drafts[d])
      BY <1>1, <1>2, <1>4, <2>3 DEF Aside
    <3>2. \A d \in Aside' : d \in Everywhere \ {c}
      BY <1>1 DEF Aside
    <3>3. ASSUME NEW d \in Aside', drafts'[d] # NoText
          PROVE  drafts'[d] # box' /\ \A e \in Aside' \ {d} : drafts'[e] # drafts'[d]
      BY <3>1, <3>2, <3>3 DEF ComposerIInv, TextsOnce
    <3>4. ASSUME NEW z \in sends, Carries(z)
          PROVE  z.text # box' /\ \A d \in Aside' : drafts'[d] # z.text
      BY <3>1, <3>2, <3>4 DEF ComposerIInv, TextsOnce
    <3>5. ASSUME NEW m \in inTransit, m.text # NoText
          PROVE  m.text # box' /\ \A d \in Aside' : drafts'[d] # m.text
      BY <3>1, <3>2, <3>5 DEF ComposerIInv, TextsOnce
    <3>6. \A z \in sends' : Carries(z) =>
            /\ z.text # box' /\ \A d \in Aside' : drafts'[d] # z.text
            /\ \A m \in inTransit : m.text = z.text => z.stage = "taken"
      BY <1>1, <1>3, <2>1, <3>4 DEF ComposerIInv, TextsOnce, Carries
    <3>7. \A z, w \in sends' : Carries(z) /\ Carries(w) /\ z.text = w.text => z = w
      BY <1>3, <2>1 DEF ComposerIInv, TextsOnce
    <3> QED BY <1>1, <3>3, <3>5, <3>6, <3>7 DEF ComposerIInv, TextsOnce, Carries
  <2> QED BY <2>2, <2>3
<1>10. TextsHeld'
  <2>1. \A z \in sends : Carries(z) => \E w \in sends' : Carries(w) /\ w.text = z.text
    BY <1>1, <1>3 DEF Carries
  <2>2. \A t : IsHeld(t) => IsHeld(t)'
    BY <1>1, <1>2, <1>4, <1>7, <2>1 DEF IsHeld, Aside, Carries
  <2>3. \A z \in sends' : z.stage = "taken" /\ z.text # NoText => \E m \in inTransit : m.text = z.text
    BY <1>1, <1>3 DEF ComposerIInv, TextsHeld
  <2> QED BY <1>1, <2>2, <2>3 DEF ComposerIInv, TextsHeld
<1>11. FilesFollow'
  <2>1. \A z \in sends : z.list \in Nat /\ z.opens \in Nat /\ list \in Nat /\ opens \in Nat
    BY DEF ComposerIInv, ComposerTypes, ComposerSends
  <2>2. \A z \in sends : z.list <= list /\ z.opens <= opens
    BY DEF ComposerIInv, FilesFollow
  <2>3. \A z \in sends' : z.list <= list' /\ z.opens <= opens' /\ z.list # list'
    BY <1>1, <1>3, <2>1, <2>2
  <2>4. \A z \in sends' : z = y \/ z \in sends
    BY <1>1
  <2>5. \A z \in sends : StillOpen(z)' => StillOpen(z)
    BY <1>1, <2>1, <2>2 DEF StillOpen
  <2>6. y.asked \ taken \subseteq y.files
    BY <1>1, <1>3 DEF ComposerIInv, FilesFollow, IsReading
  <2>7. \A z \in sends' :
          /\ IsReading(z) => z.files = z.asked
          /\ ~IsReading(z) => z.asked \ taken \subseteq z.files
          /\ z.stage \in {"native", "creating"} => z.chat = NewChat
          /\ Managed(z) => z.chat # NewChat /\ z \in sends
    BY <1>3, <2>4, <2>6 DEF ComposerIInv, FilesFollow, IsReading, Managed
  <2>8. \A z, w \in sends' : Managed(z) /\ Managed(w) /\ StillOpen(z)' /\ StillOpen(w)' => z = w
    BY <2>5, <2>7 DEF ComposerIInv, FilesFollow
  <2> QED BY <1>1, <2>3, <2>7, <2>8 DEF ComposerIInv, FilesFollow, IsReading, Managed
<1> QED BY <1>6, <1>8, <1>9, <1>10, <1>11 DEF ComposerIInv

-----------------------------------------------------------------------------
\* The managed send.
LEMMA SubmitOK == ASSUME ComposerIInv, Submit PROVE ComposerIInv'
<1> DEFINE y == Submitted("reading")
<1>1. /\ inChat # NewChat /\ ~SubmitPending /\ sends' = sends \cup {y} /\ box' = NoText
      /\ UNCHANGED <<inChat, drafts, chips, list, reads, inTransit, opens, chatMade, written,
                     taken, cancelled>>
  BY DEF Submit
<1>2. /\ y \in ComposerSends /\ y.text = box /\ y.chat = inChat /\ y.files = chips
      /\ y.list = list /\ y.opens = opens /\ y.stage = "reading" /\ y.asked = chips
  BY SubmittedIsOne DEF ComposerStages, ComposerIInv
<1> HIDE DEF y
<1>3. ComposerTypes'
  BY <1>1, <1>2 DEF ComposerIInv, ComposerTypes
<1>4. TextsBelong'
  BY <1>1, <1>2 DEF ComposerIInv, TextsBelong, TextBelongs
<1>5. TextsOnce'
  BY <1>1, <1>2 DEF ComposerIInv, TextsOnce, Aside, Carries
<1>6. TextsHeld'
  BY <1>1, <1>2, ChatsApart DEF ComposerIInv, TextsHeld, IsHeld, Aside, Carries
<1>7. FilesFollow'
  <2>1. \A x \in sends : ~(Managed(x) /\ StillOpen(x))
    BY <1>1 DEF SubmitPending, Managed, StillOpen
  <2>2. \A x \in sends : x.stage = "native" => x.list # list
    BY <1>1 DEF ComposerIInv, FilesFollow, IsReading
  <2>3. list \in Nat /\ opens \in Nat
    BY DEF ComposerIInv, ComposerTypes
  <2> QED BY <1>1, <1>2, <2>1, <2>2, <2>3
    DEF ComposerIInv, FilesFollow, Managed, IsReading, StillOpen
<1> QED BY <1>3, <1>4, <1>5, <1>6, <1>7 DEF ComposerIInv

\* A send ends; its text comes back to its chat, went out or is given up.
LEMMA SendGone ==
  ASSUME ComposerIInv, NEW x \in sends, sends' = sends \ {x},
         \/ box' \in {box, NoText}
         \/ box' = x.text /\ x.chat = inChat /\ Carries(x) /\ x.stage # "taken",
         box \in {NoText, box'} \cup cancelled',
         Carries(x) => x.text \in {box'} \cup cancelled' \/ \E m \in inTransit : m.text = x.text,
         box' # box => inChat # NewChat \/ box = NoText,
         cancelled \subseteq cancelled',
         drafts' \in [Everywhere -> Texts \cup {NoText}],
         \A d \in Aside : drafts'[d] = drafts[d],
         drafts'[inChat] \in {drafts[inChat], box'},
         chips' \in SUBSET Files,
         reads' \in [Files -> {"none", "reading", "read", "failed", "released"}],
         \A f \in chips' : reads'[f] \in {"reading", "read", "failed"},
         \A y \in sends' : IsReading(y) /\ y.list = list /\ y.asked \ taken \subseteq chips
                              => y.asked \ taken \subseteq chips',
         UNCHANGED <<inChat, list, inTransit, opens, chatMade, written, taken>>
  PROVE  ComposerIInv'
<1>1. ComposerTypes'
  BY DEF ComposerIInv, ComposerTypes, ComposerSends
<1>2. Aside' = Aside /\ \A d \in Everywhere : d = inChat \/ d \in Aside
  BY DEF Aside
<1>3. TextBelongs(box', inChat)
  BY DEF ComposerIInv, TextsBelong, TextBelongs
<1>4. TextsBelong'
  <2>1. \A d \in Everywhere : TextBelongs(drafts'[d], d)
    BY <1>2, <1>3 DEF ComposerIInv, TextsBelong
  <2> QED BY <1>3, <2>1 DEF ComposerIInv, TextsBelong, TextBelongs
<1>5. TextsOnce'
  BY <1>2 DEF ComposerIInv, TextsOnce, Carries
<1>6. TextsHeld'
  <2>1. ASSUME NEW t \in Texts, IsHeld(t) PROVE IsHeld(t)'
    <3>1. CASE t = box
      BY <2>1, <3>1, ChatsApart DEF IsHeld
    <3>2. CASE \E z \in sends : Carries(z) /\ z.text = t
      BY <1>2, <2>1, <3>2 DEF IsHeld, Carries
    <3>3. CASE t \in cancelled \/ (\E d \in Aside : drafts[d] = t) \/ \E m \in inTransit : m.text = t
      BY <1>2, <2>1, <3>3 DEF IsHeld
    <3> QED BY <2>1, <3>1, <3>2, <3>3 DEF IsHeld
  <2> QED BY <2>1 DEF ComposerIInv, TextsHeld
<1>7. FilesFollow'
  BY DEF ComposerIInv, FilesFollow, Managed, IsReading, StillOpen
<1> QED BY <1>1, <1>4, <1>5, <1>6, <1>7 DEF ComposerIInv

LEMMA SendPutBackOK ==
  ASSUME ComposerIInv, NEW x \in sends, x.stage \in {"reading", "posting"}, PutBack(x),
         UNCHANGED <<inChat, drafts, chips, list, reads, inTransit, opens, chatMade, written,
                     taken>>
  PROVE  ComposerIInv'
<1>1. /\ drafts \in [Everywhere -> Texts \cup {NoText}] /\ chips \in SUBSET Files
      /\ reads \in [Files -> {"none", "reading", "read", "failed", "released"}]
      /\ \A f \in chips : reads[f] \in {"reading", "read", "failed"}
      /\ x.chat # NewChat
  BY DEF ComposerIInv, ComposerTypes, FilesFollow, Managed
<1>2. CASE StillOpen(x)
  <2>1. /\ sends' = sends \ {x} /\ box' = x.text /\ x.chat = inChat
        /\ cancelled' = cancelled \cup (({box} \ {x.text}) \ {NoText})
    BY <1>2 DEF PutBack, GivenUp, StillOpen
  <2> QED BY <1>1, <2>1, SendGone DEF Carries
<1>3. CASE ~StillOpen(x)
  <2>1. /\ sends' = sends \ {x} /\ box' = box
        /\ cancelled' = cancelled \cup ({x.text} \ {NoText})
    BY <1>3 DEF PutBack, GivenUp
  <2> QED BY <1>1, <2>1, SendGone DEF Carries
<1> QED BY <1>2, <1>3

LEMMA SubmitFailsOK == ASSUME ComposerIInv, NEW x \in sends, SubmitFails(x) PROVE ComposerIInv'
BY SendPutBackOK DEF SubmitFails

\* A send goes on with what it read.
LEMMA SendGoesOn ==
  ASSUME ComposerIInv, NEW x \in sends, NEW y, NEW to,
         \/ x.stage = "reading" /\ to = "posting"
         \/ x.stage = "native" /\ to = "creating",
         x.list = list, Settled(x), ~Unreadable(x),
         y = [x EXCEPT !.stage = to, !.files = ReadFiles(x)]
  PROVE  /\ y \in ComposerSends /\ y.text = x.text /\ y.chat = x.chat /\ y.stage = to
         /\ y.list = x.list /\ y.opens = x.opens /\ y.asked \ taken \subseteq y.files
<1>1. x \in ComposerSends /\ ReadFiles(x) \in SUBSET Files /\ to \in ComposerStages
  BY DEF ComposerIInv, ComposerTypes, ReadFiles, ComposerStages
<1> PICK fs \in SUBSET Files : fs = ReadFiles(x)
  BY <1>1
<1>5. y = [x EXCEPT !.stage = to, !.files = fs]
  OBVIOUS
<1>2. /\ y \in ComposerSends /\ y.text = x.text /\ y.chat = x.chat /\ y.stage = to
      /\ y.list = x.list /\ y.opens = x.opens /\ y.asked = x.asked /\ y.files = ReadFiles(x)
  BY <1>1, <1>5 DEF ComposerSends
<1>3. x.files = x.asked /\ x.asked \ taken \subseteq chips
  BY DEF ComposerIInv, FilesFollow, IsReading
<1>4. ASSUME NEW f \in x.asked \ taken PROVE f \in ReadFiles(x)
  <2>1. reads[f] \in {"reading", "read", "failed"} /\ f \in x.files \cap chips
    BY <1>3 DEF ComposerIInv, FilesFollow
  <2> QED BY <2>1 DEF ReadFiles, Settled, Unreadable
<1> QED BY <1>2, <1>4

LEMMA SubmitReadyOK == ASSUME ComposerIInv, NEW x \in sends, SubmitReady(x) PROVE ComposerIInv'
<1>1. /\ x.stage = "reading" /\ Settled(x)
      /\ UNCHANGED <<inChat, drafts, chips, list, reads, inTransit, opens, chatMade, written,
                     taken>>
  BY DEF SubmitReady
<1>2. /\ drafts \in [Everywhere -> Texts \cup {NoText}] /\ chips \in SUBSET Files
      /\ reads \in [Files -> {"none", "reading", "read", "failed", "released"}]
      /\ \A f \in chips : reads[f] \in {"reading", "read", "failed"}
      /\ x.chat # NewChat
  BY <1>1 DEF ComposerIInv, ComposerTypes, FilesFollow, Managed
<1>3. CASE ~StillOpen(x) \/ Unreadable(x)
  <2>1. PutBack(x)
    BY <1>3 DEF SubmitReady
  <2> QED BY <1>1, <2>1, SendPutBackOK
<1>4. CASE StillOpen(x) /\ ~Unreadable(x) /\ ~SameList(x)
  <2>1. /\ sends' = sends \ {x} /\ box' = IF box = NoText THEN x.text ELSE box
        /\ GivenUp(IF box = NoText THEN {} ELSE {x.text})
    BY <1>4 DEF SubmitReady
  <2>2. cancelled' = cancelled \cup ((IF box = NoText THEN {} ELSE {x.text}) \ {NoText})
    BY <2>1 DEF GivenUp
  <2>3. x.chat = inChat
    BY <1>4 DEF StillOpen
  <2> QED BY <1>1, <1>2, <2>1, <2>2, <2>3, SendGone DEF Carries
<1>5. CASE StillOpen(x) /\ ~Unreadable(x) /\ SameList(x)
  <2>1. /\ x.text = NoText /\ ReadFiles(x) = {} => sends' = sends \ {x}
        /\ ~(x.text = NoText /\ ReadFiles(x) = {}) =>
             Resend(x, [x EXCEPT !.stage = "posting", !.files = ReadFiles(x)])
        /\ UNCHANGED <<box, cancelled>>
    BY <1>5 DEF SubmitReady
  <2>2. CASE x.text = NoText /\ ReadFiles(x) = {}
    BY <1>1, <1>2, <2>1, <2>2, SendGone DEF Carries
  <2>3. CASE ~(x.text = NoText /\ ReadFiles(x) = {})
    <3> DEFINE y == [x EXCEPT !.stage = "posting", !.files = ReadFiles(x)]
    <3>1. sends' = (sends \ {x}) \cup {y}
      BY <2>1, <2>3 DEF Resend
    <3>2. /\ y \in ComposerSends /\ y.text = x.text /\ y.chat = x.chat /\ y.stage = "posting"
          /\ y.list = x.list /\ y.opens = x.opens /\ y.asked \ taken \subseteq y.files
      BY <1>1, <1>5, SendGoesOn DEF SameList
    <3> HIDE DEF y
    <3>3. \A z \in sends' : z = y \/ (z \in sends /\ z # x)
      BY <3>1
    <3>4. ComposerTypes' /\ TextsBelong'
      BY <1>1, <2>1, <3>1, <3>2
      DEF ComposerIInv, ComposerTypes, TextsBelong, TextBelongs
    <3>5. TextsOnce'
      BY <1>1, <2>1, <3>2, <3>3 DEF ComposerIInv, TextsOnce, Aside, Carries
    <3>6. TextsHeld'
      BY <1>1, <2>1, <3>1, <3>2 DEF ComposerIInv, TextsHeld, IsHeld, Aside, Carries
    <3>7. FilesFollow'
      BY <1>1, <2>1, <3>2, <3>3 DEF ComposerIInv, FilesFollow, Managed, IsReading, StillOpen
    <3> QED BY <3>4, <3>5, <3>6, <3>7 DEF ComposerIInv
  <2> QED BY <2>2, <2>3
<1> QED BY <1>3, <1>4, <1>5

\* What Posted adds.
LEMMA PostIsOne ==
  ASSUME NEW x \in ComposerSends, NEW m,
         m = [text |-> x.text, chat |-> x.chat, files |-> x.files, asked |-> x.asked \ taken]
  PROVE  /\ m \in ComposerPosts /\ m.text = x.text /\ m.chat = x.chat /\ m.files = x.files
         /\ m.asked = x.asked \ taken
BY DEF ComposerSends, ComposerPosts

LEMMA ServerTakesOK == ASSUME ComposerIInv, NEW x \in sends, ServerTakes(x) PROVE ComposerIInv'
<1> DEFINE y == [x EXCEPT !.stage = "taken"]
           m == [text |-> x.text, chat |-> x.chat, files |-> x.files, asked |-> x.asked \ taken]
<1>1. /\ x.stage = "posting" /\ inTransit' = inTransit \cup {m} /\ sends' = (sends \ {x}) \cup {y}
      /\ UNCHANGED <<inChat, box, drafts, chips, list, reads, opens, chatMade, written, taken,
                     cancelled>>
  BY DEF ServerTakes, Posted, Resend
<1>2. x \in ComposerSends
  BY DEF ComposerIInv, ComposerTypes
<1>3. /\ m \in ComposerPosts /\ m.text = x.text /\ m.chat = x.chat /\ m.files = x.files
      /\ m.asked = x.asked \ taken
  BY <1>2, PostIsOne
<1>4. /\ y \in ComposerSends /\ y.text = x.text /\ y.chat = x.chat /\ y.stage = "taken"
      /\ y.list = x.list /\ y.opens = x.opens /\ y.asked = x.asked /\ y.files = x.files
  BY <1>2 DEF ComposerSends, ComposerStages
<1> HIDE DEF y, m
<1>5. /\ \A z \in sends' : z = y \/ (z \in sends /\ z # x)
      /\ \A n \in inTransit' : n = m \/ n \in inTransit
  BY <1>1
<1>6. ComposerTypes' /\ TextsBelong'
  BY <1>1, <1>3, <1>4, <1>5 DEF ComposerIInv, ComposerTypes, TextsBelong, TextBelongs
<1>7. TextsOnce'
  BY <1>1, <1>3, <1>4, <1>5 DEF ComposerIInv, TextsOnce, Aside, Carries
<1>8. TextsHeld'
  BY <1>1, <1>3, <1>4 DEF ComposerIInv, TextsHeld, IsHeld, Aside, Carries
<1>9. FilesFollow'
  <2>1. x.asked \ taken \subseteq x.files
    BY <1>1 DEF ComposerIInv, FilesFollow, IsReading
  <2> QED BY <1>1, <1>3, <1>4, <1>5, <2>1
    DEF ComposerIInv, FilesFollow, Managed, IsReading, StillOpen
<1> QED BY <1>6, <1>7, <1>8, <1>9 DEF ComposerIInv

LEMMA SendDoneOK == ASSUME ComposerIInv, NEW x \in sends, SendDone(x) PROVE ComposerIInv'
<1>1. /\ x.stage = "taken" /\ sends' = sends \ {x}
      /\ UNCHANGED <<inChat, drafts, list, inTransit, opens, chatMade, written, taken>>
  BY DEF SendDone
<1>2. /\ drafts \in [Everywhere -> Texts \cup {NoText}] /\ chips \in SUBSET Files
      /\ reads \in [Files -> {"none", "reading", "read", "failed", "released"}]
      /\ \A f \in chips : reads[f] \in {"reading", "read", "failed"}
      /\ x.chat # NewChat
      /\ Carries(x) => \E m \in inTransit : m.text = x.text
      /\ Carries(x) => x.text # box
  BY <1>1 DEF ComposerIInv, ComposerTypes, FilesFollow, Managed, TextsHeld, Carries, TextsOnce
<1>3. CASE ~StillOpen(x)
  <2>1. UNCHANGED <<box, chips, reads, cancelled>>
    BY <1>3 DEF SendDone
  <2> QED BY <1>1, <1>2, <2>1, SendGone
<1>4. CASE StillOpen(x)
  <2>1. /\ box' = NoText /\ chips' = chips \ x.files
        /\ reads' = [f \in Files |-> IF f \in x.files \cap chips THEN "released" ELSE reads[f]]
        /\ cancelled' = cancelled \cup (({box} \ {x.text}) \ {NoText})
    BY <1>4 DEF SendDone, Released, GivenUp
  <2>2. inChat # NewChat /\ Managed(x)
    BY <1>1, <1>2, <1>4 DEF StillOpen, Managed
  <2>3. \A y \in sends' : ~(IsReading(y) /\ y.list = list)
    <3> SUFFICES ASSUME NEW y \in sends', IsReading(y), y.list = list PROVE FALSE
      OBVIOUS
    <3>1. y \in sends /\ y # x /\ y.chat = inChat /\ y.opens = opens
      BY <1>1 DEF ComposerIInv, FilesFollow
    <3>2. Managed(y) /\ StillOpen(y)
      BY <2>2, <3>1 DEF ComposerIInv, FilesFollow, IsReading, Managed, StillOpen
    <3> QED BY <1>4, <2>2, <3>1, <3>2 DEF ComposerIInv, FilesFollow
  <2>4. box \in {NoText, box'} \cup cancelled'
    BY <1>1, <1>2, <2>1 DEF Carries
  <2>5. /\ chips' \in SUBSET Files
        /\ reads' \in [Files -> {"none", "reading", "read", "failed", "released"}]
        /\ \A f \in chips' : reads'[f] \in {"reading", "read", "failed"}
    BY <1>2, <2>1
  <2> QED BY <1>1, <1>2, <2>1, <2>2, <2>3, <2>4, <2>5, SendGone
<1> QED BY <1>3, <1>4

-----------------------------------------------------------------------------
\* The send that has no chat yet.
LEMMA QuickSubmitOK == ASSUME ComposerIInv, QuickSubmit PROVE ComposerIInv'
<1> DEFINE y == Submitted("native")
<1>1. /\ inChat = NewChat /\ \A x \in sends : x.list # list
      /\ sends' = sends \cup {y}
      /\ UNCHANGED <<inChat, box, drafts, chips, list, reads, inTransit, opens, chatMade,
                     written, taken, cancelled>>
  BY DEF QuickSubmit
<1>2. /\ y \in ComposerSends /\ y.text = box /\ y.chat = inChat /\ y.files = chips
      /\ y.list = list /\ y.opens = opens /\ y.stage = "native" /\ y.asked = chips
  BY SubmittedIsOne DEF ComposerStages, ComposerIInv
<1> HIDE DEF y
<1>3. ComposerTypes' /\ TextsBelong'
  BY <1>1, <1>2 DEF ComposerIInv, ComposerTypes, TextsBelong, TextBelongs
<1>4. TextsOnce'
  BY <1>1, <1>2 DEF ComposerIInv, TextsOnce, Aside, Carries
<1>5. TextsHeld'
  BY <1>1, <1>2 DEF ComposerIInv, TextsHeld, IsHeld, Aside, Carries
<1>6. FilesFollow'
  <2>1. list \in Nat /\ opens \in Nat
    BY DEF ComposerIInv, ComposerTypes
  <2> QED BY <1>1, <1>2, <2>1 DEF ComposerIInv, FilesFollow, Managed, IsReading, StillOpen
<1> QED BY <1>3, <1>4, <1>5, <1>6 DEF ComposerIInv

LEMMA QuickReadyOK == ASSUME ComposerIInv, NEW x \in sends, QuickReady(x) PROVE ComposerIInv'
<1> DEFINE off == x.list # list \/ inChat # NewChat \/ Unreadable(x)
                    \/ (x.text = NoText /\ ReadFiles(x) = {})
<1>1. /\ x.stage = "native" /\ Settled(x)
      /\ UNCHANGED <<inChat, list, inTransit, opens, chatMade, written, taken>>
  BY DEF QuickReady
<1>2. /\ drafts \in [Everywhere -> Texts \cup {NoText}] /\ chips \in SUBSET Files
      /\ reads \in [Files -> {"none", "reading", "read", "failed", "released"}]
      /\ \A f \in chips : reads[f] \in {"reading", "read", "failed"}
  BY DEF ComposerIInv, ComposerTypes, FilesFollow
<1>3. CASE off
  <2>1. sends' = sends \ {x} /\ UNCHANGED <<box, drafts, chips, reads, cancelled>>
    BY <1>3 DEF QuickReady
  <2> QED BY <1>1, <1>2, <2>1, SendGone DEF Carries
<1>4. CASE ~off
  <2> DEFINE y == [x EXCEPT !.stage = "creating", !.files = ReadFiles(x)]
  <2>1. /\ x.list = list /\ inChat = NewChat /\ ~Unreadable(x)
        /\ sends' = (sends \ {x}) \cup {y}
        /\ cancelled' = cancelled \cup (({box} \ {x.text}) \ {NoText})
        /\ box' = NoText /\ chips' = chips \ x.files
        /\ reads' = [f \in Files |-> IF f \in x.files THEN "released" ELSE reads[f]]
        /\ drafts' = [drafts EXCEPT ![NewChat] = NoText]
    BY <1>4 DEF QuickReady, Resend, Released, GivenUp
  <2>2. /\ y \in ComposerSends /\ y.text = x.text /\ y.chat = x.chat /\ y.stage = "creating"
        /\ y.list = x.list /\ y.opens = x.opens /\ y.asked \ taken \subseteq y.files
    BY <1>1, <2>1, SendGoesOn
  <2> HIDE DEF y
  <2>3. /\ drafts' \in [Everywhere -> Texts \cup {NoText}] /\ drafts'[inChat] = NoText
        /\ \A d \in Everywhere \ {inChat} : drafts'[d] = drafts[d]
    BY <1>2, <2>1, ChatsApart
  <2>4. \A z \in sends' : z = y \/ (z \in sends /\ z # x)
    BY <2>1
  <2>5. reads' \in [Files -> {"none", "reading", "read", "failed", "released"}]
        /\ \A f \in chips' : reads'[f] \in {"reading", "read", "failed"}
    BY <1>2, <2>1
  <2>6. x.text \in {NoText, box}
    BY <1>1, <2>1 DEF ComposerIInv, FilesFollow
  <2>7. ComposerTypes' /\ TextsBelong'
    <3>1. ComposerTypes'
      BY <1>1, <2>1, <2>2, <2>3, <2>5 DEF ComposerIInv, ComposerTypes
    <3>2. \A d \in Everywhere : TextBelongs(drafts'[d], d)
      BY <2>3 DEF ComposerIInv, TextsBelong, TextBelongs
    <3>3. \A z \in sends' : TextBelongs(z.text, z.chat)
      BY <2>2, <2>4 DEF ComposerIInv, TextsBelong
    <3> QED BY <1>1, <2>1, <3>1, <3>2, <3>3 DEF ComposerIInv, TextsBelong, TextBelongs
  <2>8. TextsOnce'
    BY <1>1, <2>1, <2>2, <2>3, <2>4, <2>6 DEF ComposerIInv, TextsOnce, Aside, Carries
  <2>9. TextsHeld'
    <3>1. ASSUME NEW t \in Texts, IsHeld(t) PROVE IsHeld(t)'
      <4>1. CASE t = box
        BY <2>1, <2>2, <4>1, ChatsApart DEF IsHeld, Carries
      <4>2. CASE t # box
        BY <1>1, <2>1, <2>3, <4>2, <3>1 DEF IsHeld, Carries, Aside
      <4> QED BY <4>1, <4>2
    <3>2. \A z \in sends' : z.stage = "taken" => z \in sends
      BY <2>2, <2>4
    <3> QED BY <1>1, <3>1, <3>2 DEF ComposerIInv, TextsHeld
  <2>10. FilesFollow'
    <3>1. \A z \in sends' : IsReading(z) => z \in sends /\ z.list # list
      <4> SUFFICES ASSUME NEW z \in sends', IsReading(z), z.list = list PROVE FALSE
        BY <2>2, <2>4 DEF IsReading
      <4>1. z \in sends /\ z # x /\ z.chat = NewChat
        BY <2>1, <2>2, <2>4 DEF ComposerIInv, FilesFollow, IsReading
      <4>2. z.stage = "native"
        BY <4>1 DEF ComposerIInv, FilesFollow, IsReading, Managed
      <4> QED BY <1>1, <2>1, <4>1, <4>2 DEF ComposerIInv, FilesFollow
    <3>2. /\ ~IsReading(y) /\ ~Managed(y) /\ y.chat = NewChat /\ y.list <= list /\ y.opens <= opens
      BY <1>1, <2>2 DEF ComposerIInv, FilesFollow, IsReading, Managed
    <3>3. \A z \in sends' :
            /\ z.list <= list /\ z.opens <= opens
            /\ IsReading(z) => z.files = z.asked /\ z.list # list
            /\ ~IsReading(z) => z.asked \ taken \subseteq z.files
            /\ z.stage \in {"native", "creating"} => z.chat = NewChat
            /\ Managed(z) => z.chat # NewChat /\ z \in sends
      BY <2>2, <2>4, <3>1, <3>2 DEF ComposerIInv, FilesFollow
    <3>4. \A z \in sends' : z.stage = "native" => IsReading(z)
      BY DEF IsReading
    <3> QED BY <1>1, <2>5, <3>3, <3>4 DEF ComposerIInv, FilesFollow, IsReading, Managed, StillOpen
  <2> QED BY <2>7, <2>8, <2>9, <2>10 DEF ComposerIInv
<1> QED BY <1>3, <1>4

LEMMA QuickTakenOK == ASSUME ComposerIInv, NEW x \in sends, QuickTaken(x) PROVE ComposerIInv'
<1> DEFINE m == [text |-> x.text, chat |-> x.chat, files |-> x.files, asked |-> x.asked \ taken]
<1>1. /\ x.stage = "sending" /\ inTransit' = inTransit \cup {m} /\ sends' = sends \ {x}
      /\ UNCHANGED <<inChat, box, drafts, chips, list, reads, opens, chatMade, written, taken,
                     cancelled>>
  BY DEF QuickTaken, Posted
<1>2. /\ m \in ComposerPosts /\ m.text = x.text /\ m.chat = x.chat /\ m.files = x.files
      /\ m.asked = x.asked \ taken
  BY PostIsOne DEF ComposerIInv, ComposerTypes
<1> HIDE DEF m
<1>3. ComposerTypes' /\ TextsBelong'
  BY <1>1, <1>2 DEF ComposerIInv, ComposerTypes, TextsBelong, TextBelongs
<1>4. TextsOnce'
  BY <1>1, <1>2 DEF ComposerIInv, TextsOnce, Aside, Carries
<1>5. TextsHeld'
  BY <1>1, <1>2 DEF ComposerIInv, TextsHeld, IsHeld, Aside, Carries
<1>6. FilesFollow'
  BY <1>1, <1>2 DEF ComposerIInv, FilesFollow, Managed, IsReading, StillOpen
<1> QED BY <1>3, <1>4, <1>5, <1>6 DEF ComposerIInv

LEMMA QuickFailsOK == ASSUME ComposerIInv, NEW x \in sends, QuickFails(x) PROVE ComposerIInv'
<1>1. /\ x.stage \in {"creating", "sending"} /\ sends' = sends \ {x}
      /\ UNCHANGED <<inChat, list, inTransit, opens, chatMade, written, taken>>
  BY DEF QuickFails
<1>2. /\ drafts \in [Everywhere -> Texts \cup {NoText}] /\ chips \in SUBSET Files
      /\ reads \in [Files -> {"none", "reading", "read", "failed", "released"}]
      /\ \A f \in chips : reads[f] \in {"reading", "read", "failed"}
      /\ x.files \in SUBSET Files /\ x.text \in Texts \cup {NoText} /\ inChat \in Everywhere
      /\ box \in Texts \cup {NoText}
  BY DEF ComposerIInv, ComposerTypes, ComposerSends, FilesFollow
<1>3. CASE x.chat # inChat
  <2>1. /\ cancelled' = cancelled \cup ({x.text} \ {NoText})
        /\ UNCHANGED <<box, chips, reads, drafts>>
    BY <1>3 DEF QuickFails, GivenUp
  <2> QED BY <1>1, <1>2, <2>1, SendGone DEF Carries
<1>4. CASE x.chat = inChat
  <2>1. /\ box' = IF box = NoText THEN x.text ELSE box
        /\ cancelled' = cancelled \cup ((IF box = NoText THEN {} ELSE {x.text}) \ {NoText})
        /\ chips' = chips \cup x.files
        /\ reads' = [f \in Files |-> IF f \in x.files THEN "read" ELSE reads[f]]
        /\ drafts' = [drafts EXCEPT ![inChat] = box']
    BY <1>4 DEF QuickFails, GivenUp
  <2>2. box' \in Texts \cup {NoText}
    BY <1>2, <2>1
  <2>3. /\ drafts' \in [Everywhere -> Texts \cup {NoText}] /\ drafts'[inChat] = box'
        /\ \A d \in Aside : drafts'[d] = drafts[d]
    BY <1>2, <2>1, <2>2 DEF Aside
  <2>4. /\ chips' \in SUBSET Files /\ chips \subseteq chips'
        /\ reads' \in [Files -> {"none", "reading", "read", "failed", "released"}]
        /\ \A f \in chips' : reads'[f] \in {"reading", "read", "failed"}
    BY <1>2, <2>1
  <2>5. /\ \/ box' \in {box, NoText}
           \/ box' = x.text /\ x.chat = inChat /\ Carries(x) /\ x.stage # "taken"
        /\ box \in {NoText, box'} \cup cancelled'
        /\ Carries(x) => x.text \in {box'} \cup cancelled'
        /\ box' # box => box = NoText
        /\ cancelled \subseteq cancelled'
    <3>1. CASE box = NoText
      BY <1>1, <1>4, <2>1, <3>1 DEF Carries
    <3>2. CASE box # NoText
      BY <1>2, <2>1, <3>2 DEF Carries
    <3> QED BY <3>1, <3>2
  <2>6. \A y \in sends' : IsReading(y) /\ y.list = list /\ y.asked \ taken \subseteq chips
                             => y.asked \ taken \subseteq chips'
    BY <2>4
  <2> QED BY <1>1, <2>3, <2>4, <2>5, <2>6, SendGone
<1> QED BY <1>3, <1>4

-----------------------------------------------------------------------------
LEMMA ComposerStepOK == ASSUME ComposerIInv, [ComposerNext]_composerVars PROVE ComposerIInv'
<1>1. CASE ComposerUser
  <2>1. ASSUME NEW f \in Files,
               AddFile(f) \/ RemoveFile(f) \/ \E how \in {"read", "failed"} : FileRead(f, how)
        PROVE  ComposerIInv'
    BY <2>1, FileStepsOK
  <2> QED BY <1>1, <2>1, WriteOK, DraftSavedOK, SubmitOK, QuickSubmitOK, OpenChatOK DEF ComposerUser
<1>2. ASSUME NEW x \in sends, ComposerSend(x) PROVE ComposerIInv'
  BY <1>2, ServerTakesOK, SendDoneOK, SubmitFailsOK, QuickCreatedOK, QuickTakenOK, QuickFailsOK
  DEF ComposerSend
<1>3. CASE \E x \in sends : SubmitReady(x) \/ QuickReady(x)
  BY <1>3, SubmitReadyOK, QuickReadyOK
<1>4. CASE UNCHANGED composerVars
  BY <1>4 DEF composerVars, ComposerIInv, ComposerTypes, TextsBelong, TextBelongs, TextsOnce, Aside,
     Carries, TextsHeld, IsHeld, FilesFollow, Managed, IsReading, StillOpen
<1> QED BY <1>1, <1>2, <1>3, <1>4 DEF ComposerNext

LEMMA SendsAreWhole == ComposerIInv => SendIsWhole
<1> SUFFICES ASSUME ComposerIInv PROVE SendIsWhole
  OBVIOUS
<1>1. \A m \in inTransit :
        /\ m.asked \subseteq m.files
        /\ m.text # NoText =>
             /\ written[m.text] = m.chat \/ (written[m.text] = NewChat /\ m.chat = MadeChat)
             /\ \A n \in inTransit : n.text = m.text => n = m
  BY DEF ComposerIInv, FilesFollow, TextsBelong, TextBelongs, TextsOnce
<1>2. ASSUME NEW t \in Texts, written[t] # "nowhere"
      PROVE  \/ t = box \/ t \in cancelled
             \/ \E c \in Everywhere : drafts[c] = t
             \/ \E x \in sends : x.text = t
             \/ \E m \in inTransit : m.text = t
  BY <1>2 DEF ComposerIInv, TextsHeld, IsHeld, Aside
<1> QED BY <1>1, <1>2 DEF SendIsWhole

\* A prompt goes to the chat it was written in, once, with every file that the
\* user did not take out, and no text is lost but by a change of chats or by the
\* text of another send that comes back (interceptSubmit, sendMessage).
THEOREM PromptsAreWhole == ComposerSpec => []SendIsWhole
<1>1. ComposerIInv /\ [ComposerNext]_composerVars => ComposerIInv'
  BY ComposerStepOK
<1> QED BY <1>1, ComposerInitOK, SendsAreWhole, PTL DEF ComposerSpec

-----------------------------------------------------------------------------
(* The permission banner.  What is shown was asked for here and not answered *)
(* yet; a request that has ended is not shown, unless a read to come takes  *)
(* it off; and an answered one is suppressed until nothing brings it back.  *)

BannerPlaces == BannerChats \cup {NoBannerChat}
BannerRecs == [ask : PermAsks \cup {NoAsk}, chat : BannerPlaces, shown : BOOLEAN]
ClearedRecs == [ask : PermAsks \cup {NoAsk}, chat : BannerPlaces]
BannerReadRecs == [stage : {"none", "asked", "served"}, chat : BannerPlaces, rows : SUBSET PermAsks]
RiskRecs == [stage : {"none", "evaluating", "answered"}, chat : BannerPlaces,
             ask : PermAsks \cup {NoAsk}]
BannerTypes ==
  /\ bannerChat \in BannerPlaces /\ kidsOf \in BannerPlaces
  /\ hashDue \in BOOLEAN /\ refreshAgain \in BOOLEAN /\ readMissed \in BOOLEAN
  /\ asks \in [PermAsks -> {"absent", "pending", "settled"}]
  /\ askedEvents \in SUBSET PermAsks /\ replied \in SUBSET PermAsks
  /\ permission \in BannerRecs /\ bannerRead \in BannerReadRecs /\ risk \in RiskRecs
  /\ clicks \in [PermAsks -> Nat]
BannerPlaced ==
  /\ permission.shown =>
       /\ permission.ask \in PermAsks /\ permission.ask \notin suppressed
       /\ permission.ask \notin AskKids => permission.chat = AskChat[permission.ask]
       /\ asks[permission.ask] # "absent"
       /\ hashDue \/ (permission.chat = bannerChat /\ InCurrentFamily(permission.ask))
  /\ hashDue \/ kidsOf \in {NoBannerChat, bannerChat}
  /\ risk.stage # "none" => risk.ask \in PermAsks \ AskKids /\ AskChat[risk.ask] = risk.chat
BannerTold ==
  /\ bannerRead.stage = "none" => bannerRead = NoBannerRead
  /\ refreshAgain => bannerRead.stage # "none"
  /\ \A r \in bannerRead.rows \cup askedEvents : asks[r] # "absent"
  /\ \A r \in replied : asks[r] = "settled"
  /\ \A r \in endTold : /\ r \in PermAsks /\ asks[r] = "settled" /\ r \notin askedEvents
                        /\ r \in bannerRead.rows => refreshAgain
  /\ permission.shown /\ permission.ask \in endTold =>
       \/ hashDue \/ readMissed \/ refreshAgain
       \/ bannerRead.stage # "none" /\ bannerRead.chat = bannerChat
BannerOnce ==
  \A r \in PermAsks : clicks[r] # 0 =>
    /\ asks[r] # "absent"
    /\ \/ r \in shownAgain
       \/ clicks[r] = 1 /\ r \in suppressed
       \/ /\ clicks[r] = 1 /\ r \notin bannerRead.rows \cup askedEvents /\ asks[r] = "settled"
          /\ ~(permission.shown /\ permission.ask = r)
BannerIInv == BannerTypes /\ BannerPlaced /\ BannerTold /\ BannerOnce

LEMMA NoBannerIsOne ==
  /\ NoPermission \in BannerRecs /\ ~NoPermission.shown
  /\ NoBannerRead \in BannerReadRecs /\ NoBannerRead.stage = "none" /\ NoBannerRead.rows = {}
  /\ NoRisk \in RiskRecs /\ NoRisk.stage = "none"
BY DEF NoPermission, BannerRecs, NoBannerRead, BannerReadRecs, NoRisk, RiskRecs, BannerPlaces

LEMMA BannerInitOK == BannerInit => BannerIInv
<1> SUFFICES ASSUME BannerInit PROVE BannerIInv
  OBVIOUS
<1>1. BannerTypes
  BY NoBannerIsOne DEF BannerInit, BannerTypes, BannerPlaces
<1>2. BannerPlaced
  BY NoBannerIsOne DEF BannerInit, BannerPlaced
<1>3. BannerTold
  BY NoBannerIsOne DEF BannerInit, BannerTold
<1>4. BannerOnce
  BY DEF BannerInit, BannerOnce
<1> QED BY <1>1, <1>2, <1>3, <1>4 DEF BannerIInv

\* A read that starts for the open chat.
LEMMA AskedIsOne ==
  ASSUME BannerTypes
  PROVE  LET justAsked == [stage |-> "asked", chat |-> bannerChat, rows |-> {}]
         IN  /\ justAsked \in BannerReadRecs /\ justAsked.stage = "asked" /\ justAsked.chat = bannerChat
             /\ justAsked.rows = {}
BY DEF BannerTypes, BannerReadRecs

\* What refreshPermission and the end of a read leave.
LEMMA RefreshOK ==
  ASSUME BannerIInv, RefreshPermission
  PROVE  /\ readMissed' = readMissed /\ bannerRead' \in BannerReadRecs /\ refreshAgain' \in BOOLEAN
         /\ permission' \in {permission, NoPermission}
         /\ \/ bannerRead'.stage # "none" /\ (bannerRead.stage # "none" => refreshAgain')
               /\ (bannerRead.stage = "none" => bannerRead'.chat = bannerChat)
            \/ permission' = NoPermission
         /\ bannerRead.stage # "none" => bannerRead' = bannerRead
         /\ bannerRead'.rows \subseteq bannerRead.rows
         /\ bannerRead'.stage = "none" => bannerRead' = NoBannerRead
         /\ refreshAgain' => bannerRead'.stage # "none"
         /\ \A r \in bannerRead'.rows : refreshAgain'
<1>1. CASE bannerRead.stage # "none"
  <2>2. refreshAgain' = RefreshLater /\ UNCHANGED <<readMissed, bannerRead, permission>>
    BY <1>1 DEF RefreshPermission
  <2>1. refreshAgain' = TRUE /\ UNCHANGED <<readMissed, bannerRead, permission>>
    BY <2>2, Zenon DEF RefreshLater
  <2> QED BY <1>1, <2>1 DEF BannerIInv, BannerTypes, BannerTold
<1>2. CASE bannerRead.stage = "none" /\ bannerChat = NoBannerChat
  <2>1. permission' = NoPermission /\ UNCHANGED <<readMissed, bannerRead, refreshAgain>>
    BY <1>2 DEF RefreshPermission, ClearBanner
  <2> QED BY <1>2, <2>1, NoBannerIsOne DEF BannerIInv, BannerTypes, BannerTold
<1>3. CASE bannerRead.stage = "none" /\ bannerChat # NoBannerChat
  <2>1. /\ bannerRead' = [stage |-> "asked", chat |-> bannerChat, rows |-> {}]
        /\ UNCHANGED <<readMissed, permission, refreshAgain>>
    BY <1>3 DEF RefreshPermission
  <2> QED BY <1>3, <2>1, AskedIsOne DEF BannerIInv, BannerTypes, BannerTold
<1> QED BY <1>1, <1>2, <1>3

LEMMA ReadEndsOK ==
  ASSUME BannerIInv, ReadEnds
  PROVE  /\ refreshAgain' = FALSE /\ bannerRead' \in BannerReadRecs /\ bannerRead'.rows = {}
         /\ bannerRead'.stage = "none" => bannerRead' = NoBannerRead
         /\ refreshAgain /\ bannerChat # NoBannerChat =>
              bannerRead'.stage # "none" /\ bannerRead'.chat = bannerChat
<1>1. CASE refreshAgain /\ bannerChat # NoBannerChat
  <2>1. /\ refreshAgain' = FALSE
        /\ bannerRead' = [stage |-> "asked", chat |-> bannerChat, rows |-> {}]
    BY <1>1 DEF ReadEnds
  <2> QED BY <2>1, AskedIsOne DEF BannerIInv
<1>2. CASE ~(refreshAgain /\ bannerChat # NoBannerChat)
  <2>1. refreshAgain' = FALSE /\ bannerRead' = NoBannerRead
    BY <1>2 DEF ReadEnds
  <2> QED BY <1>2, <2>1, NoBannerIsOne
<1> QED BY <1>1, <1>2

LEMMA ShowOK ==
  ASSUME BannerTypes, NEW r \in PermAsks, ShowPermission(r)
  PROVE  \/ permission' = NoPermission
         \/ MayShow(r) /\ JustCleared(r) /\ permission' = permission
         \/ /\ MayShow(r) /\ permission' \in BannerRecs /\ permission'.shown
            /\ permission'.ask = r /\ permission'.chat = bannerChat /\ ~JustCleared(r)
<1>1. CASE ~MayShow(r)
  BY <1>1 DEF ShowPermission, ClearBanner
<1>2. CASE MayShow(r) /\ JustCleared(r)
  BY <1>2 DEF ShowPermission
<1>3. CASE MayShow(r) /\ ~JustCleared(r)
  <2>1. permission' = [ask |-> r, chat |-> bannerChat, shown |-> TRUE]
    BY <1>3 DEF ShowPermission
  <2> QED BY <1>3, <2>1 DEF BannerRecs, BannerTypes
<1> QED BY <1>1, <1>2, <1>3

-----------------------------------------------------------------------------
\* A step that shows nothing new.
LEMMA NoBannerShown ==
  ASSUME BannerIInv, BannerTypes',
         permission' \in {permission, NoPermission} \/ ~permission'.shown,
         UNCHANGED <<bannerPlace, asks, askedEvents, suppressed, clicks>>,
         replied' \subseteq replied, shownAgain \subseteq shownAgain',
         risk'.stage # "none" => risk'.ask \in PermAsks \ AskKids /\ AskChat[risk'.ask] = risk'.chat,
         bannerRead'.rows \subseteq bannerRead.rows,
         bannerRead'.stage = "none" => bannerRead' = NoBannerRead,
         refreshAgain' => bannerRead'.stage # "none",
         endTold \subseteq endTold',
         \A r \in endTold' : r \in PermAsks /\ asks[r] = "settled" /\ r \notin askedEvents
                               /\ (r \in bannerRead'.rows => refreshAgain'),
         permission'.shown /\ permission'.ask \in endTold' =>
           \/ hashDue \/ readMissed' \/ refreshAgain'
           \/ bannerRead'.stage # "none" /\ bannerRead'.chat = bannerChat
  PROVE  BannerIInv'
<1>1. BannerPlaced'
  BY NoBannerIsOne DEF BannerIInv, BannerPlaced, InCurrentFamily, bannerPlace
<1>2. BannerTold'
  BY DEF BannerIInv, BannerTold, bannerPlace
<1>3. BannerOnce'
  BY NoBannerIsOne DEF BannerIInv, BannerOnce
<1> QED BY <1>1, <1>2, <1>3 DEF BannerIInv

LEMMA RefreshStepOK ==
  ASSUME BannerIInv, RefreshPermission,
         UNCHANGED <<bannerPlace, asks, askedEvents, suppressed, clicks, risk>>,
         replied' \subseteq replied, shownAgain \subseteq shownAgain', endTold \subseteq endTold',
         \A r \in endTold' : r \in PermAsks /\ asks[r] = "settled" /\ r \notin askedEvents
  PROVE  BannerIInv'
<1>1. BannerTypes'
  BY RefreshOK, NoBannerIsOne DEF BannerIInv, BannerTypes, bannerPlace
<1>2. permission'.shown /\ permission'.ask \in endTold' =>
           \/ hashDue \/ readMissed' \/ refreshAgain'
           \/ bannerRead'.stage # "none" /\ bannerRead'.chat = bannerChat
  BY RefreshOK, NoBannerIsOne
<1>3. risk.stage # "none" => risk.ask \in PermAsks \ AskKids /\ AskChat[risk.ask] = risk.chat
  BY DEF BannerIInv, BannerPlaced
<1> QED BY <1>1, <1>2, <1>3, RefreshOK, NoBannerShown

LEMMA PollOK == ASSUME BannerIInv, Poll PROVE BannerIInv'
<1>1. \A r \in endTold : r \in PermAsks /\ asks[r] = "settled" /\ r \notin askedEvents
  BY DEF BannerIInv, BannerTold
<1> QED BY <1>1, RefreshStepOK DEF Poll, bannerPlace, serverAsks, userReplies

LEMMA HearRepliedOK == ASSUME BannerIInv, NEW r \in PermAsks, HearReplied(r) PROVE BannerIInv'
<1>1. \A q \in endTold : q \in PermAsks /\ asks[q] = "settled" /\ q \notin askedEvents
  BY DEF BannerIInv, BannerTold
<1>2. /\ r \in replied \ askedEvents /\ replied' = replied \ {r} /\ endTold' = endTold \cup {r}
      /\ RefreshPermission
      /\ UNCHANGED <<bannerPlace, asks, askedEvents, suppressed, userReplies, risk>>
  BY DEF HearReplied
<1>3. asks[r] = "settled"
  BY <1>2 DEF BannerIInv, BannerTold
<1> QED BY <1>1, <1>2, <1>3, RefreshStepOK DEF bannerPlace, userReplies

LEMMA BannerReadServedOK == ASSUME BannerIInv, BannerReadServed PROVE BannerIInv'
<1> DEFINE next == [bannerRead EXCEPT !.stage = "served", !.rows = Pending]
<1>1. /\ bannerRead.stage = "asked" /\ bannerRead' = next
      /\ UNCHANGED <<bannerPlace, serverAsks, permission, suppressed, refreshAgain, readMissed,
                     userReplies, risk>>
  BY DEF BannerReadServed
<1>2. bannerRead \in BannerReadRecs /\ Pending \in SUBSET PermAsks
  BY DEF BannerIInv, BannerTypes, Pending
<1>3. next \in BannerReadRecs /\ next.stage = "served" /\ next.chat = bannerRead.chat
      /\ next.rows = Pending
  BY <1>2 DEF BannerReadRecs
<1> HIDE DEF next
<1>4. \A r \in Pending : asks[r] = "pending"
  BY DEF Pending
<1>5. BannerTypes'
  BY <1>1, <1>3 DEF BannerIInv, BannerTypes, bannerPlace, serverAsks, userReplies
<1>6. BannerPlaced'
  BY <1>1 DEF BannerIInv, BannerPlaced, InCurrentFamily, bannerPlace, serverAsks
<1>7. BannerTold'
  BY <1>1, <1>3, <1>4 DEF BannerIInv, BannerTold, bannerPlace, serverAsks
<1>8. BannerOnce'
  BY <1>1, <1>3, <1>4 DEF BannerIInv, BannerOnce, serverAsks, userReplies
<1> QED BY <1>5, <1>6, <1>7, <1>8 DEF BannerIInv

\* The end of a read that shows nothing.
LEMMA ReadGone ==
  ASSUME BannerIInv, ReadEnds, readMissed' \in BOOLEAN,
         \/ permission' = NoPermission
         \/ permission' = permission /\ ~(refreshAgain /\ bannerChat = NoBannerChat)
            /\ (readMissed' \/ (readMissed' = readMissed /\ bannerRead.chat # bannerChat)),
         UNCHANGED <<bannerPlace, serverAsks, suppressed, userReplies, risk>>
  PROVE  BannerIInv'
<1>1. BannerTypes'
  BY ReadEndsOK, NoBannerIsOne DEF BannerIInv, BannerTypes, bannerPlace, serverAsks, userReplies
<1>2. \A r \in endTold : r \in PermAsks /\ asks[r] = "settled" /\ r \notin askedEvents
  BY DEF BannerIInv, BannerTold
<1>3. risk.stage # "none" => risk.ask \in PermAsks \ AskKids /\ AskChat[risk.ask] = risk.chat
  BY DEF BannerIInv, BannerPlaced
<1>4. ASSUME permission'.shown, permission'.ask \in endTold
      PROVE  \/ hashDue \/ readMissed' \/ refreshAgain'
             \/ bannerRead'.stage # "none" /\ bannerRead'.chat = bannerChat
  <2>1. permission' = permission /\ ~(refreshAgain /\ bannerChat = NoBannerChat)
    BY <1>4, NoBannerIsOne
  <2>2. \/ hashDue \/ readMissed \/ refreshAgain
        \/ bannerRead.stage # "none" /\ bannerRead.chat = bannerChat
    BY <1>4, <2>1 DEF BannerIInv, BannerTold
  <2> QED BY <1>4, <2>1, <2>2, ReadEndsOK, NoBannerIsOne
<1>5. bannerRead'.rows = {} /\ (bannerRead'.stage = "none" => bannerRead' = NoBannerRead)
      /\ refreshAgain' = FALSE
  BY ReadEndsOK
<1> QED BY <1>1, <1>2, <1>3, <1>4, <1>5, NoBannerShown
    DEF bannerPlace, serverAsks, userReplies

\* A request is shown that nobody answered.
LEMMA NewIsShown ==
  ASSUME BannerIInv, BannerTypes', NEW r \in PermAsks, MayShow(r),
         permission' \in BannerRecs, permission'.shown, permission'.ask = r,
         permission'.chat = bannerChat, r \in bannerRead.rows \cup askedEvents,
         UNCHANGED <<bannerPlace, asks, replied, endTold, suppressed, userReplies, risk>>,
         askedEvents' \subseteq askedEvents, bannerRead'.rows \subseteq bannerRead.rows,
         bannerRead'.stage = "none" => bannerRead' = NoBannerRead,
         refreshAgain' => bannerRead'.stage # "none",
         \A q \in endTold : q \in bannerRead'.rows => refreshAgain',
         r \in endTold => bannerRead'.stage # "none" /\ bannerRead'.chat = bannerChat
  PROVE  BannerIInv'
<1>1. InCurrentFamily(r) /\ r \notin suppressed
  BY DEF MayShow
<1>2. asks[r] # "absent"
  BY DEF BannerIInv, BannerTold
<1>3. InCurrentFamily(r)'
  BY <1>1 DEF InCurrentFamily, bannerPlace
<1>4. BannerPlaced'
  BY <1>1, <1>2, <1>3 DEF BannerIInv, BannerPlaced, InCurrentFamily, bannerPlace
<1>5. BannerTold'
  BY DEF BannerIInv, BannerTold, bannerPlace
<1>6. BannerOnce'
  BY <1>1 DEF BannerIInv, BannerOnce, userReplies
<1> QED BY <1>4, <1>5, <1>6 DEF BannerIInv

LEMMA ReadArrivesOK == ASSUME BannerIInv, ReadArrives PROVE BannerIInv'
<1> DEFINE fitting == {r \in bannerRead.rows : MayShow(r)}
<1>1. ReadEnds /\ UNCHANGED <<bannerPlace, serverAsks, suppressed, userReplies, risk>>
  BY DEF ReadArrives
<1>2. CASE /\ bannerRead.chat # bannerChat
           /\ IF refreshAgain /\ bannerChat = NoBannerChat THEN ClearBanner
              ELSE UNCHANGED <<permission, lastCleared>>
           /\ UNCHANGED readMissed
  <2>1. CASE refreshAgain /\ bannerChat = NoBannerChat
    BY <1>1, <1>2, <2>1, ReadGone DEF ClearBanner, BannerIInv, BannerTypes
  <2>2. CASE ~(refreshAgain /\ bannerChat = NoBannerChat)
    BY <1>1, <1>2, <2>2, ReadGone DEF BannerIInv, BannerTypes
  <2> QED BY <2>1, <2>2
<1>3. CASE bannerRead.chat = bannerChat /\ fitting = {} /\ ClearBanner /\ readMissed' = FALSE
  BY <1>1, <1>3, ReadGone DEF ClearBanner
<1>4. ASSUME bannerRead.chat = bannerChat, NEW r \in fitting, ShowPermission(r),
             readMissed' = JustCleared(r)
      PROVE  BannerIInv'
  <2>1. r \in PermAsks /\ r \in bannerRead.rows /\ MayShow(r) /\ bannerChat # NoBannerChat
    BY <1>4 DEF BannerIInv, BannerTypes, BannerReadRecs, MayShow, InCurrentFamily
  <2>2. readMissed' \in BOOLEAN
    BY <1>4 DEF JustCleared
  <2>3. CASE permission' = NoPermission
    BY <1>1, <2>2, <2>3, ReadGone
  <2>4. CASE JustCleared(r) /\ permission' = permission
    <3>1. readMissed'
      BY <1>4, <2>4
    <3> QED BY <1>1, <2>1, <2>2, <2>4, <3>1, ReadGone
  <2>5. CASE /\ permission' \in BannerRecs /\ permission'.shown
             /\ permission'.ask = r /\ permission'.chat = bannerChat
    <3>1. BannerTypes'
      BY <1>1, <2>2, <2>5, ReadEndsOK
      DEF BannerIInv, BannerTypes, bannerPlace, serverAsks, userReplies
    <3>2. r \in endTold => bannerRead'.stage # "none" /\ bannerRead'.chat = bannerChat
      BY <1>1, <2>1, ReadEndsOK DEF BannerIInv, BannerTold
    <3> QED BY <1>1, <2>1, <2>5, <3>1, <3>2, ReadEndsOK, NewIsShown DEF serverAsks
  <2> QED BY <1>4, <2>1, <2>3, <2>4, <2>5, ShowOK DEF BannerIInv
<1> QED BY <1>2, <1>3, <1>4 DEF ReadArrives

LEMMA BannerReadFailsOK == ASSUME BannerIInv, BannerReadFails PROVE BannerIInv'
<1>1. /\ ReadEnds /\ readMissed' = TRUE
      /\ UNCHANGED <<bannerPlace, serverAsks, suppressed, userReplies, risk>>
  BY DEF BannerReadFails
<1>2. CASE refreshAgain /\ bannerChat = NoBannerChat
  BY <1>1, <1>2, ReadGone DEF BannerReadFails, ClearBanner
<1>3. CASE ~(refreshAgain /\ bannerChat = NoBannerChat)
  BY <1>1, <1>3, ReadGone DEF BannerReadFails
<1> QED BY <1>2, <1>3

-----------------------------------------------------------------------------
\* A step that touches neither the banner nor its reads.
LEMMA BannerStays ==
  ASSUME BannerIInv,
         UNCHANGED <<bannerPlace, serverAsks, permission, suppressed, bannerReads, clicks>>,
         shownAgain \subseteq shownAgain', risk' \in RiskRecs,
         risk'.stage # "none" => risk'.ask \in PermAsks \ AskKids /\ AskChat[risk'.ask] = risk'.chat
  PROVE  BannerIInv'
<1>1. BannerTypes'
  BY DEF BannerIInv, BannerTypes, bannerPlace, serverAsks, bannerReads
<1>2. BannerPlaced'
  BY DEF BannerIInv, BannerPlaced, InCurrentFamily, bannerPlace, serverAsks
<1>3. BannerTold'
  BY DEF BannerIInv, BannerTold, bannerPlace, serverAsks, bannerReads
<1>4. BannerOnce'
  BY DEF BannerIInv, BannerOnce, serverAsks, bannerReads
<1> QED BY <1>1, <1>2, <1>3, <1>4 DEF BannerIInv

LEMMA QuietStepsOK ==
  ASSUME BannerIInv,
         \/ ClearedExpires \/ RiskDecided \/ EvaluateEnds
         \/ \E r \in PermAsks : ReplyArrives(r)
  PROVE  BannerIInv'
<1>1. /\ risk \in RiskRecs
      /\ risk.stage # "none" => risk.ask \in PermAsks \ AskKids /\ AskChat[risk.ask] = risk.chat
  BY DEF BannerIInv, BannerTypes, BannerPlaced
<1>2. CASE ClearedExpires \/ \E r \in PermAsks : ReplyArrives(r)
  BY <1>1, <1>2, BannerStays DEF ClearedExpires, ReplyArrives, userReplies
<1>3. CASE EvaluateEnds
  BY <1>1, <1>3, NoBannerIsOne, BannerStays DEF EvaluateEnds, userReplies
<1>4. CASE RiskDecided
  <2> DEFINE next == [stage |-> "evaluating", chat |-> bannerChat, ask |-> permission.ask]
  <2>1. /\ permission.ask \in Pending \ AskKids /\ AskChat[permission.ask] = bannerChat
        /\ risk' = next
        /\ UNCHANGED <<bannerPlace, serverAsks, permission, suppressed, bannerReads, userReplies>>
    BY <1>4 DEF RiskDecided
  <2>2. permission.ask \in PermAsks /\ bannerChat \in BannerPlaces
    BY <2>1 DEF Pending, BannerIInv, BannerTypes
  <2>3. next \in RiskRecs /\ next.ask = permission.ask /\ next.chat = bannerChat
    BY <2>2 DEF RiskRecs
  <2> HIDE DEF next
  <2> QED BY <2>1, <2>2, <2>3, BannerStays DEF userReplies
<1> QED BY <1>2, <1>3, <1>4

\* A request ends at the server.
LEMMA PermSettlesOK ==
  ASSUME BannerIInv, NEW r \in PermAsks, asks[r] = "pending", PermSettles(r),
         UNCHANGED <<bannerPlace, permission, suppressed, bannerReads, clicks, shownAgain>>,
         risk' \in RiskRecs,
         risk'.stage # "none" => risk'.ask \in PermAsks \ AskKids /\ AskChat[risk'.ask] = risk'.chat
  PROVE  BannerIInv'
<1>1. /\ asks' = [asks EXCEPT ![r] = "settled"] /\ replied' = replied \cup {r}
      /\ UNCHANGED <<askedEvents, endTold>>
  BY DEF PermSettles
<1>2. /\ asks' \in [PermAsks -> {"absent", "pending", "settled"}] /\ asks'[r] = "settled"
      /\ \A q \in PermAsks \ {r} : asks'[q] = asks[q]
  BY <1>1 DEF BannerIInv, BannerTypes
<1>3. BannerTypes'
  BY <1>1, <1>2 DEF BannerIInv, BannerTypes, bannerPlace, bannerReads
<1>4. BannerPlaced'
  BY <1>1, <1>2 DEF BannerIInv, BannerPlaced, InCurrentFamily, bannerPlace
<1>5. BannerTold'
  <2>1. bannerRead.rows \cup askedEvents \cup replied \subseteq PermAsks
    BY DEF BannerIInv, BannerTypes, BannerReadRecs
  <2> QED BY <1>1, <1>2, <2>1 DEF BannerIInv, BannerTold, bannerPlace, bannerReads
<1>6. BannerOnce'
  BY <1>1, <1>2 DEF BannerIInv, BannerOnce, bannerReads
<1> QED BY <1>3, <1>4, <1>5, <1>6 DEF BannerIInv

LEMMA EndsOK ==
  ASSUME BannerIInv,
         \/ EvaluateServed
         \/ \E r \in PermAsks : PermSettledElsewhere(r) \/ PermReplyTaken(r)
  PROVE  BannerIInv'
<1>1. /\ risk \in RiskRecs
      /\ risk.stage # "none" => risk.ask \in PermAsks \ AskKids /\ AskChat[risk.ask] = risk.chat
  BY DEF BannerIInv, BannerTypes, BannerPlaced
<1>2. ASSUME NEW r \in PermAsks, PermSettledElsewhere(r) \/ PermReplyTaken(r) PROVE BannerIInv'
  BY <1>1, <1>2, PermSettlesOK DEF PermSettledElsewhere, PermReplyTaken, userReplies
<1>3. CASE EvaluateServed
  <2> DEFINE next == [risk EXCEPT !.stage = "answered"]
  <2>1. /\ risk.stage = "evaluating" /\ risk.ask \in Pending /\ PermSettles(risk.ask)
        /\ risk' = next
        /\ UNCHANGED <<bannerPlace, permission, suppressed, bannerReads, userReplies>>
    BY <1>3 DEF EvaluateServed
  <2>2. risk.ask \in PermAsks /\ asks[risk.ask] = "pending"
    BY <2>1 DEF Pending
  <2>3. next \in RiskRecs /\ next.ask = risk.ask /\ next.chat = risk.chat
    BY <1>1 DEF RiskRecs
  <2> HIDE DEF next
  <2> QED BY <1>1, <2>1, <2>2, <2>3, PermSettlesOK DEF userReplies
<1> QED BY <1>2, <1>3

LEMMA AskArrivesOK == ASSUME BannerIInv, NEW r \in PermAsks, AskArrives(r) PROVE BannerIInv'
<1>1. /\ asks[r] = "absent" /\ asks' = [asks EXCEPT ![r] = "pending"]
      /\ askedEvents' = askedEvents \cup {r}
      /\ UNCHANGED <<bannerPlace, replied, endTold, permission, suppressed, bannerReads,
                     userReplies, risk>>
  BY DEF AskArrives
<1>2. /\ asks' \in [PermAsks -> {"absent", "pending", "settled"}] /\ asks'[r] = "pending"
      /\ \A q \in PermAsks \ {r} : asks'[q] = asks[q]
  BY <1>1 DEF BannerIInv, BannerTypes
<1>3. BannerTypes'
  BY <1>1, <1>2 DEF BannerIInv, BannerTypes, bannerPlace, bannerReads, userReplies
<1>4. BannerPlaced'
  BY <1>1, <1>2 DEF BannerIInv, BannerPlaced, InCurrentFamily, bannerPlace
<1>5. BannerTold'
  <2>1. bannerRead.rows \cup askedEvents \cup replied \subseteq PermAsks
    BY DEF BannerIInv, BannerTypes, BannerReadRecs
  <2> QED BY <1>1, <1>2, <2>1 DEF BannerIInv, BannerTold, bannerPlace, bannerReads
<1>6. BannerOnce'
  BY <1>1, <1>2 DEF BannerIInv, BannerOnce, bannerReads, userReplies
<1> QED BY <1>3, <1>4, <1>5, <1>6 DEF BannerIInv

LEMMA HearAskedOK == ASSUME BannerIInv, NEW r \in PermAsks, HearAsked(r) PROVE BannerIInv'
<1>1. /\ r \in askedEvents /\ askedEvents' = askedEvents \ {r}
      /\ UNCHANGED <<bannerPlace, asks, replied, endTold, suppressed, bannerReads, userReplies,
                     risk>>
  BY DEF HearAsked
<1>2. r \notin endTold
  BY <1>1 DEF BannerIInv, BannerTold
<1>3. permission' \in BannerRecs => BannerTypes'
  BY <1>1 DEF BannerIInv, BannerTypes, bannerPlace, bannerReads, userReplies
<1>4. CASE permission' \in {permission, NoPermission}
  <2>1. BannerTypes'
    BY <1>3, <1>4, NoBannerIsOne DEF BannerIInv, BannerTypes
  <2>2. BannerPlaced'
    BY <1>1, <1>4, NoBannerIsOne DEF BannerIInv, BannerPlaced, InCurrentFamily, bannerPlace
  <2>3. BannerTold'
    BY <1>1, <1>4, NoBannerIsOne DEF BannerIInv, BannerTold, bannerPlace, bannerReads
  <2>4. BannerOnce'
    BY <1>1, <1>4, NoBannerIsOne DEF BannerIInv, BannerOnce, bannerReads, userReplies
  <2> QED BY <2>1, <2>2, <2>3, <2>4 DEF BannerIInv
<1>5. CASE /\ MayShow(r) /\ permission' \in BannerRecs /\ permission'.shown
           /\ permission'.ask = r /\ permission'.chat = bannerChat
  <2>1. /\ bannerRead.stage = "none" => bannerRead = NoBannerRead
        /\ refreshAgain => bannerRead.stage # "none"
        /\ \A q \in endTold : q \in bannerRead.rows => refreshAgain
    BY DEF BannerIInv, BannerTold
  <2> QED BY <1>1, <1>2, <1>3, <1>5, <2>1, NewIsShown DEF bannerReads
<1>6. CASE InCurrentFamily(r) /\ ShowPermission(r)
  BY <1>4, <1>5, <1>6, ShowOK DEF BannerIInv
<1>7. CASE ~InCurrentFamily(r)
  BY <1>4, <1>7 DEF HearAsked
<1> QED BY <1>6, <1>7 DEF HearAsked

LEMMA SuppressionEndsOK ==
  ASSUME BannerIInv, NEW r \in PermAsks, SuppressionEnds(r) PROVE BannerIInv'
<1>1. /\ r \in suppressed /\ suppressed' = suppressed \ {r}
      /\ shownAgain' = IF r \in bannerRead.rows \cup askedEvents \/ asks[r] = "pending"
                       THEN shownAgain \cup {r} ELSE shownAgain
      /\ UNCHANGED <<bannerPlace, serverAsks, permission, bannerReads, permReply, clicks, risk>>
  BY DEF SuppressionEnds
<1>2. BannerTypes'
  BY <1>1 DEF BannerIInv, BannerTypes, bannerPlace, serverAsks, bannerReads
<1>3. BannerPlaced'
  BY <1>1 DEF BannerIInv, BannerPlaced, InCurrentFamily, bannerPlace, serverAsks
<1>4. BannerTold'
  BY <1>1 DEF BannerIInv, BannerTold, bannerPlace, serverAsks, bannerReads
<1>5. BannerOnce'
  <2>1. ~(permission.shown /\ permission.ask = r)
    BY <1>1 DEF BannerIInv, BannerPlaced
  <2>2. asks[r] \in {"absent", "pending", "settled"}
    BY DEF BannerIInv, BannerTypes
  <2>3. ASSUME NEW q \in PermAsks, clicks[q] # 0
        PROVE  /\ asks[q] # "absent"
               /\ \/ q \in shownAgain'
                  \/ clicks[q] = 1 /\ q \in suppressed'
                  \/ /\ clicks[q] = 1 /\ q \notin bannerRead.rows \cup askedEvents
                     /\ asks[q] = "settled" /\ ~(permission.shown /\ permission.ask = q)
    <3>1. CASE q # r
      BY <1>1, <2>3, <3>1 DEF BannerIInv, BannerOnce
    <3>2. CASE q = r
      BY <1>1, <2>1, <2>2, <2>3, <3>2 DEF BannerIInv, BannerOnce
    <3> QED BY <3>1, <3>2
  <2> QED BY <1>1, <2>3 DEF BannerOnce, serverAsks, bannerReads
<1> QED BY <1>2, <1>3, <1>4, <1>5 DEF BannerIInv

LEMMA AnswerOK == ASSUME BannerIInv, NEW r \in PermAsks, Answer(r) PROVE BannerIInv'
<1>1. /\ permission.shown /\ permission.ask = r /\ suppressed' = suppressed \cup {r}
      /\ permission' = NoPermission /\ clicks' = [clicks EXCEPT ![r] = @ + 1]
      /\ UNCHANGED <<bannerPlace, serverAsks, bannerReads, shownAgain, risk>>
  BY DEF Answer, ClearBanner
<1>2. /\ clicks' \in [PermAsks -> Nat] /\ clicks'[r] = clicks[r] + 1 /\ clicks[r] \in Nat
      /\ \A q \in PermAsks \ {r} : clicks'[q] = clicks[q]
  BY <1>1 DEF BannerIInv, BannerTypes
<1>3. BannerTypes'
  BY <1>1, <1>2, NoBannerIsOne DEF BannerIInv, BannerTypes, bannerPlace, serverAsks, bannerReads
<1>4. BannerPlaced'
  BY <1>1, NoBannerIsOne DEF BannerIInv, BannerPlaced, bannerPlace
<1>5. BannerTold'
  BY <1>1, NoBannerIsOne DEF BannerIInv, BannerTold, serverAsks, bannerReads
<1>6. BannerOnce'
  <2>1. asks[r] # "absent" /\ r \notin suppressed
    BY <1>1 DEF BannerIInv, BannerPlaced
  <2>2. clicks[r] = 0 \/ r \in shownAgain
    BY <1>1, <2>1 DEF BannerIInv, BannerOnce
  <2>3. clicks'[r] = 1 \/ r \in shownAgain
    BY <1>2, <2>2
  <2>4. ~NoPermission.shown
    BY NoBannerIsOne
  <2> QED BY <1>1, <1>2, <2>1, <2>3, <2>4 DEF BannerIInv, BannerOnce, serverAsks, bannerReads
<1> QED BY <1>3, <1>4, <1>5, <1>6 DEF BannerIInv

LEMMA PermReplyFailsOK == ASSUME BannerIInv, NEW r \in PermAsks, PermReplyFails(r) PROVE BannerIInv'
<1>1. /\ suppressed' = suppressed \ {r} /\ shownAgain' = shownAgain \cup {r} /\ RefreshPermission
      /\ UNCHANGED <<bannerPlace, serverAsks, clicks, risk>>
  BY DEF PermReplyFails
<1>2. BannerTypes'
  BY <1>1, RefreshOK, NoBannerIsOne DEF BannerIInv, BannerTypes, bannerPlace, serverAsks
<1>3. BannerPlaced'
  BY <1>1, RefreshOK, NoBannerIsOne
  DEF BannerIInv, BannerPlaced, InCurrentFamily, bannerPlace, serverAsks
<1>4. BannerTold'
  <2>1. permission'.shown /\ permission'.ask \in endTold =>
           \/ hashDue \/ readMissed' \/ refreshAgain'
           \/ bannerRead'.stage # "none" /\ bannerRead'.chat = bannerChat
    BY <1>1, RefreshOK, NoBannerIsOne
  <2>2. /\ bannerRead'.stage = "none" => bannerRead' = NoBannerRead
        /\ refreshAgain' => bannerRead'.stage # "none"
        /\ bannerRead'.rows \subseteq bannerRead.rows
        /\ \A q \in bannerRead'.rows : refreshAgain'
    BY <1>1, RefreshOK
  <2> QED BY <1>1, <2>1, <2>2 DEF BannerIInv, BannerTold, bannerPlace, serverAsks
<1>5. BannerOnce'
  <2>1. /\ bannerRead'.rows \subseteq bannerRead.rows
        /\ permission'.shown => permission' = permission
    BY <1>1, RefreshOK, NoBannerIsOne
  <2> QED BY <1>1, <2>1 DEF BannerIInv, BannerOnce, serverAsks
<1> QED BY <1>2, <1>3, <1>4, <1>5 DEF BannerIInv

-----------------------------------------------------------------------------
LEMMA OpenChatAtOK ==
  ASSUME BannerIInv, NEW c \in BannerChats \cup {NoBannerChat}, OpenChatAt(c) PROVE BannerIInv'
<1>1. /\ ~hashDue /\ bannerChat' = c /\ hashDue' = TRUE
      /\ UNCHANGED <<kidsOf, serverAsks, permission, suppressed, bannerReads, userReplies, risk>>
  BY DEF OpenChatAt
<1>2. BannerTypes'
  BY <1>1 DEF BannerIInv, BannerTypes, BannerPlaces, serverAsks, bannerReads, userReplies
<1>3. BannerPlaced'
  BY <1>1 DEF BannerIInv, BannerPlaced, serverAsks
<1>4. BannerTold'
  BY <1>1 DEF BannerIInv, BannerTold, serverAsks, bannerReads
<1>5. BannerOnce'
  BY <1>1 DEF BannerIInv, BannerOnce, serverAsks, bannerReads, userReplies
<1> QED BY <1>2, <1>3, <1>4, <1>5 DEF BannerIInv

LEMMA HashChangeOK == ASSUME BannerIInv, HashChange PROVE BannerIInv'
<1>1. /\ hashDue' = FALSE /\ kidsOf' = NoBannerChat /\ permission' = NoPermission
      /\ UNCHANGED <<bannerChat, serverAsks, suppressed, bannerReads, userReplies, risk>>
  BY DEF HashChange, ClearBanner
<1>2. BannerTypes'
  BY <1>1, NoBannerIsOne
  DEF BannerIInv, BannerTypes, BannerPlaces, serverAsks, bannerReads, userReplies
<1>3. BannerPlaced'
  BY <1>1, NoBannerIsOne DEF BannerIInv, BannerPlaced
<1>4. BannerTold'
  BY <1>1, NoBannerIsOne DEF BannerIInv, BannerTold, serverAsks, bannerReads
<1>5. BannerOnce'
  BY <1>1, NoBannerIsOne DEF BannerIInv, BannerOnce, serverAsks, bannerReads, userReplies
<1> QED BY <1>2, <1>3, <1>4, <1>5 DEF BannerIInv

LEMMA KidsLoadOK == ASSUME BannerIInv, KidsLoad PROVE BannerIInv'
<1>1. /\ ~hashDue /\ kidsOf # bannerChat /\ kidsOf' = bannerChat
      /\ UNCHANGED <<bannerChat, hashDue, serverAsks, permission, suppressed, bannerReads,
                     userReplies, risk>>
  BY DEF KidsLoad
<1>2. kidsOf = NoBannerChat
  BY <1>1 DEF BannerIInv, BannerPlaced
<1>3. permission.shown => permission.ask \in PermAsks /\ permission.ask \notin AskKids
  BY <1>1, <1>2, BannerAssumption DEF BannerIInv, BannerPlaced, InCurrentFamily
<1>4. BannerTypes'
  BY <1>1 DEF BannerIInv, BannerTypes, serverAsks, bannerReads, userReplies
<1>5. BannerPlaced'
  BY <1>1, <1>3 DEF BannerIInv, BannerPlaced, InCurrentFamily, serverAsks
<1>6. BannerTold'
  BY <1>1 DEF BannerIInv, BannerTold, serverAsks, bannerReads
<1>7. BannerOnce'
  BY <1>1 DEF BannerIInv, BannerOnce, serverAsks, bannerReads, userReplies
<1> QED BY <1>4, <1>5, <1>6, <1>7 DEF BannerIInv

LEMMA ClickOK == ASSUME BannerIInv, Click PROVE BannerIInv'
<1>1. /\ permission' = NoPermission
      /\ UNCHANGED <<bannerPlace, serverAsks, suppressed, readMissed, userReplies, risk>>
  BY DEF Click, ClearBanner
<1>2. /\ bannerRead' \in BannerReadRecs /\ refreshAgain' \in BOOLEAN
      /\ bannerRead'.rows \subseteq bannerRead.rows
      /\ bannerRead'.stage = "none" => bannerRead' = NoBannerRead
      /\ refreshAgain' => bannerRead'.stage # "none"
      /\ \A r \in bannerRead'.rows : refreshAgain' \/ (bannerRead' = bannerRead /\ refreshAgain' = refreshAgain)
  <2>1. CASE bannerRead.stage # "none" /\ refreshAgain' = RefreshLater /\ UNCHANGED bannerRead
    <3>1. refreshAgain' = TRUE
      BY <2>1, Zenon DEF RefreshLater
    <3> QED BY <2>1, <3>1 DEF BannerIInv, BannerTypes, BannerTold
  <2>2. CASE UNCHANGED <<bannerRead, refreshAgain>>
    BY <2>2 DEF BannerIInv, BannerTypes, BannerTold
  <2>3. CASE /\ bannerRead.stage = "none" /\ UNCHANGED refreshAgain
             /\ bannerRead' = [stage |-> "asked", chat |-> bannerChat, rows |-> {}]
    BY <2>3, AskedIsOne DEF BannerIInv, BannerTypes, BannerTold
  <2> QED BY <2>1, <2>2, <2>3 DEF Click
<1>3. BannerTypes'
  BY <1>1, <1>2, NoBannerIsOne
  DEF BannerIInv, BannerTypes, bannerPlace, serverAsks, userReplies
<1>4. \A r \in endTold : /\ r \in PermAsks /\ asks[r] = "settled" /\ r \notin askedEvents
                         /\ r \in bannerRead'.rows => refreshAgain'
  BY <1>2 DEF BannerIInv, BannerTold
<1>5. risk.stage # "none" => risk.ask \in PermAsks \ AskKids /\ AskChat[risk.ask] = risk.chat
  BY DEF BannerIInv, BannerPlaced
<1> QED BY <1>1, <1>2, <1>3, <1>4, <1>5, NoBannerIsOne, NoBannerShown
    DEF bannerPlace, serverAsks, userReplies

\* The server answered: the banner is hidden if it shows that request.
LEMMA EvaluateAnswersOK == ASSUME BannerIInv, EvaluateAnswers PROVE BannerIInv'
<1> DEFINE hidden == [permission EXCEPT !.shown = FALSE]
<1>1. /\ risk.stage = "answered" /\ risk' = NoRisk
      /\ permission' = IF permission.chat = risk.chat /\ permission.ask = risk.ask
                       THEN hidden ELSE permission
      /\ suppressed' = suppressed \cup {risk.ask}
      /\ UNCHANGED <<bannerPlace, serverAsks, bannerReads, userReplies>>
  BY DEF EvaluateAnswers
<1>2. hidden \in BannerRecs /\ ~hidden.shown
  BY DEF BannerIInv, BannerTypes, BannerRecs
<1> HIDE DEF hidden
<1>3. permission' \in BannerRecs /\ (permission'.shown => permission' = permission)
  BY <1>1, <1>2 DEF BannerIInv, BannerTypes
<1>4. permission'.shown => permission'.ask # risk.ask
  BY <1>1, <1>2, <1>3 DEF BannerIInv, BannerPlaced
<1>5. BannerTypes'
  BY <1>1, <1>3, NoBannerIsOne
  DEF BannerIInv, BannerTypes, bannerPlace, serverAsks, bannerReads, userReplies
<1>6. BannerPlaced'
  BY <1>1, <1>3, <1>4, NoBannerIsOne
  DEF BannerIInv, BannerPlaced, InCurrentFamily, bannerPlace, serverAsks
<1>7. BannerTold'
  BY <1>1, <1>3 DEF BannerIInv, BannerTold, bannerPlace, serverAsks, bannerReads
<1>8. BannerOnce'
  BY <1>1, <1>3 DEF BannerIInv, BannerOnce, serverAsks, bannerReads, userReplies
<1> QED BY <1>5, <1>6, <1>7, <1>8 DEF BannerIInv

LEMMA BannerStepOK == ASSUME BannerIInv, [BannerNext]_bannerVars PROVE BannerIInv'
<1>1. CASE Poll \/ BannerReadServed \/ ReadArrives \/ BannerReadFails \/ ClearedExpires
  BY <1>1, PollOK, BannerReadServedOK, ReadArrivesOK, BannerReadFailsOK, QuietStepsOK
<1>2. ASSUME NEW r \in PermAsks,
             \/ AskArrives(r) \/ PermSettledElsewhere(r) \/ HearAsked(r) \/ HearReplied(r)
             \/ SuppressionEnds(r) \/ Answer(r)
             \/ PermReplyTaken(r) \/ ReplyArrives(r) \/ PermReplyFails(r)
      PROVE  BannerIInv'
  BY <1>2, AskArrivesOK, EndsOK, HearAskedOK, HearRepliedOK, SuppressionEndsOK, AnswerOK,
     QuietStepsOK, PermReplyFailsOK
<1>3. CASE \E c \in BannerChats \cup {NoBannerChat} : OpenChatAt(c)
  BY <1>3, OpenChatAtOK
<1>4. CASE HashChange \/ KidsLoad \/ Click
  BY <1>4, HashChangeOK, KidsLoadOK, ClickOK
<1>5. CASE RiskDecided \/ EvaluateServed \/ EvaluateEnds \/ EvaluateAnswers
  BY <1>5, QuietStepsOK, EndsOK, EvaluateAnswersOK
<1>6. CASE UNCHANGED bannerVars
  <2>1. UNCHANGED <<bannerPlace, serverAsks, permission, suppressed, bannerReads, userReplies, risk>>
    BY <1>6 DEF bannerVars, bannerPlace, serverAsks, bannerReads, userReplies
  <2> QED BY <2>1, BannerStays DEF BannerIInv, BannerTypes, BannerPlaced, userReplies
<1> QED BY <1>1, <1>2, <1>3, <1>4, <1>5, <1>6 DEF BannerNext

LEMMA BannerIsSound == BannerIInv => BannerSound
<1> SUFFICES ASSUME BannerIInv PROVE BannerSound
  OBVIOUS
<1>1. /\ permission.shown => permission.ask \notin suppressed
      /\ permission.shown /\ ~hashDue =>
           permission.chat = bannerChat /\ InCurrentFamily(permission.ask)
  BY DEF BannerIInv, BannerPlaced
<1>2. permission.shown /\ permission.ask \in endTold =>
        hashDue \/ readMissed \/ bannerRead # NoBannerRead
  BY NoBannerIsOne DEF BannerIInv, BannerTold
<1>3. ASSUME NEW r \in PermAsks \ shownAgain PROVE clicks[r] <= 1
  <2>1. clicks[r] = 0 \/ clicks[r] = 1
    BY DEF BannerIInv, BannerOnce
  <2> QED BY <2>1
<1> QED BY <1>1, <1>2, <1>3 DEF BannerSound

\* The banner shows a request of the open chat that nobody answered, one that has
\* ended only until a read takes it off, and the user answers each once unless its
\* reply failed or took too long (access-fix.js, control-plane.js).
THEOREM BannersAreSound == BannerSpec => []BannerSound
<1>1. BannerIInv /\ [BannerNext]_bannerVars => BannerIInv'
  BY BannerStepOK
<1> QED BY <1>1, BannerInitOK, BannerIsSound, PTL DEF BannerSpec

-----------------------------------------------------------------------------
(* The dialogs and the history.  While the page orders what happens, one    *)
(* thing is under way at a time: nothing, the close event of the dialog on  *)
(* top, or a step in the history.  The entries after the one of the page    *)
(* are those of the open dialogs in their order, but for a first dialog     *)
(* whose entry navigate took over.                                          *)

ModalTypes ==
  /\ walked \in Seq(Nat) /\ entryAt \in Nat /\ home \in 1 .. Len(walked)
  /\ openDialogs \in Seq(Modals) /\ onScreen \in SUBSET Modals
  /\ modalToken \in [Modals -> Nat] /\ modalShows \in Nat
  /\ \A d \in Modals : modalToken[d] <= modalShows
  /\ \A i, j \in 1 .. Len(openDialogs) : openDialogs[i] = openDialogs[j] => i = j

\* The first n dialogs, b of them without an entry, have their entries.
Laid(b, n) ==
  /\ b \in {0, 1} /\ b <= n /\ home + n - b <= Len(walked)
  /\ \A i \in 1 .. home : walked[i] = 0
  /\ \A i \in b + 1 .. n : walked[home + i - b] = modalToken[openDialogs[i]]
\* Their tokens.
TokensApart(n) ==
  \A i \in 1 .. n : /\ modalToken[openDialogs[i]] # 0
                    /\ \A j \in 1 .. n : modalToken[openDialogs[i]] = modalToken[openDialogs[j]] => i = j
Shown(ds) == /\ \A i \in 1 .. Len(openDialogs) : openDialogs[i] \in ds
             /\ \A d \in ds : \E i \in 1 .. Len(openDialogs) : openDialogs[i] = d

\* Nothing is under way, or a step of the user.
AtRest ==
  /\ closeEvents = <<>> /\ travels \in {<<>>, <<"back">>, <<"forward">>}
  /\ travels = <<"forward">> => openDialogs = <<>>
  /\ pendingClose = NoPending /\ replaced = {} /\ Shown(onScreen)
  /\ TokensApart(Len(openDialogs))
  /\ \E b \in {0, 1} : Laid(b, Len(openDialogs)) /\ entryAt = home + Len(openDialogs) - b
\* The dialog on top was closed and its event is to come.
Closing ==
  LET n == Len(openDialogs)
      d == openDialogs[n]
  IN /\ n # 0 /\ closeEvents = <<d>> /\ travels = <<>> /\ replaced = {}
     /\ d \notin onScreen /\ Shown(onScreen \cup {d}) /\ TokensApart(n)
     /\ \E b \in {0, 1} :
          /\ Laid(b, n - 1)
          /\ \/ /\ entryAt = home + n - b /\ entryAt <= Len(walked) /\ Marker = modalToken[d]
                /\ pendingClose \in {NoPending, [dialog |-> d, token |-> modalToken[d]]}
             \/ /\ entryAt = home + (n - 1) - b /\ Marker # modalToken[d]
                /\ pendingClose = NoPending
\* Another dialog took its entry over.
TakenOver ==
  LET n == Len(openDialogs)
      d == openDialogs[n - 1]
      e == openDialogs[n]
  IN /\ n \in Nat \ {0, 1} /\ closeEvents = <<d>> /\ travels = <<>> /\ replaced = {d}
     /\ d \notin onScreen /\ Shown(onScreen \cup {d}) /\ TokensApart(n - 1)
     /\ pendingClose = NoPending /\ modalToken[e] = modalToken[d]
     /\ \E b \in {0, 1} :
          /\ Laid(b, n - 2) /\ entryAt = home + (n - 1) - b /\ entryAt <= Len(walked)
          /\ Marker = modalToken[e]
\* The page goes back over the entry of a dialog that is gone.
GoingBack ==
  /\ closeEvents = <<>> /\ travels = <<"code">> /\ pendingClose # NoPending /\ replaced = {}
  /\ Shown(onScreen) /\ TokensApart(Len(openDialogs))
  /\ \E b \in {0, 1} : Laid(b, Len(openDialogs)) /\ entryAt = home + Len(openDialogs) - b + 1
ModalOrder == ModalTypes /\ (AtRest \/ Closing \/ TakenOver \/ GoingBack)
SheetsEnd == \A d \in settling : \E end \in {"settle", "dismiss"} : <<d, end>> \in sheetDue
ModalIInv == SheetsEnd /\ crossed \in BOOLEAN /\ (crossed \/ ModalOrder)

LEMMA GoneIsOne ==
  ASSUME NEW s \in Seq(Modals), NEW k \in 1 .. Len(s),
         \A i, j \in 1 .. Len(s) : s[i] = s[j] => i = j
  PROVE  RemoveFirst(s, s[k]) = SubSeq(s, 1, k - 1) \o SubSeq(s, k + 1, Len(s))
<1> DEFINE I == {i \in 1 .. Len(s) : s[i] = s[k]}
<1>1. I = {k}
  OBVIOUS
<1>2. SelectInSeq(s, LAMBDA v : v = s[k]) = IF I # {} THEN Min(I) ELSE 0
  BY DEF SelectInSeq
<1>3. Min({k}) = k
  BY DEF Min
<1>4. RemoveFirst(s, s[k]) = RemoveAt(s, SelectInSeq(s, LAMBDA v : v = s[k]))
  BY DEF RemoveFirst
<1> QED BY <1>1, <1>2, <1>3, <1>4 DEF RemoveAt

LEMMA TopIsCurrent ==
  ASSUME openDialogs \in Seq(Modals), Len(openDialogs) # 0,
         openDialogs[Len(openDialogs)] \in onScreen
  PROVE  Current = openDialogs[Len(openDialogs)]
<1> DEFINE n == Len(openDialogs)
<1>1. n \in Nat \ {0} /\ DOMAIN openDialogs = 1 .. n
  BY LenProperties
<1>2. OpenOnes \subseteq 1 .. n /\ n \in OpenOnes
  BY <1>1 DEF OpenOnes
<1>3. Max(OpenOnes) = n
  <2> HIDE DEF n
  <2>1. n \in OpenOnes /\ \A y \in OpenOnes : n >= y
    BY <1>1, <1>2
  <2>2. \A x \in OpenOnes : (\A y \in OpenOnes : x >= y) => x = n
    BY <1>1, <1>2
  <2> DEFINE S == OpenOnes
  <2> HIDE DEF S
  <2>3. (CHOOSE x \in S : \A y \in S : x >= y) = n
    BY <2>1, <2>2 DEF S
  <2> QED BY <2>3 DEF Max, S
<1> QED BY <1>2, <1>3 DEF Current

LEMMA NothingIsCurrent ==
  ASSUME openDialogs \in Seq(Modals), Len(openDialogs) = 0
  PROVE  Current = NoModal
<1>1. DOMAIN openDialogs = {}
  BY LenProperties
<1> QED BY <1>1 DEF Current, OpenOnes

LEMMA RestCurrent ==
  ASSUME ModalTypes, AtRest
  PROVE  Current = IF Len(openDialogs) = 0 THEN NoModal ELSE openDialogs[Len(openDialogs)]
<1>1. openDialogs \in Seq(Modals) /\ Len(openDialogs) \in Nat
  BY LenProperties DEF ModalTypes
<1>2. CASE Len(openDialogs) = 0
  BY <1>1, <1>2, NothingIsCurrent
<1>3. CASE Len(openDialogs) # 0
  <2>1. openDialogs[Len(openDialogs)] \in onScreen
    BY <1>1, <1>3 DEF AtRest, Shown
  <2> QED BY <1>1, <1>3, <2>1, TopIsCurrent
<1> QED BY <1>2, <1>3

LEMMA ModalInitOK == ModalInit => ModalIInv
<1> SUFFICES ASSUME ModalInit PROVE ModalIInv
  OBVIOUS
<1> USE ModalAssumption
<1>1. openDialogs = <<>> /\ Len(openDialogs) = 0 /\ walked = <<0, 0>> /\ Len(walked) = 2
  BY DEF ModalInit
<1>2. ModalTypes
  <2>1. walked \in Seq(Nat) /\ openDialogs \in Seq(Modals)
    BY <1>1
  <2> QED BY <1>1, <2>1 DEF ModalInit, ModalTypes
<1>3. Laid(0, 0)
  BY <1>1 DEF ModalInit, Laid
<1>4. AtRest
  BY <1>1, <1>3 DEF ModalInit, AtRest, Shown, TokensApart
<1>5. SheetsEnd /\ crossed \in BOOLEAN
  BY DEF ModalInit, SheetsEnd
<1> QED BY <1>2, <1>4, <1>5 DEF ModalIInv, ModalOrder

\* What only touches the sheets, the busy dialogs or the waiters.
LEMMA OrderStays ==
  ASSUME ModalOrder,
         UNCHANGED <<browser, onScreen, modalToken, openDialogs, replaced, pendingClose,
                     closeEvents, modalShows>>
  PROVE  ModalOrder'
<1>1. ModalTypes'
  BY DEF ModalOrder, ModalTypes, browser
<1>2. /\ \A n : TokensApart(n)' <=> TokensApart(n)
      /\ \A b, n : Laid(b, n)' <=> Laid(b, n)
      /\ \A ds : Shown(ds)' <=> Shown(ds)
  BY DEF Laid, TokensApart, Shown, browser
<1>3. CASE AtRest
  BY <1>1, <1>3, <1>2 DEF ModalOrder, AtRest, browser
<1>4. CASE Closing
  BY <1>1, <1>4, <1>2 DEF ModalOrder, Closing, browser, Marker
<1>5. CASE TakenOver
  BY <1>1, <1>5, <1>2 DEF ModalOrder, TakenOver, browser, Marker
<1>6. CASE GoingBack
  BY <1>1, <1>6, <1>2 DEF ModalOrder, GoingBack, browser, Marker
<1> QED BY <1>3, <1>4, <1>5, <1>6 DEF ModalOrder

\* The dialog on top closes while nothing is under way.
LEMMA TopClosesOK ==
  ASSUME NEW d \in Modals, ModalTypes, AtRest, travels = <<>>, d \in onScreen, d = Current,
         Closes(d),
         \/ pendingClose' = NoPending
         \/ Marker = modalToken[d] /\ pendingClose' = [dialog |-> d, token |-> modalToken[d]],
         UNCHANGED <<browser, modalToken, openDialogs, replaced, modalShows>>
  PROVE  ModalOrder'
<1> DEFINE n == Len(openDialogs)
<1>1. n \in Nat /\ openDialogs \in Seq(Modals) /\ home \in Nat
  BY LenProperties DEF ModalTypes
<1>2. n # 0 /\ d = openDialogs[n]
  BY RestCurrent, ModalAssumption
<1>3. ModalTypes'
  BY DEF ModalTypes, Closes, browser
<1>4. PICK b \in {0, 1} : Laid(b, n) /\ entryAt = home + n - b
  BY DEF AtRest
<1>5. /\ closeEvents' = <<d>> /\ travels' = <<>> /\ replaced' = {} /\ openDialogs' = openDialogs
      /\ modalToken' = modalToken /\ walked' = walked /\ entryAt' = entryAt /\ home' = home
      /\ onScreen' = onScreen \ {d}
  BY DEF AtRest, Closes, browser
<1>6. Shown(onScreen) /\ TokensApart(n)
  BY DEF AtRest
<1>7. Shown(onScreen \cup {d})' /\ TokensApart(n)' /\ d \notin onScreen'
  BY <1>5, <1>6 DEF Shown, TokensApart
<1>8. CASE n - b # 0
  <2>1. b <= n - 1 /\ b + 1 <= n
    BY <1>1, <1>2, <1>4, <1>8 DEF Laid
  <2>2. Laid(b, n - 1)'
    BY <1>1, <1>4, <1>5, <2>1 DEF Laid
  <2>3. entryAt <= Len(walked) /\ walked[home + n - b] = modalToken[openDialogs[n]]
    BY <1>1, <1>2, <1>4, <2>1 DEF Laid
  <2>4. Marker = modalToken[d]
    BY <1>2, <1>4, <2>3 DEF Marker
  <2>5. Closing'
    BY <1>1, <1>2, <1>4, <1>5, <1>7, <2>2, <2>3, <2>4 DEF Closing, Marker, TokensApart
  <2> QED BY <1>3, <2>5 DEF ModalOrder
<1>9. CASE n - b = 0
  <2>1. n = 1 /\ b = 1 /\ entryAt = home
    <3>1. n = b
      BY <1>1, <1>9
    <3>2. b = 1
      BY <1>2, <3>1
    <3> QED BY <1>1, <1>4, <3>1, <3>2
  <2>2. Laid(0, n - 1)'
    BY <1>1, <1>4, <1>5, <2>1 DEF Laid
  <2>3. Marker = 0 /\ modalToken[d] # 0
    BY <1>1, <1>2, <1>4, <1>6, <2>1 DEF Marker, Laid, TokensApart, ModalTypes
  <2>4. Closing'
    BY <1>1, <1>2, <1>4, <1>5, <1>7, <2>1, <2>2, <2>3 DEF Closing, Marker, TokensApart
  <2> QED BY <1>3, <2>4 DEF ModalOrder
<1> QED BY <1>8, <1>9

\* A dialog is shown while nothing is under way: it gets an entry of its own.
LEMMA ShowAtRestOK ==
  ASSUME NEW d \in Modals, ModalTypes, AtRest, ShowModal(d), ~ShowCrosses(d)
  PROVE  ModalOrder'
<1> DEFINE t == modalShows + 1
<1>0. PICK n \in Nat : n = Len(openDialogs)
  <2>1. Len(openDialogs) \in Nat
    BY LenProperties DEF ModalTypes
  <2> QED BY <2>1, Zenon
<1>1. /\ n = Len(openDialogs) /\ openDialogs \in Seq(Modals) /\ home \in Nat /\ entryAt \in Nat
      /\ walked \in Seq(Nat) /\ Len(walked) \in Nat /\ modalShows \in Nat /\ t \in Nat \ {0}
      /\ modalToken \in [Modals -> Nat] /\ home >= 1 /\ home <= Len(walked)
  BY <1>0, LenProperties DEF ModalTypes
<1>2. travels = <<>> /\ ~Contains(openDialogs, d) /\ ~Announced
  BY DEF ShowCrosses, AtRest, Announced
<1>3. \A i \in 1 .. n : openDialogs[i] # d /\ openDialogs[i] \in Modals
  BY <1>1, <1>2, ElementOfSeq DEF Contains
<1>4. PICK b \in {0, 1} : Laid(b, n) /\ entryAt = home + n - b
  BY <1>0 DEF AtRest
<1>5. b \in 0 .. 1 /\ b <= n /\ entryAt <= Len(walked) /\ entryAt >= 1 /\ home <= entryAt
  BY <1>1, <1>4 DEF Laid
<1>6. /\ closeEvents' = <<>> /\ travels' = <<>> /\ pendingClose' = NoPending /\ replaced' = {}
      /\ onScreen' = onScreen \cup {d} /\ modalShows' = t
      /\ openDialogs' = Append(openDialogs, d) /\ modalToken' = [modalToken EXCEPT ![d] = t]
      /\ walked' = Append(SubSeq(walked, 1, entryAt), t) /\ entryAt' = entryAt + 1
  BY <1>2 DEF ShowModal, Register, TakesEntryOver, AtRest
<1>7. home' = home
  <2>1. home' = IF openDialogs = <<>> THEN entryAt ELSE home
    BY <1>2 DEF ShowModal, Register, TakesEntryOver
  <2>2. CASE openDialogs = <<>>
    <3>1. n = 0
      BY <1>0, <2>2
    <3> QED BY <1>1, <1>4, <1>5, <2>1, <2>2, <3>1
  <2> QED BY <2>1, <2>2
<1>8. /\ openDialogs' \in Seq(Modals) /\ Len(openDialogs') = n + 1 /\ openDialogs'[n + 1] = d
      /\ \A i \in 1 .. n : openDialogs'[i] = openDialogs[i]
  BY <1>1, <1>6, AppendProperties
<1>9. /\ walked' \in Seq(Nat) /\ Len(walked') = entryAt + 1 /\ walked'[entryAt + 1] = t
      /\ \A i \in 1 .. entryAt : walked'[i] = walked[i]
  <2> DEFINE w == SubSeq(walked, 1, entryAt)
  <2>1. w \in Seq(Nat) /\ Len(w) = entryAt /\ \A i \in 1 .. entryAt : w[i] = walked[i]
    BY SMTT(30), <1>1, <1>5
  <2>2. walked' = Append(w, t)
    BY <1>6
  <2> HIDE DEF w
  <2>3. t \in Nat /\ entryAt \in Nat
    BY <1>1, <1>2
  <2>4. /\ Append(w, t) \in Seq(Nat) /\ Len(Append(w, t)) = Len(w) + 1
        /\ \A i \in 1 .. Len(w) : Append(w, t)[i] = w[i]
        /\ Append(w, t)[Len(w) + 1] = t
    <3> HIDE DEF t
    <3> QED BY <2>1, <2>3, AppendProperties
  <2> QED BY <2>1, <2>2, <2>4
<1> HIDE DEF t
<1>10. /\ modalToken' \in [Modals -> Nat] /\ modalToken'[d] = t
       /\ \A e \in Modals : e # d => modalToken'[e] = modalToken[e]
       /\ \A e \in Modals : modalToken[e] < t /\ modalToken'[e] <= t
  BY <1>1, <1>6 DEF ModalTypes, t
<1>11. ModalTypes'
  <2>1. \A i, j \in 1 .. n + 1 : openDialogs'[i] = openDialogs'[j] => i = j
    <3>1. \A i \in 1 .. n + 1 : i \in 1 .. n \/ i = n + 1
      BY <1>1
    <3>2. \A i, j \in 1 .. n : openDialogs[i] = openDialogs[j] => i = j
      BY <1>0 DEF ModalTypes
    <3>3. SUFFICES ASSUME NEW i \in 1 .. n + 1, NEW j \in 1 .. n + 1,
                          openDialogs'[i] = openDialogs'[j]
                   PROVE  i = j
      OBVIOUS
    <3>4. CASE i \in 1 .. n /\ j \in 1 .. n
      BY <3>2, <3>3, <3>4, <1>8
    <3>5. CASE i = n + 1 /\ j \in 1 .. n
      BY <3>3, <3>5, <1>3, <1>8
    <3>6. CASE j = n + 1 /\ i \in 1 .. n
      BY <3>3, <3>6, <1>3, <1>8
    <3> QED BY <3>1, <3>4, <3>5, <3>6
  <2>2. onScreen' \in SUBSET Modals
    BY <1>6 DEF ModalTypes
  <2>3. \A e \in Modals : modalToken'[e] <= modalShows'
    BY <1>6, <1>10
  <2>4. home' \in 1 .. Len(walked') /\ entryAt' \in Nat /\ modalShows' \in Nat
    BY <1>1, <1>5, <1>6, <1>7, <1>9
  <2> QED BY <1>8, <1>9, <1>10, <2>1, <2>2, <2>3, <2>4 DEF ModalTypes
<1>12. TokensApart(n + 1)'
  <2>1. \A i \in 1 .. n : modalToken'[openDialogs'[i]] = modalToken[openDialogs[i]]
    BY <1>3, <1>8, <1>10
  <2>2. \A i \in 1 .. n : modalToken[openDialogs[i]] # t
    BY <1>1, <1>3, <1>10
  <2>3. modalToken'[openDialogs'[n + 1]] = t
    BY <1>8, <1>10
  <2>4. \A i \in 1 .. n + 1 : i \in 1 .. n \/ i = n + 1
    BY <1>1
  <2>5. TokensApart(n)
    BY <1>0 DEF AtRest
  <2> DEFINE k(i) == modalToken'[openDialogs'[i]]
  <2>6. /\ \A i \in 1 .. n : k(i) # 0 /\ k(i) # t
        /\ \A i, j \in 1 .. n : k(i) = k(j) => i = j
        /\ k(n + 1) = t /\ t # 0
    BY SMTT(30), <1>1, <2>1, <2>2, <2>3, <2>5 DEF TokensApart
  <2>7. \A i \in 1 .. n + 1 : k(i) # 0
    BY <2>4, <2>6
  <2>8. \A i, j \in 1 .. n + 1 : k(i) = k(j) => i = j
    <3> HIDE DEF k
    <3> QED BY <2>4, <2>6
  <2> QED BY <2>7, <2>8 DEF TokensApart
<1>13. Shown(onScreen)'
  <2>1. /\ \A i \in 1 .. n : openDialogs[i] \in onScreen
        /\ \A e \in onScreen : \E i \in 1 .. n : openDialogs[i] = e
    BY <1>0 DEF AtRest, Shown
  <2>2. (\A i \in 1 .. n + 1 : i \in 1 .. n \/ i = n + 1) /\ n + 1 \in 1 .. n + 1
        /\ \A i \in 1 .. n : i \in 1 .. n + 1
    BY <1>0
  <2>3. \A i \in 1 .. n + 1 : openDialogs'[i] \in onScreen'
    BY <1>6, <1>8, <2>1, <2>2
  <2>4. \A e \in onScreen' : \E i \in 1 .. n + 1 : openDialogs'[i] = e
    <3> SUFFICES ASSUME NEW e \in onScreen' PROVE \E i \in 1 .. n + 1 : openDialogs'[i] = e
      OBVIOUS
    <3>1. CASE e = d
      BY <1>8, <2>2, <3>1
    <3>2. CASE e # d
      <4>1. PICK i \in 1 .. n : openDialogs[i] = e
        BY <1>6, <2>1, <3>2
      <4> QED BY <1>8, <2>2, <4>1
    <3> QED BY <3>1, <3>2
  <2> QED BY <1>8, <2>3, <2>4 DEF Shown
<1>14. Laid(b, n + 1)' /\ entryAt' = home' + (n + 1) - b
  <2>1. \A i \in 1 .. home : walked'[i] = 0
    <3>1. \A i \in 1 .. home : walked[i] = 0
      BY <1>4 DEF Laid
    <3>2. \A i \in 1 .. home : i \in 1 .. entryAt
      BY <1>1, <1>5
    <3> QED BY <1>9, <3>1, <3>2
  <2>2. \A i \in b + 1 .. n + 1 : walked'[home + i - b] = modalToken'[openDialogs'[i]]
    <3> SUFFICES ASSUME NEW i \in b + 1 .. n + 1
                 PROVE  walked'[home + i - b] = modalToken'[openDialogs'[i]]
      OBVIOUS
    <3>1. CASE i = n + 1
      <4>1. home + i - b = entryAt + 1
        BY <1>1, <1>4, <1>5, <3>1
      <4> QED BY <1>8, <1>9, <1>10, <3>1, <4>1
    <3>2. CASE i # n + 1
      <4>1. i \in 1 .. n /\ i \in b + 1 .. n /\ home + i - b \in 1 .. entryAt
        BY SMTT(30), <1>1, <1>4, <1>5, <3>2
      <4>2. walked[home + i - b] = modalToken[openDialogs[i]]
        BY <1>4, <4>1 DEF Laid
      <4> QED BY <1>3, <1>8, <1>9, <1>10, <4>1, <4>2
    <3> QED BY <3>1, <3>2
  <2>3. b <= n + 1 /\ home' + (n + 1) - b <= Len(walked') /\ entryAt' = home' + (n + 1) - b
    <3>1. entryAt' = home' + (n + 1) - b
      <4>1. entryAt = home + n - b /\ entryAt' = entryAt + 1 /\ home' = home
        BY <1>4, <1>6, <1>7
      <4> QED BY <1>0, <1>1, <1>5, <4>1
    <3>2. Len(walked') = entryAt' /\ entryAt' \in Nat
      BY <1>1, <1>6, <1>9
    <3>3. b <= n + 1
      BY <1>0, <1>5
    <3> QED BY <3>1, <3>2, <3>3
  <2>4. Laid(b, n + 1)'
    BY <1>7, <2>1, <2>2, <2>3 DEF Laid
  <2> QED BY <2>3, <2>4
<1>15. AtRest'
  <2>1. Len(openDialogs)' = n + 1
    BY <1>8
  <2> QED BY <1>6, <1>12, <1>13, <1>14, <2>1 DEF AtRest
<1> QED BY <1>11, <1>15 DEF ModalOrder

\* A dialog is shown in the event that closed another one: it takes its entry over.
LEMMA ShowTakesOverOK ==
  ASSUME NEW d \in Modals, ModalTypes, Closing, ShowModal(d), ~ShowCrosses(d)
  PROVE  ModalOrder'
<1>0. PICK n \in Nat : n = Len(openDialogs)
  <2>1. Len(openDialogs) \in Nat
    BY LenProperties DEF ModalTypes
  <2> QED BY <2>1, Zenon
<1>1. /\ n = Len(openDialogs) /\ openDialogs \in Seq(Modals) /\ home \in Nat /\ entryAt \in Nat
      /\ walked \in Seq(Nat) /\ Len(walked) \in Nat /\ modalShows \in Nat
      /\ modalToken \in [Modals -> Nat] /\ n # 0
  <2>1. n # 0
    BY <1>0 DEF Closing
  <2>2. modalToken \in [Modals -> Nat] /\ modalShows \in Nat
    BY DEF ModalTypes
  <2>3. /\ openDialogs \in Seq(Modals) /\ home \in Nat /\ entryAt \in Nat
        /\ walked \in Seq(Nat) /\ Len(walked) \in Nat
    BY LenProperties DEF ModalTypes
  <2> QED BY <1>0, <2>1, <2>2, <2>3, Zenon
<1>2. PICK c : c = openDialogs[n]
  OBVIOUS
<1>3. c \in Modals
  BY <1>1, <1>2, ElementOfSeq
<1>4. /\ closeEvents = <<c>> /\ travels = <<>> /\ replaced = {} /\ c \notin onScreen
      /\ Shown(onScreen \cup {c}) /\ TokensApart(n)
  BY <1>0, <1>2 DEF Closing
<1>5. Announced /\ ~Contains(openDialogs, d)
  BY <1>4 DEF ShowCrosses
<1>6. PICK b \in {0, 1} :
        /\ Laid(b, n - 1) /\ entryAt = home + n - b /\ entryAt <= Len(walked)
        /\ Marker = modalToken[c] /\ pendingClose = [dialog |-> c, token |-> modalToken[c]]
  BY <1>0, <1>2, <1>5 DEF Closing, Announced
<1>7. \A i \in 1 .. n : openDialogs[i] # d /\ openDialogs[i] \in Modals
  BY <1>1, <1>5, ElementOfSeq DEF Contains
<1>8. /\ closeEvents' = <<c>> /\ travels' = <<>> /\ pendingClose' = NoPending /\ replaced' = {c}
      /\ onScreen' = onScreen \cup {d} /\ modalShows' = modalShows + 1
      /\ openDialogs' = Append(openDialogs, d)
      /\ modalToken' = [modalToken EXCEPT ![d] = modalToken[c]]
      /\ walked' = walked /\ entryAt' = entryAt /\ home' = home
  BY <1>4, <1>5, <1>6 DEF ShowModal, Register, TakesEntryOver
<1>9. /\ openDialogs' \in Seq(Modals) /\ Len(openDialogs') = n + 1 /\ openDialogs'[n + 1] = d
      /\ \A i \in 1 .. n : openDialogs'[i] = openDialogs[i]
  BY <1>1, <1>8, AppendProperties
<1>10. /\ modalToken' \in [Modals -> Nat] /\ modalToken'[d] = modalToken[c]
       /\ \A i \in 1 .. n : modalToken'[openDialogs'[i]] = modalToken[openDialogs[i]]
  BY <1>1, <1>3, <1>7, <1>8, <1>9
<1>11. (\A i \in 1 .. n + 1 : i \in 1 .. n \/ i = n + 1) /\ n + 1 \in 1 .. n + 1
       /\ \A i \in 1 .. n : i \in 1 .. n + 1
  OBVIOUS
<1>12. ModalTypes'
  <2>1. \A i, j \in 1 .. n + 1 : openDialogs'[i] = openDialogs'[j] => i = j
    <3>2. \A i, j \in 1 .. n : openDialogs[i] = openDialogs[j] => i = j
      BY <1>0 DEF ModalTypes
    <3>3. SUFFICES ASSUME NEW i \in 1 .. n + 1, NEW j \in 1 .. n + 1,
                          openDialogs'[i] = openDialogs'[j]
                   PROVE  i = j
      OBVIOUS
    <3>4. CASE i \in 1 .. n /\ j \in 1 .. n
      BY <3>2, <3>3, <3>4, <1>9
    <3>5. CASE i = n + 1 /\ j \in 1 .. n
      BY <3>3, <3>5, <1>7, <1>9
    <3>6. CASE j = n + 1 /\ i \in 1 .. n
      BY <3>3, <3>6, <1>7, <1>9
    <3> QED BY <1>11, <3>4, <3>5, <3>6
  <2>2. onScreen' \in SUBSET Modals
    BY <1>8 DEF ModalTypes
  <2>3. \A e \in Modals : modalToken'[e] <= modalShows'
    <3>1. \A e \in Modals : modalToken[e] \in Nat /\ modalToken[e] <= modalShows
      BY <1>1 DEF ModalTypes
    <3>2. \A e \in Modals : modalToken'[e] \in Nat /\ modalToken'[e] <= modalShows
      BY <1>1, <1>3, <1>8, <3>1
    <3> QED BY <1>1, <1>8, <3>2
  <2>4. home' \in 1 .. Len(walked') /\ entryAt' \in Nat /\ modalShows' \in Nat /\ walked' \in Seq(Nat)
    BY <1>1, <1>8 DEF ModalTypes
  <2> QED BY <1>9, <1>10, <2>1, <2>2, <2>3, <2>4 DEF ModalTypes
<1>13. TokensApart(n)'
  BY <1>4, <1>10 DEF TokensApart
<1>14. Shown(onScreen \cup {c})'
  <2>1. /\ \A i \in 1 .. n : openDialogs[i] \in onScreen \cup {c}
        /\ \A e \in onScreen \cup {c} : \E i \in 1 .. n : openDialogs[i] = e
    BY <1>0, <1>4 DEF Shown
  <2>3. \A i \in 1 .. n + 1 : openDialogs'[i] \in onScreen' \cup {c}
    BY <1>8, <1>9, <2>1, <1>11
  <2>4. \A e \in onScreen' \cup {c} : \E i \in 1 .. n + 1 : openDialogs'[i] = e
    <3> SUFFICES ASSUME NEW e \in onScreen' \cup {c}
                 PROVE  \E i \in 1 .. n + 1 : openDialogs'[i] = e
      OBVIOUS
    <3>1. CASE e = d
      BY <1>9, <1>11, <3>1
    <3>2. CASE e # d
      <4>1. PICK i \in 1 .. n : openDialogs[i] = e
        BY <1>8, <2>1, <3>2
      <4> QED BY <1>9, <1>11, <4>1
    <3> QED BY <3>1, <3>2
  <2> QED BY <1>9, <2>3, <2>4 DEF Shown
<1>15. Laid(b, n - 1)'
  <2>1. \A i \in b + 1 .. n - 1 : i \in 1 .. n
    BY <1>1
  <2> QED BY <1>6, <1>8, <1>10, <2>1 DEF Laid
<1>16. TakenOver'
  <2>1. openDialogs'[n] = c /\ c # d /\ n \in 1 .. n
    BY <1>1, <1>2, <1>7, <1>9
  <2>2. modalToken'[c] = modalToken[c]
    BY <1>2, <1>10, <2>1
  <2>3. /\ Len(openDialogs)' = n + 1 /\ n + 1 \in Nat \ {0, 1} /\ (n + 1) - 1 = n
        /\ (n + 1) - 2 = n - 1
    BY <1>1, <1>9
  <2>4. Marker' = modalToken[c]
    BY <1>6, <1>8 DEF Marker
  <2>5. c \notin onScreen'
    BY <1>4, <1>8, <2>1
  <2>6. entryAt' = home' + n - b /\ entryAt' <= Len(walked)'
    BY <1>6, <1>8
  <2> QED BY <1>8, <1>9, <1>10, <1>13, <1>14, <1>15, <2>1, <2>2, <2>3, <2>4, <2>5, <2>6
       DEF TakenOver
<1> QED BY <1>12, <1>16 DEF ModalOrder

LEMMA ShowModalOK ==
  ASSUME NEW d \in Modals, ModalOrder, ShowModal(d), ~ShowCrosses(d)
  PROVE  ModalOrder'
<1>1. CASE AtRest
  BY <1>1, ShowAtRestOK DEF ModalOrder
<1>2. CASE Closing
  BY <1>2, ShowTakesOverOK DEF ModalOrder
<1>3. CASE TakenOver
  BY <1>3 DEF ShowCrosses, TakenOver, Announced
<1>4. CASE GoingBack
  BY <1>4 DEF ShowCrosses, GoingBack
<1> QED BY <1>1, <1>2, <1>3, <1>4 DEF ModalOrder

\* openDialogs without its k-th dialog.
LEMMA DialogGone ==
  ASSUME ModalTypes, NEW n \in Nat, n = Len(openDialogs), NEW k \in 1 .. n,
         openDialogs' = RemoveFirst(openDialogs, openDialogs[k]),
         modalToken' = [modalToken EXCEPT ![openDialogs[k]] = 0],
         UNCHANGED <<walked, entryAt, home, onScreen, modalShows>>
  PROVE  /\ ModalTypes' /\ Len(openDialogs') = n - 1
         /\ \A i \in 1 .. n - 1 : openDialogs'[i] = IF i < k THEN openDialogs[i] ELSE openDialogs[i + 1]
         /\ modalToken'[openDialogs[k]] = 0
         /\ \A i \in 1 .. n : i # k => modalToken'[openDialogs[i]] = modalToken[openDialogs[i]]
<1>1. /\ openDialogs \in Seq(Modals) /\ \A i, j \in 1 .. n : openDialogs[i] = openDialogs[j] => i = j
      /\ modalToken \in [Modals -> Nat]
  BY DEF ModalTypes
<1>2. openDialogs' = SubSeq(openDialogs, 1, k - 1) \o SubSeq(openDialogs, k + 1, n)
  BY <1>1, GoneIsOne
<1>3. \A i \in 1 .. n : openDialogs[i] \in Modals
  BY <1>1, ElementOfSeq
<1> DEFINE p == SubSeq(openDialogs, 1, k - 1)
<1> DEFINE q == SubSeq(openDialogs, k + 1, n)
<1>4. p \in Seq(Modals) /\ Len(p) = k - 1 /\ \A i \in 1 .. k - 1 : p[i] = openDialogs[i]
  BY <1>3, SubSeqProperties
<1>5. q \in Seq(Modals) /\ Len(q) = n - k /\ \A i \in 1 .. n - k : q[i] = openDialogs[k + i]
  <2>1. k + 1 \in Int /\ n \in Int /\ \A i \in k + 1 .. n : openDialogs[i] \in Modals
    BY <1>3
  <2>2. /\ q \in Seq(Modals) /\ Len(q) = IF k + 1 <= n THEN n - (k + 1) + 1 ELSE 0
        /\ \A i \in 1 .. n - (k + 1) + 1 : q[i] = openDialogs[(k + 1) + i - 1]
    BY <2>1, SubSeqProperties
  <2>3. n - (k + 1) + 1 = n - k /\ \A i \in 1 .. n - k : (k + 1) + i - 1 = k + i
    OBVIOUS
  <2> HIDE DEF q
  <2> QED BY <2>2, <2>3
<1>6. openDialogs' = p \o q
  BY <1>2
<1> HIDE DEF p, q
<1>7. /\ openDialogs' \in Seq(Modals) /\ Len(openDialogs') = n - 1
      /\ \A i \in 1 .. n - 1 : openDialogs'[i] = IF i <= k - 1 THEN p[i] ELSE q[i - (k - 1)]
  <2>1. Len(p) + Len(q) = n - 1
    BY <1>4, <1>5
  <2>2. /\ p \o q \in Seq(Modals) /\ Len(p \o q) = Len(p) + Len(q)
        /\ \A i \in 1 .. Len(p) + Len(q) :
             (p \o q)[i] = IF i <= Len(p) THEN p[i] ELSE q[i - Len(p)]
    BY <1>4, <1>5, ConcatProperties
  <2>3. Len(p) = k - 1
    BY <1>4
  <2> QED BY <1>6, <2>1, <2>2, <2>3
<1>8. \A i \in 1 .. n - 1 : openDialogs'[i] = IF i < k THEN openDialogs[i] ELSE openDialogs[i + 1]
  <2> SUFFICES ASSUME NEW i \in 1 .. n - 1
               PROVE  openDialogs'[i] = IF i < k THEN openDialogs[i] ELSE openDialogs[i + 1]
    OBVIOUS
  <2>1. CASE i < k
    BY <1>4, <1>7, <2>1
  <2>2. CASE ~(i < k)
    <3>1. i - (k - 1) \in 1 .. n - k /\ k + (i - (k - 1)) = i + 1 /\ ~(i <= k - 1)
      BY <2>2
    <3>2. q[i - (k - 1)] = openDialogs[i + 1]
      BY <1>5, <3>1
    <3> QED BY <1>7, <2>2, <3>1, <3>2
  <2> QED BY <2>1, <2>2
<1>9. \A i, j \in 1 .. n - 1 : openDialogs'[i] = openDialogs'[j] => i = j
  <2> SUFFICES ASSUME NEW i \in 1 .. n - 1, NEW j \in 1 .. n - 1, openDialogs'[i] = openDialogs'[j]
               PROVE  i = j
    OBVIOUS
  <2> DEFINE a == IF i < k THEN i ELSE i + 1
  <2> DEFINE b == IF j < k THEN j ELSE j + 1
  <2>1. a \in 1 .. n /\ b \in 1 .. n /\ (a = b => i = j)
    OBVIOUS
  <2>2. openDialogs[a] = openDialogs[b]
    BY <1>8
  <2> HIDE DEF a, b
  <2> QED BY <1>1, <2>1, <2>2
<1>10. /\ modalToken' \in [Modals -> Nat] /\ modalToken'[openDialogs[k]] = 0
       /\ \A d \in Modals : d # openDialogs[k] => modalToken'[d] = modalToken[d]
  BY <1>1, <1>3
<1>11. ModalTypes'
  BY <1>7, <1>9, <1>10 DEF ModalTypes
<1>12. \A i \in 1 .. n : i # k => modalToken'[openDialogs[i]] = modalToken[openDialogs[i]]
  <2>1. \A i \in 1 .. n : i # k => openDialogs[i] # openDialogs[k]
    BY <1>1
  <2> QED BY <1>3, <1>10, <2>1
<1> QED BY <1>7, <1>8, <1>10, <1>11, <1>12

LEMMA CloseEventOK ==
  ASSUME ModalOrder, CloseEvent
  PROVE  ModalOrder'
<1>0. PICK n \in Nat : n = Len(openDialogs)
  <2>1. Len(openDialogs) \in Nat
    BY LenProperties DEF ModalOrder, ModalTypes
  <2> QED BY <2>1, Zenon
<1>1. ModalTypes /\ openDialogs \in Seq(Modals) /\ home \in Nat /\ entryAt \in Nat
      /\ Len(walked) \in Nat /\ closeEvents # <<>>
  BY LenProperties DEF ModalOrder, ModalTypes, CloseEvent
<1>2. CASE Closing
  <2>1. PICK d : d = openDialogs[n]
    OBVIOUS
  <2>2. /\ n # 0 /\ closeEvents = <<d>> /\ travels = <<>> /\ replaced = {} /\ d \notin onScreen
        /\ Shown(onScreen \cup {d}) /\ TokensApart(n) /\ d \in Modals
    BY <1>0, <1>1, <1>2, <2>1, ElementOfSeq DEF Closing
  <2>3. PICK b \in {0, 1} :
          /\ Laid(b, n - 1)
          /\ \/ entryAt = home + n - b /\ Marker = modalToken[d]
             \/ /\ entryAt = home + (n - 1) - b /\ Marker # modalToken[d]
                /\ pendingClose = NoPending
    BY <1>0, <1>2, <2>1 DEF Closing
  <2>4. /\ closeEvents' = <<>> /\ replaced' = {}
        /\ openDialogs' = RemoveFirst(openDialogs, d)
        /\ modalToken' = [modalToken EXCEPT ![d] = 0]
        /\ UNCHANGED <<walked, entryAt, home, onScreen, modalShows>>
    BY <2>2 DEF CloseEvent, counts
  <2>5. /\ ModalTypes' /\ Len(openDialogs') = n - 1
        /\ \A i \in 1 .. n - 1 : openDialogs'[i] = IF i < n THEN openDialogs[i] ELSE openDialogs[i + 1]
        /\ \A i \in 1 .. n : i # n => modalToken'[openDialogs[i]] = modalToken[openDialogs[i]]
    <3>1. n \in 1 .. n
      BY <2>2
    <3> QED BY <1>0, <1>1, <2>1, <2>4, <3>1, DialogGone
  <2>6. \A i \in 1 .. n - 1 : /\ i \in 1 .. n /\ openDialogs'[i] = openDialogs[i]
                              /\ modalToken'[openDialogs'[i]] = modalToken[openDialogs[i]]
    BY <2>5
  <2>7. TokensApart(n - 1)' /\ Laid(b, n - 1)'
    <3>1. TokensApart(n - 1)'
      BY <2>2, <2>6 DEF TokensApart
    <3>2. Laid(b, n - 1)'
      <4>1. \A i \in b + 1 .. n - 1 : i \in 1 .. n - 1
        OBVIOUS
      <4> QED BY <2>3, <2>4, <2>6, <4>1 DEF Laid
    <3> QED BY <3>1, <3>2
  <2>8. Shown(onScreen)'
    <3>1. /\ \A i \in 1 .. n : openDialogs[i] \in onScreen \cup {d}
          /\ \A e \in onScreen \cup {d} : \E i \in 1 .. n : openDialogs[i] = e
      BY <1>0, <2>2 DEF Shown
    <3>2. \A i \in 1 .. n - 1 : openDialogs[i] # d
      BY <1>0, <1>1, <2>1, <2>2 DEF ModalTypes
    <3>3. \A i \in 1 .. n - 1 : openDialogs'[i] \in onScreen'
      BY <2>4, <2>6, <3>1, <3>2
    <3>4. \A e \in onScreen' : \E i \in 1 .. n - 1 : openDialogs'[i] = e
      <4> SUFFICES ASSUME NEW e \in onScreen PROVE \E i \in 1 .. n - 1 : openDialogs'[i] = e
        BY <2>4
      <4>1. PICK i \in 1 .. n : openDialogs[i] = e
        BY <3>1
      <4>2. i # n /\ i \in 1 .. n - 1
        BY <2>1, <2>2, <4>1
      <4> QED BY <2>6, <4>1, <4>2
    <3> QED BY <2>5, <3>3, <3>4 DEF Shown
  <2>9. CASE Marker = modalToken[d]
    <3>1. entryAt = home + n - b
      BY <2>3, <2>9
    <3>2. modalToken[d] # 0
      BY <2>1, <2>2 DEF TokensApart
    <3>3. travels' = <<"code">> /\ pendingClose' = [dialog |-> d, token |-> modalToken[d]]
      <4>1. Append(<<>>, "code") = <<"code">>
        OBVIOUS
      <4>2. /\ pendingClose' = [dialog |-> d, token |-> modalToken[d]]
            /\ travels' = Append(travels, "code")
        BY <2>2, <2>9, <3>2 DEF CloseEvent
      <4> QED BY <2>2, <4>1, <4>2
    <3>4. pendingClose' # NoPending
      BY <2>2, <3>3, ModalAssumption DEF NoPending
    <3>5. entryAt' = home' + (n - 1) - b + 1
      <4>1. home + (n - 1) - b + 1 = home + n - b
        BY <1>1
      <4> QED BY <2>4, <3>1, <4>1
    <3>6. GoingBack'
      BY <2>4, <2>5, <2>7, <2>8, <3>3, <3>4, <3>5 DEF GoingBack
    <3> QED BY <2>5, <3>6 DEF ModalOrder
  <2>10. CASE Marker # modalToken[d]
    <3>1. travels' = <<>> /\ pendingClose' = NoPending
      BY <2>2, <2>3, <2>10 DEF CloseEvent
    <3>2. entryAt' = home' + (n - 1) - b
      BY <2>3, <2>4, <2>10
    <3>3. AtRest'
      BY <2>4, <2>5, <2>7, <2>8, <3>1, <3>2 DEF AtRest
    <3> QED BY <2>5, <3>3 DEF ModalOrder
  <2> QED BY <2>9, <2>10
<1>3. CASE TakenOver
  <2>1. PICK d, e : d = openDialogs[n - 1] /\ e = openDialogs[n]
    OBVIOUS
  <2>2. /\ n \in Nat \ {0, 1} /\ closeEvents = <<d>> /\ travels = <<>> /\ replaced = {d}
        /\ d \notin onScreen /\ Shown(onScreen \cup {d}) /\ TokensApart(n - 1)
        /\ pendingClose = NoPending /\ modalToken[e] = modalToken[d]
    BY <1>0, <1>3, <2>1 DEF TakenOver
  <2>3. PICK b \in {0, 1} :
          /\ Laid(b, n - 2) /\ entryAt = home + (n - 1) - b /\ entryAt <= Len(walked)
          /\ Marker = modalToken[e]
    BY <1>0, <1>3, <2>1 DEF TakenOver
  <2>4. /\ closeEvents' = <<>> /\ replaced' = {} /\ travels' = <<>> /\ pendingClose' = NoPending
        /\ openDialogs' = RemoveFirst(openDialogs, d)
        /\ modalToken' = [modalToken EXCEPT ![d] = 0]
        /\ UNCHANGED <<walked, entryAt, home, onScreen, modalShows>>
    BY <2>2 DEF CloseEvent, counts
  <2>5. n - 1 \in 1 .. n /\ n - 1 # n /\ n \in 1 .. n /\ (n - 1) + 1 = n /\ n - 1 \in 1 .. n - 1
    BY <2>2
  <2>6. /\ ModalTypes' /\ Len(openDialogs') = n - 1
        /\ \A i \in 1 .. n - 1 :
             openDialogs'[i] = IF i < n - 1 THEN openDialogs[i] ELSE openDialogs[i + 1]
        /\ \A i \in 1 .. n : i # n - 1 => modalToken'[openDialogs[i]] = modalToken[openDialogs[i]]
    BY ZenonT(40), <1>0, <1>1, <2>1, <2>4, <2>5, DialogGone
  <2>7. \A i \in 1 .. n - 2 : /\ i \in 1 .. n /\ i \in 1 .. n - 1 /\ i # n - 1
                              /\ openDialogs'[i] = openDialogs[i]
                              /\ modalToken'[openDialogs'[i]] = modalToken[openDialogs[i]]
    BY <2>6
  <2>8. openDialogs'[n - 1] = e /\ modalToken'[e] = modalToken[d]
    BY <2>1, <2>2, <2>5, <2>6
  <2>9. \A i \in 1 .. n - 1 : modalToken'[openDialogs'[i]] = modalToken[openDialogs[i]]
    <3>1. \A i \in 1 .. n - 1 : i \in 1 .. n - 2 \/ i = n - 1
      OBVIOUS
    <3> QED BY <2>1, <2>7, <2>8, <3>1
  <2>10. TokensApart(n - 1)'
    BY <2>2, <2>9 DEF TokensApart
  <2>11. Laid(b, n - 1)' /\ entryAt' = home' + (n - 1) - b
    <3>1. b <= n - 1 /\ home' + (n - 1) - b <= Len(walked)'
      BY <1>1, <2>2, <2>3, <2>4 DEF Laid
    <3>2. \A i \in 1 .. home' : walked'[i] = 0
      BY <2>3, <2>4 DEF Laid
    <3>3. \A i \in b + 1 .. n - 1 : walked'[home' + i - b] = modalToken'[openDialogs'[i]]
      <4> SUFFICES ASSUME NEW i \in b + 1 .. n - 1
                   PROVE  walked'[home' + i - b] = modalToken'[openDialogs'[i]]
        OBVIOUS
      <4>1. CASE i = n - 1
        BY <2>2, <2>3, <2>4, <2>8, <4>1 DEF Marker
      <4>2. CASE i # n - 1
        <5>1. i \in 1 .. n - 2 /\ i \in b + 1 .. n - 2
          BY <4>2
        <5>2. walked[home + i - b] = modalToken[openDialogs[i]]
          BY <2>3, <5>1 DEF Laid
        <5> QED BY <2>4, <2>7, <5>1, <5>2
      <4> QED BY <4>1, <4>2
    <3> QED BY <2>3, <2>4, <3>1, <3>2, <3>3 DEF Laid
  <2>12. Shown(onScreen)'
    <3>1. /\ \A i \in 1 .. n : openDialogs[i] \in onScreen \cup {d}
          /\ \A f \in onScreen \cup {d} : \E i \in 1 .. n : openDialogs[i] = f
      BY <1>0, <2>2 DEF Shown
    <3>2. (\A i \in 1 .. n - 2 : openDialogs[i] # d) /\ e # d
      BY <1>0, <1>1, <2>1, <2>5, <2>7 DEF ModalTypes
    <3>3. \A i \in 1 .. n - 1 : openDialogs'[i] \in onScreen'
      <4>1. \A i \in 1 .. n - 1 : i \in 1 .. n - 2 \/ i = n - 1
        OBVIOUS
      <4> QED BY <2>1, <2>4, <2>5, <2>7, <2>8, <3>1, <3>2, <4>1
    <3>4. \A f \in onScreen' : \E i \in 1 .. n - 1 : openDialogs'[i] = f
      <4> SUFFICES ASSUME NEW f \in onScreen PROVE \E i \in 1 .. n - 1 : openDialogs'[i] = f
        BY <2>4
      <4>1. PICK i \in 1 .. n : openDialogs[i] = f
        BY <3>1
      <4>2. i # n - 1
        BY <2>1, <2>2, <4>1
      <4>3. i \in 1 .. n - 2 \/ i = n
        BY <4>2
      <4> QED BY <2>1, <2>5, <2>7, <2>8, <4>1, <4>3
    <3> QED BY <2>6, <3>3, <3>4 DEF Shown
  <2>13. AtRest'
    BY <2>4, <2>6, <2>10, <2>11, <2>12 DEF AtRest
  <2> QED BY <2>6, <2>13 DEF ModalOrder
<1>4. CASE AtRest \/ GoingBack
  BY <1>1, <1>4 DEF AtRest, GoingBack
<1> QED BY <1>2, <1>3, <1>4 DEF ModalOrder

\* A step of the user arrives when no dialog is open.
LEMMA StepWithoutDialogOK ==
  ASSUME ModalTypes, AtRest, Len(openDialogs) = 0, NEW target \in 1 .. Len(walked),
         target \in {entryAt - 1, entryAt + 1},
         travels' = <<>>, entryAt' = target, home' = target, walked' = [walked EXCEPT ![target] = 0],
         UNCHANGED <<onScreen, modalToken, openDialogs, replaced, pendingClose, closeEvents, modalShows>>
  PROVE  ModalOrder'
<1>1. openDialogs \in Seq(Modals) /\ walked \in Seq(Nat) /\ home \in 1 .. Len(walked)
      /\ Len(walked) \in Nat
  BY LenProperties DEF ModalTypes
<1>2. Laid(0, 0) /\ entryAt = home
  BY <1>1 DEF AtRest, Laid
<1>3. /\ walked' \in Seq(Nat) /\ Len(walked') = Len(walked)
      /\ \A i \in 1 .. Len(walked) : walked'[i] = IF i = target THEN 0 ELSE walked[i]
  BY <1>1, ExceptSeq
<1>4. \A i \in 1 .. target : walked'[i] = 0
  <2>1. \A i \in 1 .. target : i \in 1 .. Len(walked) /\ (i = target \/ i \in 1 .. home)
    BY <1>1, <1>2
  <2> QED BY <1>2, <1>3, <2>1 DEF Laid
<1>5. Laid(0, 0)'
  BY <1>3, <1>4 DEF Laid
<1>6. ModalTypes'
  <2>1. home' \in 1 .. Len(walked') /\ entryAt' \in Nat
    BY <1>1, <1>3
  <2> QED BY <1>1, <1>3, <2>1 DEF ModalTypes
<1>7. AtRest'
  <2>1. Shown(onScreen)' /\ TokensApart(0)'
    BY DEF AtRest, Shown, TokensApart
  <2>2. target = target + 0 - 0
    OBVIOUS
  <2> QED BY <1>5, <2>1, <2>2 DEF AtRest
<1> QED BY <1>6, <1>7 DEF ModalOrder

\* Back arrives when a dialog is open: it closes the dialog on top.
LEMMA BackOverDialogOK ==
  ASSUME ModalTypes, AtRest, travels = <<"back">>, Len(openDialogs) # 0,
         entryAt - 1 \in 1 .. Len(walked), PopState
  PROVE  ModalOrder'
<1>0. PICK n \in Nat : n = Len(openDialogs)
  <2>1. Len(openDialogs) \in Nat
    BY LenProperties DEF ModalTypes
  <2> QED BY <2>1, Zenon
<1>1. /\ openDialogs \in Seq(Modals) /\ home \in 1 .. Len(walked) /\ entryAt \in Nat
      /\ walked \in Seq(Nat) /\ Len(walked) \in Nat /\ n \in Nat \ {0} /\ DOMAIN walked = 1 .. Len(walked)
  BY <1>0, LenProperties DEF ModalTypes
<1>2. PICK b \in {0, 1} : Laid(b, n) /\ entryAt = home + n - b
  BY <1>0 DEF AtRest
<1>3. PICK d : d = openDialogs[n]
  OBVIOUS
<1>4. Current = d /\ d \in Modals /\ d # NoModal
  BY <1>0, <1>1, <1>3, RestCurrent, ElementOfSeq, ModalAssumption
<1>5. TokensApart(n) /\ Shown(onScreen) /\ modalToken[d] # 0
  <2>1. n \in 1 .. n
    BY <1>1
  <2> QED BY <1>0, <1>3, <2>1 DEF AtRest, TokensApart
<1>6. Target = entryAt - 1
  <2>1. Head(travels) = "back"
    OBVIOUS
  <2> QED BY <2>1 DEF Target
<1>7. PICK home2, b2 :
        /\ b2 \in {0, 1} /\ home2 \in 1 .. Len(walked)
        /\ home2 = (IF entryAt = home THEN entryAt - 1 ELSE home)
        /\ b2 <= n - 1 /\ home2 + (n - 1) - b2 <= Len(walked)
        /\ \A i \in 1 .. home2 : walked[i] = 0
        /\ \A i \in b2 + 1 .. n - 1 : walked[home2 + i - b2] = modalToken[openDialogs[i]]
        /\ entryAt - 1 = home2 + (n - 1) - b2 /\ walked[entryAt - 1] # modalToken[d]
  <2>1. CASE n - b = 0
    <3>1. n = b
      BY <1>1, <2>1
    <3>2. n = 1 /\ b = 1
      BY <1>1, <3>1
    <3>3. entryAt = home
      BY <1>1, <1>2, <3>2
    <3>4. \A i \in 1 .. entryAt - 1 : i \in 1 .. home
      BY <1>1, <3>3
    <3>5. \A i \in 1 .. entryAt - 1 : walked[i] = 0
      BY <1>2, <3>4 DEF Laid
    <3>6. walked[entryAt - 1] # modalToken[d]
      BY <1>5, <3>5
    <3> WITNESS entryAt - 1, 0
    <3> QED BY <1>1, <3>2, <3>3, <3>5, <3>6
  <2>2. CASE n - b # 0
    <3>1. b <= n - 1 /\ entryAt # home /\ entryAt - 1 = home + (n - 1) - b
      BY <1>1, <1>2, <2>2 DEF Laid
    <3>2. \A i \in b + 1 .. n - 1 : i \in b + 1 .. n /\ i \in 1 .. n /\ i # n
      BY <1>1
    <3>3. home + (n - 1) - b <= Len(walked)
      BY <1>1, <1>2 DEF Laid
    <3>4. walked[entryAt - 1] # modalToken[d]
      <4>1. CASE b = n - 1
        <5>1. entryAt - 1 = home
          BY <1>1, <3>1, <4>1
        <5> QED BY <1>1, <1>2, <1>5, <5>1 DEF Laid
      <4>2. CASE b # n - 1
        <5>1. n - 1 \in b + 1 .. n - 1 /\ n \in 1 .. n
          BY <1>1, <3>1, <4>2
        <5>2. walked[entryAt - 1] = modalToken[openDialogs[n - 1]]
          BY <1>2, <3>1, <3>2, <5>1 DEF Laid
        <5> QED BY <1>3, <1>5, <3>2, <5>1, <5>2 DEF TokensApart
      <4> QED BY <4>1, <4>2
    <3> WITNESS home, b
    <3> QED BY <1>1, <1>2, <3>1, <3>2, <3>3, <3>4 DEF Laid
  <2> QED BY <2>1, <2>2
<1>8. /\ travels' = <<>> /\ entryAt' = entryAt - 1 /\ home' = home2 /\ pendingClose' = NoPending
      /\ walked' = walked /\ Closes(d)
      /\ UNCHANGED <<modalToken, openDialogs, replaced, modalShows>>
  <2>1. pendingClose = NoPending /\ Head(travels) = "back" /\ Tail(travels) = <<>>
    BY DEF AtRest
  <2>2. Target \in DOMAIN walked
    BY <1>1, <1>6
  <2>3. /\ entryAt' = Target /\ travels' = <<>> /\ pendingClose' = NoPending
        /\ home' = IF entryAt = home THEN Target ELSE home
        /\ walked' = walked
        /\ IF walked[Target] = modalToken[Current]
           THEN UNCHANGED <<onScreen, closeEvents>> ELSE Closes(Current)
        /\ UNCHANGED <<modalToken, openDialogs, replaced, modalShows>>
    BY <1>4, <2>1, <2>2 DEF PopState, counts
  <2> QED BY <1>4, <1>6, <1>7, <2>3
<1>9. /\ closeEvents' = <<d>> /\ replaced' = {} /\ onScreen' = onScreen \ {d}
  BY <1>8 DEF AtRest, Closes
<1>10. ModalTypes'
  <2>1. entryAt' \in Nat /\ home' \in 1 .. Len(walked')
    BY <1>1, <1>7, <1>8
  <2> QED BY <1>8, <1>9, <2>1 DEF ModalTypes
<1>11. Laid(b2, n - 1)' /\ TokensApart(n)' /\ Shown(onScreen \cup {d})'
  <2>1. Laid(b2, n - 1)'
    BY <1>7, <1>8 DEF Laid
  <2>2. TokensApart(n)'
    BY <1>5, <1>8 DEF TokensApart
  <2>3. d \in onScreen
    <3>1. n \in 1 .. n
      BY <1>1
    <3> QED BY <1>0, <1>3, <1>5, <3>1 DEF Shown
  <2>4. onScreen' \cup {d} = onScreen
    BY <1>9, <2>3
  <2> QED BY <1>5, <1>8, <2>1, <2>2, <2>4 DEF Shown
<1>12. Closing'
  <2>1. Len(openDialogs)' = n /\ openDialogs'[n] = d
    BY <1>0, <1>3, <1>8
  <2>2. entryAt' = home' + (n - 1) - b2 /\ Marker' # modalToken'[d]
    BY <1>7, <1>8 DEF Marker
  <2> QED BY <1>1, <1>7, <1>8, <1>9, <1>11, <2>1, <2>2 DEF Closing
<1> QED BY <1>10, <1>12 DEF ModalOrder

LEMMA PopStateOK ==
  ASSUME ModalOrder, PopState
  PROVE  ModalOrder'
<1>0. PICK n \in Nat : n = Len(openDialogs)
  <2>1. Len(openDialogs) \in Nat
    BY LenProperties DEF ModalOrder, ModalTypes
  <2> QED BY <2>1, Zenon
<1>1. /\ ModalTypes /\ openDialogs \in Seq(Modals) /\ home \in 1 .. Len(walked) /\ entryAt \in Nat
      /\ walked \in Seq(Nat) /\ Len(walked) \in Nat /\ DOMAIN walked = 1 .. Len(walked)
      /\ travels # <<>>
  BY LenProperties DEF ModalOrder, ModalTypes, PopState
<1>2. CASE AtRest
  <2>1. /\ travels \in {<<"back">>, <<"forward">>} /\ pendingClose = NoPending
        /\ Head(travels) # "code" /\ travels' = <<>>
    <3>1. travels \in {<<"back">>, <<"forward">>} /\ pendingClose = NoPending
      BY <1>1, <1>2 DEF AtRest
    <3>2. CASE travels = <<"back">>
      <4>1. Head(travels) = "back" /\ Tail(travels) = <<>>
        BY <3>2
      <4> QED BY <3>1, <4>1 DEF PopState
    <3>3. CASE travels = <<"forward">>
      <4>1. Head(travels) = "forward" /\ Tail(travels) = <<>>
        BY <3>3
      <4> QED BY <3>1, <4>1 DEF PopState
    <3> QED BY <3>1, <3>2, <3>3
  <2>2. CASE Target \notin DOMAIN walked
    <3>1. UNCHANGED <<walked, entryAt, home, onScreen, modalToken, openDialogs, replaced,
                      pendingClose, closeEvents, modalShows>>
      BY <2>2 DEF PopState, counts
    <3>2. ModalTypes' /\ AtRest'
      <4>1. ModalTypes'
        BY <1>1, <3>1 DEF ModalTypes
      <4>2. Shown(onScreen)' /\ TokensApart(n)' /\ Len(openDialogs)' = n
        BY <1>0, <1>2, <3>1 DEF AtRest, Shown, TokensApart
      <4>3. \E b \in {0, 1} : Laid(b, n)' /\ entryAt' = home' + n - b
        BY <1>0, <1>2, <3>1 DEF AtRest, Laid
      <4> QED BY <1>2, <2>1, <3>1, <4>1, <4>2, <4>3 DEF AtRest
    <3> QED BY <3>2 DEF ModalOrder
  <2>3. CASE Target \in DOMAIN walked /\ n = 0
    <3>1. Current = NoModal /\ entryAt = home
      BY <1>0, <1>1, <1>2, <2>3, RestCurrent DEF AtRest, Laid
    <3>2. PICK target \in 1 .. Len(walked) : target = Target
      BY <1>1, <2>3
    <3>3. /\ entryAt' = target /\ home' = target /\ walked' = [walked EXCEPT ![target] = 0]
          /\ UNCHANGED <<onScreen, modalToken, openDialogs, replaced, pendingClose,
                         closeEvents, modalShows>>
      BY <2>1, <2>3, <3>1, <3>2 DEF PopState, counts
    <3>4. target \in {entryAt - 1, entryAt + 1}
      BY <3>2 DEF Target
    <3> QED BY <1>0, <1>1, <1>2, <2>1, <2>3, <3>3, <3>4, StepWithoutDialogOK
  <2>4. CASE Target \in DOMAIN walked /\ n # 0
    <3>1. openDialogs # <<>>
      BY <1>0, <2>4
    <3>2. travels = <<"back">>
      BY <1>2, <2>1, <3>1 DEF AtRest
    <3>3. Head(travels) = "back"
      BY <3>2
    <3>4. entryAt - 1 \in 1 .. Len(walked)
      BY <1>1, <2>4, <3>3 DEF Target
    <3> QED BY <1>0, <1>1, <1>2, <2>4, <3>2, <3>4, BackOverDialogOK
  <2> QED BY <2>2, <2>3, <2>4
<1>3. CASE GoingBack
  <2>1. PICK b \in {0, 1} : Laid(b, n) /\ entryAt = home + n - b + 1
    BY <1>0, <1>3 DEF GoingBack
  <2>2. Head(travels) = "code" /\ Tail(travels) = <<>> /\ pendingClose # NoPending
    BY <1>3 DEF GoingBack
  <2>3. Target = home + n - b /\ Target \in DOMAIN walked
    <3>1. Target = entryAt - 1
      BY <2>2 DEF Target
    <3>2. b <= n /\ home + n - b <= Len(walked)
      BY <2>1 DEF Laid
    <3> QED BY <1>1, <2>1, <3>1, <3>2
  <2>4. /\ travels' = <<>> /\ entryAt' = home + n - b /\ home' = home /\ pendingClose' = NoPending
        /\ UNCHANGED <<walked, onScreen, closeEvents, modalToken, openDialogs, replaced, modalShows>>
    BY <2>2, <2>3 DEF PopState, counts
  <2>5. ModalTypes'
    BY <1>1, <2>1, <2>4 DEF ModalTypes, Laid
  <2>6. Laid(b, n)' /\ TokensApart(n)' /\ Shown(onScreen)' /\ Len(openDialogs)' = n
    BY <1>0, <1>3, <2>1, <2>4 DEF GoingBack, Laid, TokensApart, Shown
  <2>7. AtRest'
    BY <1>3, <2>4, <2>6 DEF AtRest, GoingBack
  <2> QED BY <2>5, <2>7 DEF ModalOrder
<1>4. CASE Closing \/ TakenOver
  BY <1>1, <1>4 DEF Closing, TakenOver
<1> QED BY <1>2, <1>3, <1>4 DEF ModalOrder

\* navigate over the only dialog: its entry becomes that of the page.
LEMMA NavigateOK ==
  ASSUME ModalTypes, AtRest, Quiet, Navigate, ~(Len(openDialogs) > 1)
  PROVE  ModalOrder'
<1>1. /\ openDialogs \in Seq(Modals) /\ home \in 1 .. Len(walked) /\ entryAt \in Nat
      /\ walked \in Seq(Nat) /\ Len(walked) \in Nat /\ Len(openDialogs) \in Nat
  BY LenProperties DEF ModalTypes
<1>2. Len(openDialogs) = 1 /\ Current = openDialogs[1]
  <2>1. Current # NoModal
    BY DEF Navigate
  <2>2. Len(openDialogs) # 0
    BY <2>1, RestCurrent
  <2>3. Len(openDialogs) = 1
    <3>1. PICK n \in Nat : n = Len(openDialogs)
      BY <1>1, Zenon
    <3>2. ~(n > 1) /\ n # 0
      BY <2>2, <3>1
    <3>3. n = 1
      BY <3>2
    <3> QED BY <3>1, <3>3
  <2> QED BY <2>3, RestCurrent
<1>3. PICK b \in {0, 1} : Laid(b, 1) /\ entryAt = home + 1 - b
  BY <1>2 DEF AtRest
<1>4. b = 0 /\ entryAt = home + 1 /\ entryAt \in 1 .. Len(walked)
  <2>1. CASE b = 1
    <3>1. entryAt = home
      BY <1>1, <1>3, <2>1
    <3>2. Marker = 0
      BY <1>1, <1>3, <3>1 DEF Marker, Laid
    <3> QED BY <3>2 DEF Navigate
  <2>2. CASE b = 0
    BY <1>1, <1>3, <2>2 DEF Laid
  <2> QED BY <2>1, <2>2
<1>5. /\ walked' \in Seq(Nat) /\ Len(walked') = Len(walked)
      /\ \A i \in 1 .. Len(walked) : walked'[i] = IF i = entryAt THEN 0 ELSE walked[i]
  BY <1>1, <1>4, ExceptSeq DEF Navigate
<1>6. /\ home' = entryAt /\ entryAt' = entryAt /\ pendingClose' = NoPending
      /\ UNCHANGED <<travels, onScreen, modalToken, openDialogs, replaced, closeEvents, modalShows>>
  BY DEF Navigate, counts
<1>7. ModalTypes'
  BY <1>1, <1>4, <1>5, <1>6 DEF ModalTypes
<1>8. Laid(1, 1)'
  <2>1. \A i \in 1 .. home' : walked'[i] = 0
    <3>1. \A i \in 1 .. home' : i \in 1 .. Len(walked) /\ (i = entryAt \/ i \in 1 .. home)
      BY <1>1, <1>4, <1>6
    <3> QED BY <1>3, <1>5, <1>6, <3>1 DEF Laid
  <2>2. home' + 1 - 1 <= Len(walked')
    BY <1>1, <1>4, <1>5, <1>6
  <2> QED BY <2>1, <2>2 DEF Laid
<1>9. AtRest'
  <2>1. TokensApart(1)' /\ Shown(onScreen)' /\ Len(openDialogs)' = 1
    BY <1>2, <1>6 DEF AtRest, TokensApart, Shown
  <2>2. entryAt' = home' + 1 - 1
    BY <1>1, <1>6
  <2>3. travels' = <<>> /\ closeEvents' = <<>> /\ replaced' = {}
    BY <1>6 DEF AtRest, Quiet
  <2> QED BY <1>6, <1>8, <2>1, <2>2, <2>3 DEF AtRest
<1> QED BY <1>7, <1>9 DEF ModalOrder

\* The user's step begins.
LEMMA UserWalksOK ==
  ASSUME NEW way \in {"back", "forward"}, ModalTypes, AtRest, Quiet, UserWalks(way),
         way = "forward" => onScreen = {}
  PROVE  ModalOrder'
<1>1. travels' = <<way>>
  <2>1. Append(<<>>, way) = <<way>>
    OBVIOUS
  <2> QED BY <2>1 DEF UserWalks, Quiet
<1>2. way = "forward" => openDialogs = <<>>
  <2> SUFFICES ASSUME way = "forward" PROVE openDialogs = <<>>
    OBVIOUS
  <2>1. openDialogs \in Seq(Modals) /\ Len(openDialogs) \in Nat
    BY LenProperties DEF ModalTypes
  <2>2. Len(openDialogs) = 0
    BY <2>1 DEF AtRest, Shown
  <2> QED BY <2>1, <2>2, EmptySeq
<1>3. UNCHANGED <<walked, entryAt, home, onScreen, modalToken, openDialogs, replaced,
                  pendingClose, closeEvents, modalShows>>
  BY DEF UserWalks
<1>4. ModalTypes'
  BY <1>3 DEF ModalTypes
<1>5. /\ \A n : TokensApart(n)' <=> TokensApart(n)
      /\ \A b, n : Laid(b, n)' <=> Laid(b, n)
      /\ \A ds : Shown(ds)' <=> Shown(ds)
  BY <1>3 DEF Laid, TokensApart, Shown
<1>6. travels' \in {<<>>, <<"back">>, <<"forward">>} /\ (travels' = <<"forward">> => way = "forward")
  BY <1>1
<1>7. AtRest'
  BY <1>2, <1>3, <1>5, <1>6 DEF AtRest
<1> QED BY <1>4, <1>7 DEF ModalOrder

LEMMA QuietIsRest ==
  ASSUME ModalOrder, Quiet
  PROVE  ModalTypes /\ AtRest
BY DEF ModalOrder, Quiet, Closing, TakenOver, GoingBack

\* A dialog closes by a script, a button, Escape or a swipe.
LEMMA ClosesOK ==
  ASSUME NEW d \in Modals, ModalOrder, d \in onScreen, ~CloseCrosses(d), Closes(d),
         pendingClose' \in {pendingClose, Marked(d)},
         UNCHANGED <<browser, modalToken, openDialogs, replaced, modalShows>>
  PROVE  ModalOrder'
<1>1. ModalTypes /\ AtRest /\ travels = <<>> /\ d = Current
  BY QuietIsRest DEF CloseCrosses, Quiet
<1>2. pendingClose = NoPending
  BY <1>1 DEF AtRest
<1>3. \/ pendingClose' = NoPending
      \/ Marker = modalToken[d] /\ pendingClose' = [dialog |-> d, token |-> modalToken[d]]
  BY <1>2 DEF Marked
<1> QED BY <1>1, <1>3, TopClosesOK

LEMMA SheetsOK ==
  ASSUME SheetsEnd, ModalNext
  PROVE  SheetsEnd'
<1>1. ASSUME NEW d \in Modals, NEW end \in {"settle", "dismiss"}, TransitionEnds(d, end)
      PROVE  SheetsEnd'
  <2>1. settling' = settling \ {d} /\ sheetDue' = sheetDue \ {<<d, end>>}
    BY <1>1 DEF TransitionEnds
  <2>2. \A e \in settling' : \A end2 : <<e, end2>> \in sheetDue => <<e, end2>> \in sheetDue'
    BY <2>1
  <2> QED BY <2>1, <2>2 DEF SheetsEnd
<1>2. CASE DragEnds
  <2>1. \/ UNCHANGED <<settling, sheetDue>>
        \/ \E end \in {"settle", "dismiss"} :
             settling' = settling \cup {sheetGesture} /\ sheetDue' = sheetDue \cup {<<sheetGesture, end>>}
    BY <1>2 DEF DragEnds
  <2> QED BY <2>1 DEF SheetsEnd
<1>3. CASE CloseEvent
  <2>1. settling' \subseteq settling /\ sheetDue' = sheetDue
    BY <1>3 DEF CloseEvent
  <2> QED BY <2>1 DEF SheetsEnd
<1>4. CASE UNCHANGED <<settling, sheetDue>>
  BY <1>4 DEF SheetsEnd
<1>5. ASSUME NEW d \in Modals,
             \/ ShowModal(d) \/ CloseByCode(d) \/ CloseByButton(d) \/ CloseByEscape(d)
             \/ CloseAndRestore(d) \/ BusyChanges(d) \/ DragStarts(d)
      PROVE  UNCHANGED <<settling, sheetDue>>
  BY <1>5 DEF ShowModal, CloseByCode, CloseByButton, CloseByEscape, CloseAndRestore, BusyChanges,
              DragStarts, sheets
<1>6. ASSUME \/ \E way \in {"back", "forward"} : UserWalks(way)
             \/ RestoreTimesOut \/ PopState \/ Navigate
      PROVE  UNCHANGED <<settling, sheetDue>>
  BY <1>6 DEF UserWalks, RestoreTimesOut, PopState, Navigate, sheets
<1> QED BY <1>1, <1>2, <1>3, <1>4, <1>5, <1>6 DEF ModalNext

\* What a step does to the order, when it does not cross.
LEMMA OrderOK ==
  ASSUME crossed \in BOOLEAN, crossed \/ ModalOrder, ModalNext
  PROVE  crossed' \in BOOLEAN /\ (crossed' \/ ModalOrder')
<1>1. ASSUME NEW d \in Modals, ShowModal(d)
      PROVE  crossed' \in BOOLEAN /\ (crossed' \/ ModalOrder')
  <2>1. crossed' = (crossed \/ ShowCrosses(d))
    BY <1>1 DEF ShowModal
  <2>2. CASE crossed \/ ShowCrosses(d)
    BY <2>1, <2>2
  <2>3. CASE ~crossed /\ ~ShowCrosses(d)
    BY <1>1, <2>1, <2>3, ShowModalOK
  <2> QED BY <2>2, <2>3
<1>2. ASSUME NEW d \in Modals, d \in onScreen, Closes(d), pendingClose' \in {pendingClose, Marked(d)},
             crossed' = (crossed \/ CloseCrosses(d)),
             UNCHANGED <<browser, modalToken, openDialogs, replaced, modalShows>>
      PROVE  crossed' \in BOOLEAN /\ (crossed' \/ ModalOrder')
  <2>1. CASE crossed \/ CloseCrosses(d)
    BY <1>2, <2>1
  <2>2. CASE ~crossed /\ ~CloseCrosses(d)
    BY <1>2, <2>2, ClosesOK
  <2> QED BY <2>1, <2>2
<1>3. ASSUME crossed' = crossed,
             UNCHANGED <<browser, onScreen, modalToken, openDialogs, replaced, pendingClose,
                         closeEvents, modalShows>>
      PROVE  crossed' \in BOOLEAN /\ (crossed' \/ ModalOrder')
  BY <1>3, OrderStays
<1>4. ASSUME NEW d \in Modals, CloseByCode(d) \/ CloseByButton(d) \/ CloseByEscape(d)
      PROVE  crossed' \in BOOLEAN /\ (crossed' \/ ModalOrder')
  BY <1>2, <1>4 DEF CloseByCode, CloseByButton, CloseByEscape, counts
<1>5. ASSUME NEW d \in Modals, CloseAndRestore(d)
      PROVE  crossed' \in BOOLEAN /\ (crossed' \/ ModalOrder')
  <2>1. CASE d \in busyModals
    BY <1>3, <1>5, <2>1 DEF CloseAndRestore, counts
  <2>2. CASE d \notin busyModals
    BY <1>2, <1>5, <2>2 DEF CloseAndRestore, counts
  <2> QED BY <2>1, <2>2
<1>6. ASSUME NEW d \in Modals, NEW end \in {"settle", "dismiss"}, TransitionEnds(d, end)
      PROVE  crossed' \in BOOLEAN /\ (crossed' \/ ModalOrder')
  <2>1. CASE end = "dismiss" /\ d \in onScreen \ busyModals
    BY <1>2, <1>6, <2>1 DEF TransitionEnds, counts
  <2>2. CASE ~(end = "dismiss" /\ d \in onScreen \ busyModals)
    BY <1>3, <1>6, <2>2 DEF TransitionEnds, counts
  <2> QED BY <2>1, <2>2
<1>7. ASSUME NEW d \in Modals, BusyChanges(d) \/ DragStarts(d)
      PROVE  crossed' \in BOOLEAN /\ (crossed' \/ ModalOrder')
  BY <1>3, <1>7 DEF BusyChanges, DragStarts, counts
<1>8. CASE DragEnds
  BY <1>3, <1>8 DEF DragEnds, counts
<1>9. ASSUME NEW way \in {"back", "forward"}, UserWalks(way)
      PROVE  crossed' \in BOOLEAN /\ (crossed' \/ ModalOrder')
  <2> DEFINE x == ~Quiet \/ (way = "forward" /\ onScreen # {})
  <2>1. crossed' = (crossed \/ x)
    BY <1>9, Zenon DEF UserWalks
  <2>2. CASE crossed \/ x
    BY <2>1, <2>2
  <2>3. CASE ~crossed /\ ~x
    BY <1>9, <2>1, <2>3, QuietIsRest, UserWalksOK
  <2> QED BY <2>2, <2>3
<1>10. CASE Navigate
  <2> DEFINE x == Len(openDialogs) > 1 \/ ~Quiet
  <2>1. crossed' = (crossed \/ x)
    BY <1>10, Zenon DEF Navigate
  <2>2. CASE crossed \/ x
    BY <2>1, <2>2
  <2>3. CASE ~crossed /\ ~x
    BY <1>10, <2>1, <2>3, QuietIsRest, NavigateOK
  <2> QED BY <2>2, <2>3
<1>11. CASE RestoreTimesOut
  BY <1>11 DEF RestoreTimesOut
<1>12. CASE CloseEvent
  BY <1>12, CloseEventOK DEF CloseEvent
<1>13. CASE PopState
  BY <1>13, PopStateOK DEF PopState
<1> QED BY <1>1, <1>4, <1>5, <1>6, <1>7, <1>8, <1>9, <1>10, <1>11, <1>12, <1>13 DEF ModalNext

LEMMA ModalStepOK ==
  ASSUME ModalIInv, [ModalNext]_modalVars
  PROVE  ModalIInv'
<1>1. CASE ModalNext
  BY <1>1, SheetsOK, OrderOK DEF ModalIInv
<1>2. CASE UNCHANGED modalVars
  <2>1. crossed' = crossed /\ SheetsEnd'
    BY <1>2 DEF modalVars, ModalIInv, SheetsEnd
  <2>2. ModalOrder => ModalOrder'
    BY <1>2, OrderStays DEF modalVars, browser
  <2> QED BY <2>1, <2>2 DEF ModalIInv
<1> QED BY <1>1, <1>2

\* The history fits the dialogs while the order holds.
LEMMA HistoryIsFit ==
  ASSUME ModalIInv
  PROVE  HistoryFits
<1>1. \A d \in settling : \E end \in {"settle", "dismiss"} : <<d, end>> \in sheetDue
  BY DEF ModalIInv, SheetsEnd
<1>2. ASSUME Quiet, ~crossed
      PROVE  /\ pendingClose = NoPending /\ ToSet(openDialogs) = onScreen
             /\ IF Current = NoModal THEN entryAt = home /\ Marker = 0
                ELSE Marker = modalToken[Current] \/ entryAt = home
  <2>1. ModalTypes /\ AtRest
    BY <1>2, QuietIsRest DEF ModalIInv
  <2>2. PICK n \in Nat : n = Len(openDialogs)
    <3>1. Len(openDialogs) \in Nat
      BY <2>1, LenProperties DEF ModalTypes
    <3> QED BY <3>1, Zenon
  <2>3. /\ openDialogs \in Seq(Modals) /\ home \in 1 .. Len(walked) /\ DOMAIN openDialogs = 1 .. n
        /\ Len(walked) \in Nat
    BY <2>1, <2>2, LenProperties DEF ModalTypes
  <2>4. ToSet(openDialogs) = onScreen
    BY <2>1, <2>2, <2>3 DEF AtRest, Shown, ToSet
  <2>5. PICK b \in {0, 1} : Laid(b, n) /\ entryAt = home + n - b
    BY <2>1, <2>2 DEF AtRest
  <2>6. CASE n = 0
    <3>1. entryAt = home /\ Current = NoModal
      BY <2>1, <2>2, <2>3, <2>5, <2>6, RestCurrent DEF Laid
    <3>2. Marker = 0
      BY <2>3, <2>5, <3>1 DEF Laid, Marker
    <3> QED BY <2>1, <2>4, <3>1, <3>2 DEF AtRest
  <2>7. CASE n # 0
    <3>1. Current = openDialogs[n] /\ Current # NoModal
      BY <2>1, <2>2, <2>3, <2>7, RestCurrent, ElementOfSeq, ModalAssumption
    <3>2. CASE n = b
      <4>1. entryAt = home
        BY <2>2, <2>3, <2>5, <3>2
      <4> QED BY <2>1, <2>4, <3>1, <4>1 DEF AtRest
    <3>3. CASE n # b
      <4>1. n \in b + 1 .. n
        BY <2>5, <3>3 DEF Laid
      <4>2. Marker = modalToken[Current]
        BY <2>5, <3>1, <4>1 DEF Laid, Marker
      <4> QED BY <2>1, <2>4, <3>1, <4>2 DEF AtRest
    <3> QED BY <3>2, <3>3
  <2> QED BY <2>6, <2>7
<1> QED BY <1>1, <1>2 DEF HistoryFits

\* Once every close and every step in the history is over, the history is as the page left
\* it (app/modal-ui.js, handleDialogClose and the popstate listener).
THEOREM HistoryFollowsDialogs == ModalSpec => []HistoryFits
<1>1. ModalInit => ModalIInv
  BY ModalInitOK
<1>2. ModalIInv /\ [ModalNext]_modalVars => ModalIInv'
  BY ModalStepOK
<1>3. ModalIInv => HistoryFits
  BY HistoryIsFit
<1> QED BY <1>1, <1>2, <1>3, PTL DEF ModalSpec
=============================================================================
