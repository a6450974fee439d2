----------------------------- MODULE TuiProofs ------------------------------
(***************************************************************************)
(* The plugins of the TUI: the goal line, the feed of limits and the       *)
(* programs it asks, the countdown to a retry, the dock, the recovery of a *)
(* location, the plan, and the views of a session.  For each an inductive  *)
(* invariant, its proof, and the part of TuiSound (MCClients) it implies.  *)
(***************************************************************************)
EXTENDS GoalLoop, LimitsFeed, PanelDock, LocationRecovery, PlanViews, SequenceTheorems,
        TLAPS

-----------------------------------------------------------------------------
(* The goal line of a client (GoalLoop, WatchSpec).  The watcher follows    *)
(* the route or nothing, and only the newest lookup is of the route.        *)

WatchTokens == [session : WatchSessions \cup {NoSession}, generation : Nat]
WatchIInv ==
  /\ route \in WatchSessions \cup {NoSession} /\ chosen \in Nat
  /\ lookups \subseteq WatchTokens /\ watched \in WatchTokens /\ flight \in WatchTokens
  /\ \A l \in lookups : l.generation <= chosen
  /\ \A l \in lookups : l.generation = chosen /\ ~stopped => l.session = route
  /\ watched.session \in {NoSession, route} /\ snapshotOf \in {NoSession, watched.session}
  /\ ~stopped /\ watched.session # NoSession => poll \/ flight # NoFlightOf

\* Nothing is watched at first.
LEMMA WatchInitOK == WatchInit => WatchIInv
BY DEF WatchInit, WatchIInv, WatchTokens, NoFlightOf

\* The watcher takes a session up: it shows nothing and reads, or is reading.
LEMMA SetSessionOK ==
  ASSUME WatchIInv, NEW s \in WatchSessions \cup {NoSession}, SetSession(s), ~stopped
  PROVE  /\ watched' \in WatchTokens /\ flight' \in WatchTokens /\ watched'.session = s
         /\ snapshotOf' \in {NoSession, watched'.session}
         /\ watched'.session # NoSession => poll' \/ flight' # NoFlightOf
<1>1. CASE s = watched.session
  BY <1>1 DEF SetSession, WatchIInv
<1>2. CASE s # watched.session
  <2> DEFINE next == [session |-> s, generation |-> watched.generation + 1]
  <2>1. next \in WatchTokens /\ next.session = s /\ (s # NoSession => next # NoFlightOf)
    BY DEF WatchIInv, WatchTokens, NoFlightOf
  <2>2. watched' = next /\ snapshotOf' = NoSession /\ ReadGoal(next)
    BY <1>2 DEF SetSession
  <2> HIDE DEF next
  <2>3. /\ flight' \in {flight, next, NoFlightOf}
        /\ s # NoSession => flight' # NoFlightOf
    BY <2>1, <2>2 DEF ReadGoal
  <2>4. NoFlightOf \in WatchTokens
    BY DEF NoFlightOf, WatchTokens
  <2> QED BY <2>1, <2>2, <2>3, <2>4 DEF WatchIInv
<1> QED BY <1>1, <1>2

\* The route changes: the lookups under way are of an older generation.
LEMMA WatchSelectOK ==
  ASSUME WatchIInv, NEW s \in WatchSessions \cup {NoSession}, WatchSelect(s)
  PROVE  WatchIInv'
<1> DEFINE l0 == [session |-> s, generation |-> chosen + 1]
<1>1. SetSession(NoSession) /\ ~stopped /\ stopped' = stopped /\ route' = s
  BY DEF WatchSelect
<1>2. chosen' = chosen + 1 /\ lookups' \subseteq lookups \cup {l0}
  BY DEF WatchSelect
<1>3. l0 \in WatchTokens /\ l0.generation = chosen + 1 /\ l0.session = s
  BY DEF WatchIInv, WatchTokens
<1>4. /\ watched' \in WatchTokens /\ flight' \in WatchTokens /\ watched'.session = NoSession
      /\ snapshotOf' \in {NoSession, watched'.session}
  BY <1>1, SetSessionOK
<1> HIDE DEF l0
<1>5. \A l \in lookups' : /\ l \in WatchTokens /\ l.generation <= chosen'
                          /\ l.generation = chosen' => l.session = route'
  <2> SUFFICES ASSUME NEW l \in lookups'
               PROVE  /\ l \in WatchTokens /\ l.generation <= chosen'
                      /\ l.generation = chosen' => l.session = route'
    OBVIOUS
  <2>1. CASE l = l0
    BY <1>1, <1>2, <1>3, <2>1 DEF WatchIInv
  <2>2. CASE l \in lookups
    <3>1. l.generation \in Nat /\ l.generation <= chosen /\ chosen \in Nat
      BY <2>2 DEF WatchIInv, WatchTokens
    <3> QED BY <1>2, <2>2, <3>1 DEF WatchIInv
  <2> QED BY <1>2, <2>1, <2>2
<1> QED BY <1>1, <1>2, <1>4, <1>5 DEF WatchIInv

\* An answer of the generation that is watched is about the route.
LEMMA WatchAnswerOK == WatchIInv /\ WatchAnswer => WatchIInv'
<1> SUFFICES ASSUME WatchIInv, WatchAnswer PROVE WatchIInv'
  OBVIOUS
<1>1. snapshotOf' \in {NoSession, watched.session}
  BY DEF WatchIInv, WatchAnswer
<1>2. NoFlightOf \in WatchTokens
  BY DEF NoFlightOf, WatchTokens
<1> QED BY <1>1, <1>2 DEF WatchIInv, WatchAnswer

\* The invariant is inductive.
LEMMA WatchStepOK == WatchIInv /\ [WatchNext]_watchVars => WatchIInv'
<1> SUFFICES ASSUME WatchIInv, [WatchNext]_watchVars PROVE WatchIInv'
  OBVIOUS
<1>1. ASSUME UNCHANGED watchVars PROVE WatchIInv'
  BY <1>1 DEF watchVars, WatchIInv
<1>2. ASSUME NEW l \in lookups, WatchLookup(l) PROVE WatchIInv'
  <2>1. UNCHANGED <<route, chosen, stopped>> /\ lookups' \subseteq lookups
    BY <1>2 DEF WatchLookup
  <2>2. CASE UNCHANGED <<watched, snapshotOf, flight, again, poll>>
    BY <2>1, <2>2 DEF WatchIInv
  <2>3. CASE l.generation = chosen /\ ~stopped /\ SetSession(l.session)
    <3>1. l.session = route /\ route \in WatchSessions \cup {NoSession}
      BY <2>3 DEF WatchIInv
    <3> QED BY <2>1, <2>3, <3>1, SetSessionOK DEF WatchIInv
  <2> QED BY <1>2, <2>2, <2>3 DEF WatchLookup
<1>3. ASSUME WatchRefresh PROVE WatchIInv'
  <2>1. /\ UNCHANGED <<route, lookups, chosen, watched, snapshotOf, stopped>> /\ ~stopped
        /\ flight' \in {flight, watched, NoFlightOf}
        /\ watched.session # NoSession => flight' # NoFlightOf
    BY <1>3 DEF WatchRefresh, ReadGoal, NoFlightOf
  <2>2. NoFlightOf \in WatchTokens
    BY DEF NoFlightOf, WatchTokens
  <2> QED BY <2>1, <2>2 DEF WatchIInv
<1>4. ASSUME WatchStop PROVE WatchIInv'
  <2>1. /\ watched' \in WatchTokens /\ watched'.session = watched.session
    BY <1>4 DEF WatchStop, WatchIInv, WatchTokens
  <2>2. \A l \in lookups : l.generation <= chosen + 1
    BY DEF WatchIInv, WatchTokens
  <2> QED BY <1>4, <2>1, <2>2 DEF WatchStop, WatchIInv
<1> QED BY <1>1, <1>2, <1>3, <1>4, WatchSelectOK, WatchAnswerOK DEF WatchNext

\* watchGoal never shows another session's goal than the open one's, for every
\* number of selections, and never leaves a watched session without a poll.
THEOREM LineFollowsRoute == WatchSpec => []ShownIsSelected
<1>1. WatchIInv => ShownIsSelected
  BY DEF WatchIInv, ShownIsSelected
<1> QED BY <1>1, WatchInitOK, WatchStepOK, PTL DEF WatchSpec

-----------------------------------------------------------------------------
(* The feed of limits (LimitsFeed, FeedSpec).  A refresh under way is the   *)
(* only one, and asks no provider that is in its backoff.                   *)

AskStages == [Providers -> {"asked", "again", "done"}]
BackoffRecs == [found : {"nothing", "usable", "setup", "error"}, closed : BOOLEAN]

FeedIInv ==
  /\ tickers \in {0, 1} /\ ticks \in Nat
  /\ refreshes \in Seq(AskStages) /\ Len(refreshes) <= 1
  /\ backoff \in [Providers -> BackoffRecs]
  /\ refreshTimer \in BOOLEAN /\ pending \in BOOLEAN
  /\ FeedSound

\* Refreshes are asked for one at a time.
LEMMA RequestOK ==
  ASSUME FeedIInv, NEW force \in BOOLEAN, RequestRefresh(force), UNCHANGED backoff
  PROVE  /\ refreshes' \in Seq(AskStages) /\ Len(refreshes') <= 1
         /\ pending' \in BOOLEAN /\ OneQuery'
<1>1. CASE UNCHANGED <<pending, refreshes>>
  BY <1>1 DEF FeedIInv, FeedSound, OneQuery
<1>2. CASE ~UNCHANGED <<pending, refreshes>>
  <2>1. /\ ~pending /\ pending' = TRUE /\ refreshes' = Append(refreshes, AskedNow)
    BY <1>2 DEF RequestRefresh, Joins
  <2>2. refreshes = <<>>
    BY <2>1 DEF FeedIInv, FeedSound, OneQuery
  <2>3. AskedNow \in AskStages
    BY DEF AskedNow, AskStages
  <2>4. /\ refreshes' = <<AskedNow>> /\ Len(refreshes') = 1 /\ DOMAIN refreshes' = {1}
        /\ refreshes'[1] = AskedNow /\ refreshes' # <<>> /\ refreshes' \in Seq(AskStages)
    BY <2>1, <2>2, <2>3
  <2>5. \A p \in Providers : AskedNow[p] # "done" => ~backoff[p].closed
    BY DEF AskedNow
  <2> QED BY <2>1, <2>4, <2>5 DEF OneQuery
<1> QED BY <1>1, <1>2

\* A refresh is answered by a provider, or its read failed.
LEMMA AnsweredOK ==
  ASSUME FeedIInv, NEW i \in DOMAIN refreshes, NEW p \in Providers,
         ReadFailed(i, p) \/ \E found \in {"usable", "setup", "error"} : ProviderAnswers(i, p, found)
  PROVE  FeedIInv'
<1>1. /\ i = 1 /\ Len(refreshes) = 1 /\ DOMAIN refreshes = {1} /\ refreshes[1] \in AskStages
  <2>1. refreshes \in Seq(AskStages) /\ Len(refreshes) <= 1 /\ Len(refreshes) \in Nat
    BY LenProperties DEF FeedIInv
  <2>2. DOMAIN refreshes = 1 .. Len(refreshes)
    BY <2>1, LenProperties
  <2>3. Len(refreshes) = 1 /\ i = 1
    BY <2>1, <2>2
  <2> QED BY <2>1, <2>2, <2>3, ElementOfSeq
<1>2. PICK end \in {"again", "done"} : /\ refreshes' = [refreshes EXCEPT ![i][p] = end]
                                       /\ end = "again" => refreshes[i][p] = "asked"
                                       /\ end = "again" => backoff' = backoff
  BY DEF ReadFailed, ProviderAnswers
<1>3. /\ backoff' \in [Providers -> BackoffRecs]
      /\ \A q \in Providers : q # p => backoff'[q] = backoff[q]
  <2>1. CASE backoff' = backoff
    BY <2>1 DEF FeedIInv
  <2>2. ASSUME NEW found \in {"usable", "setup", "error"}, ProviderAnswers(i, p, found)
        PROVE  <1>3!:
    <3>1. PICK closed \in BOOLEAN :
            backoff' = [backoff EXCEPT ![p] = [found |-> found, closed |-> closed]]
      BY <2>2 DEF ProviderAnswers
    <3>2. [found |-> found, closed |-> closed] \in BackoffRecs
      BY DEF BackoffRecs
    <3> QED BY <3>1, <3>2 DEF FeedIInv
  <2> QED BY <2>1, <2>2 DEF ReadFailed
<1>4. /\ refreshes' \in Seq(AskStages) /\ Len(refreshes') = 1 /\ DOMAIN refreshes' = {1}
      /\ refreshes'[1] = [refreshes[1] EXCEPT ![p] = end]
  <2>1. [refreshes[1] EXCEPT ![p] = end] \in AskStages
    BY <1>1 DEF AskStages
  <2>2. refreshes' = [refreshes EXCEPT ![1] = [refreshes[1] EXCEPT ![p] = end]]
    BY <1>1, <1>2
  <2>3. refreshes \in Seq(AskStages)
    BY DEF FeedIInv
  <2> HIDE DEF AskStages
  <2>4. 1 \in 1 .. Len(refreshes)
    BY <1>1
  <2> DEFINE e == [refreshes[1] EXCEPT ![p] = end]
  <2> HIDE DEF e
  <2>5. refreshes' \in Seq(AskStages)
    BY <2>1, <2>2, <2>3, <2>4, ExceptSeq DEF e
  <2>6. Len(refreshes') = 1 /\ refreshes'[1] = [refreshes[1] EXCEPT ![p] = end]
    BY <1>1, <2>1, <2>2, <2>3, ExceptSeq
  <2> QED BY <1>1, <2>2, <2>5, <2>6
<1>5. \A q \in Providers : refreshes'[1][q] # "done" => ~backoff'[q].closed
  <2>1. \A q \in Providers : refreshes[1][q] # "done" => ~backoff[q].closed
    BY <1>1 DEF FeedIInv, FeedSound, OneQuery
  <2>2. \A q \in Providers : refreshes'[1][q] = IF q = p THEN end ELSE refreshes[1][q]
    BY <1>1, <1>4 DEF AskStages
  <2>3. end = "again" => ~backoff'[p].closed
    BY <1>1, <1>2, <2>1
  <2> QED BY <1>3, <2>1, <2>2, <2>3
<1>6. /\ pending' = TRUE /\ UNCHANGED <<tickers, ticks, feedOwners, refreshTimer>>
      /\ refreshes' # <<>>
  <2>1. refreshes # <<>> /\ refreshes' # <<>>
    <3>1. DOMAIN <<>> = {}
      OBVIOUS
    <3> QED BY <1>1, <1>4, <3>1
  <2>2. pending = TRUE
    BY <2>1 DEF FeedIInv, FeedSound, OneQuery
  <2> QED BY <2>1, <2>2 DEF ReadFailed, ProviderAnswers
<1>7. OneQuery'
  BY <1>4, <1>5, <1>6 DEF OneQuery
<1>8. FeedOwned'
  BY <1>6 DEF FeedIInv, FeedSound, FeedOwned
<1> QED BY <1>3, <1>4, <1>6, <1>7, <1>8 DEF FeedIInv, FeedSound

\* The refresh is done: none is left.
LEMMA RefreshDoneOK ==
  ASSUME FeedIInv, NEW i \in DOMAIN refreshes, RefreshDone(i)
  PROVE  FeedIInv'
<1>1. refreshes \in Seq(AskStages) /\ Len(refreshes) <= 1 /\ Len(refreshes) \in Nat
  BY LenProperties DEF FeedIInv
<1>2. DOMAIN refreshes = 1 .. Len(refreshes)
  BY <1>1, LenProperties
<1>3. Len(refreshes) = 1
  BY <1>1, <1>2
<1>4. refreshes' = [j \in 1 .. 0 |-> IF j < i THEN refreshes[j] ELSE refreshes[j + 1]]
  BY <1>3 DEF RefreshDone
<1>5. refreshes' = <<>>
  BY <1>4
<1>6. pending' = FALSE /\ UNCHANGED <<tickers, ticks, feedOwners, refreshTimer, backoff>>
  BY DEF RefreshDone
<1>7. OneQuery'
  BY <1>5, <1>6 DEF OneQuery
<1>8. FeedOwned'
  BY <1>6 DEF FeedIInv, FeedSound, FeedOwned
<1>9. <<>> \in Seq(AskStages) /\ Len(<<>>) = 0
  BY EmptySeq
<1>10. refreshes' \in Seq(AskStages) /\ Len(refreshes') = 0
  BY <1>5, <1>9, Zenon
<1>11. Len(refreshes') <= 1
  BY <1>10
<1> QED BY <1>6, <1>7, <1>8, <1>10, <1>11 DEF FeedIInv, FeedSound

\* What concerns the refreshes and the backoff alone.
LEMMA QueriesStay ==
  ASSUME FeedIInv, UNCHANGED <<pending, refreshes, backoff>>
  PROVE  OneQuery'
BY DEF FeedIInv, FeedSound, OneQuery

\* A backoff that is over.
LEMMA BackoffOverOK ==
  ASSUME FeedIInv, NEW p \in Providers, BackoffOver(p)
  PROVE  FeedIInv'
<1>1. /\ backoff' = [backoff EXCEPT ![p].closed = FALSE]
      /\ UNCHANGED <<feedOwners, refreshTimer, tickers, ticks, pending, refreshes>>
  BY DEF BackoffOver
<1>2. backoff[p] \in BackoffRecs
  BY DEF FeedIInv
<1>3. [backoff[p] EXCEPT !.closed = FALSE] \in BackoffRecs
  BY <1>2 DEF BackoffRecs
<1>4. /\ backoff' \in [Providers -> BackoffRecs] /\ backoff'[p].closed = FALSE
      /\ \A q \in Providers : q # p => backoff'[q] = backoff[q]
  BY <1>1, <1>2, <1>3 DEF FeedIInv, BackoffRecs
<1>5. OneQuery'
  BY <1>1, <1>4 DEF FeedIInv, FeedSound, OneQuery
<1> QED BY <1>1, <1>4, <1>5 DEF FeedIInv, FeedSound, FeedOwned

\* The owners and the timers.
LEMMA AcquireOK ==
  ASSUME FeedIInv, NEW v \in LimitViews, Acquire(v)
  PROVE  FeedIInv'
<1>1. feedOwners' = feedOwners \cup {v} /\ UNCHANGED <<ticks, backoff>> /\ feedOwners' # {}
  BY DEF Acquire
<1>2. CASE feedOwners = {}
  <2>1. /\ refreshTimer' = TRUE /\ RequestRefresh(FALSE)
        /\ tickers' = IF MayTick(feedOwners') THEN tickers + 1 ELSE tickers
    BY <1>2 DEF Acquire
  <2>2. tickers = 0
    BY <1>2 DEF FeedIInv, FeedSound, FeedOwned
  <2>3. tickers' = 1
    BY <1>1, <2>1, <2>2 DEF MayTick
  <2>4. FeedOwned'
    BY <1>1, <2>1, <2>3 DEF FeedOwned
  <2> QED BY <1>1, <2>1, <2>3, <2>4, RequestOK DEF FeedIInv, FeedSound
<1>3. CASE feedOwners # {}
  <2>1. UNCHANGED <<refreshTimer, tickers, pending, refreshes>>
    BY <1>3 DEF Acquire
  <2>2. FeedOwned'
    BY <1>1, <1>3, <2>1 DEF FeedOwned, FeedIInv, FeedSound
  <2> QED BY <1>1, <2>1, <2>2, QueriesStay DEF FeedIInv, FeedSound
<1> QED BY <1>2, <1>3

\* A view lets the feed go; the last one stops its timer.
LEMMA ReleaseOK ==
  ASSUME FeedIInv, NEW v \in LimitViews, Release(v)
  PROVE  FeedIInv'
<1>1. /\ feedOwners' = feedOwners \ {v} /\ feedOwners # {}
      /\ UNCHANGED <<ticks, pending, refreshes, backoff>>
  BY DEF Release
<1>2. CASE feedOwners' = {}
  <2>1. refreshTimer' = FALSE /\ tickers' = IF tickers = 0 THEN 0 ELSE tickers - 1
    BY <1>2 DEF Release
  <2>2. tickers' = 0
    BY <2>1 DEF FeedIInv
  <2>3. FeedOwned'
    BY <1>2, <2>1, <2>2 DEF FeedOwned
  <2> QED BY <1>1, <2>1, <2>2, <2>3, QueriesStay DEF FeedIInv, FeedSound
<1>3. CASE feedOwners' # {}
  <2>1. UNCHANGED <<refreshTimer, tickers>>
    BY <1>3 DEF Release
  <2>2. FeedOwned'
    BY <1>1, <1>3, <2>1 DEF FeedOwned, FeedIInv, FeedSound
  <2> QED BY <1>1, <2>1, <2>2, QueriesStay DEF FeedIInv, FeedSound
<1> QED BY <1>2, <1>3

\* The clock of the feed.
LEMMA TicksOK ==
  ASSUME FeedIInv, TickFires \/ TickEnds
  PROVE  FeedIInv'
<1>1. UNCHANGED <<feedOwners, refreshTimer, pending, refreshes, backoff>>
  BY DEF TickFires, TickEnds
<1>2. CASE TickFires
  <2>1. tickers = 1 /\ feedOwners # {}
    BY <1>2 DEF TickFires, FeedIInv, FeedSound, FeedOwned
  <2>2. tickers' = 0 /\ ticks' = ticks + 1 /\ ticks' \in Nat /\ ticks' > 0
    BY <1>2, <2>1 DEF TickFires, FeedIInv
  <2>3. FeedOwned'
    BY <1>1, <2>1, <2>2 DEF FeedOwned, FeedIInv, FeedSound
  <2> QED BY <1>1, <2>2, <2>3, QueriesStay DEF FeedIInv, FeedSound
<1>3. CASE TickEnds
  <2>1. /\ ticks' = ticks - 1 /\ ticks' \in Nat
        /\ tickers' = IF feedOwners # {} /\ tickers = 0 THEN tickers + 1 ELSE tickers
    BY <1>3 DEF TickEnds, MayTick, FeedIInv
  <2>2. /\ tickers' \in {0, 1} /\ (feedOwners # {} => tickers' = 1)
        /\ (feedOwners = {} => tickers' = 0)
    BY <2>1 DEF FeedIInv, FeedSound, FeedOwned
  <2>3. FeedOwned'
    BY <1>1, <2>2 DEF FeedOwned, FeedIInv, FeedSound
  <2> QED BY <1>1, <2>1, <2>2, <2>3, QueriesStay DEF FeedIInv, FeedSound
<1> QED BY <1>2, <1>3

\* Nothing is asked at first.
LEMMA FeedInitOK == FeedInit => FeedIInv
<1> SUFFICES ASSUME FeedInit PROVE FeedIInv
  OBVIOUS
<1>1. backoff \in [Providers -> BackoffRecs]
  BY DEF FeedInit, Unasked, BackoffRecs
<1>2. FeedSound
  BY DEF FeedInit, FeedSound, FeedOwned, OneQuery
<1>3. <<>> \in Seq(AskStages) /\ Len(<<>>) = 0
  BY EmptySeq
<1>4. refreshes \in Seq(AskStages) /\ Len(refreshes) = 0
  BY <1>3, Zenon DEF FeedInit
<1>5. Len(refreshes) <= 1
  BY <1>4
<1> QED BY <1>1, <1>2, <1>4, <1>5 DEF FeedInit, FeedIInv

\* The invariant is inductive.
LEMMA FeedStepOK == FeedIInv /\ [FeedNext]_feedVars => FeedIInv'
<1>1. FeedIInv /\ UNCHANGED feedVars => FeedIInv'
  BY QueriesStay DEF feedVars, FeedIInv, FeedSound, FeedOwned
<1>2. FeedIInv /\ CacheAges => FeedIInv'
  BY QueriesStay DEF CacheAges, FeedIInv, FeedSound, FeedOwned
<1>3. ASSUME FeedIInv, (\E force \in BOOLEAN : AskForLimits(force)) \/ RefreshTimerFires
      PROVE  FeedIInv'
  <2>1. /\ \E force \in BOOLEAN : RequestRefresh(force)
        /\ UNCHANGED <<feedOwners, refreshTimer, tickers, ticks, backoff>>
    BY <1>3 DEF AskForLimits, RefreshTimerFires
  <2>2. FeedOwned'
    BY <1>3, <2>1 DEF FeedIInv, FeedSound, FeedOwned
  <2> QED BY <1>3, <2>1, <2>2, RequestOK DEF FeedIInv, FeedSound
<1> QED BY <1>1, <1>2, <1>3, AnsweredOK, RefreshDoneOK, BackoffOverOK, AcquireOK, ReleaseOK,
           TicksOK DEF FeedNext

\* The timers of the feed run exactly while a view owns it, and a provider is asked by
\* one refresh at a time, for every set of views and of providers.
THEOREM FeedsAreSound == FeedSpec => []FeedSound
<1>1. FeedIInv => FeedSound
  BY DEF FeedIInv
<1> QED BY <1>1, FeedInitOK, FeedStepOK, PTL DEF FeedSpec

-----------------------------------------------------------------------------
(* The countdown to a retry (LimitsFeed, CountdownSpec).  While only one    *)
(* instance has a countdown it is that of the newest retry.                 *)

CountdownIInv ==
  /\ clock \in Nat /\ newest \in Nat
  /\ limitFile \in [active : BOOLEAN, until : Nat]
  /\ countdowns \in [Instances -> Nat]
  /\ CountdownKept
  /\ ~crowded => \A i, j \in Instances : countdowns[i] # 0 /\ countdowns[j] # 0 => i = j
  /\ ~crowded /\ newest > clock => \A i \in Instances : countdowns[i] \in {0, newest}

\* What the page shows.
LEMMA PageStepsOK ==
  ASSUME CountdownIInv, WatchPolls \/ RunsChange \/ PagePolls \/ PollAnswered
  PROVE  CountdownIInv'
<1>1. UNCHANGED <<clock, limitFile, countdowns, newest, crowded>>
  BY DEF WatchPolls, RunsChange, PagePolls, PollAnswered
<1>2. pageShows' => chatsRun'
  BY DEF CountdownIInv, CountdownKept, WatchPolls, RunsChange, PagePolls, PollAnswered, PageCounts
<1> QED BY <1>1, <1>2 DEF CountdownIInv, CountdownKept

\* A retry that is in the future is written as live.
LEMMA WrittenOK ==
  ASSUME clock \in Nat, NEW until \in Nat
  PROVE  /\ Written(until) \in [active : BOOLEAN, until : Nat]
         /\ until > clock => Written(until) = [active |-> TRUE, until |-> until]
<1>1. CASE until > clock
  <2>1. Written(until) = [active |-> TRUE, until |-> until]
    BY <1>1 DEF Written
  <2> QED BY <2>1
<1>2. CASE ~(until > clock)
  <2>1. (until > clock) = FALSE
    BY <1>2
  <2>2. Written(until) = [active |-> FALSE, until |-> until]
    BY <2>1, Zenon DEF Written
  <2> QED BY <1>2, <2>2
<1> QED BY <1>1, <1>2

\* A retry is announced: its countdown replaces that of its instance.
LEMMA ScheduleRetryOK ==
  ASSUME CountdownIInv, NEW i \in Instances, NEW delay \in Nat, ScheduleRetry(i, delay)
  PROVE  CountdownIInv'
<1>1. /\ countdowns' = [countdowns EXCEPT ![i] = clock + delay]
      /\ limitFile' = Written(clock + delay) /\ newest' = clock + delay
      /\ crowded' = \E j \in Instances \ {i} : countdowns[j] # 0
      /\ UNCHANGED <<clock, pageShows, chatsRun>>
  BY DEF ScheduleRetry
<1>2. clock + delay \in Nat /\ clock \in Nat /\ countdowns \in [Instances -> Nat]
  BY DEF CountdownIInv
<1>3. /\ countdowns' \in [Instances -> Nat] /\ countdowns'[i] = clock + delay
      /\ \A j \in Instances : j # i => countdowns'[j] = countdowns[j]
  BY <1>1, <1>2
<1>4. /\ limitFile' \in [active : BOOLEAN, until : Nat]
      /\ newest' > clock => limitFile' = [active |-> TRUE, until |-> newest']
  BY <1>1, <1>2, WrittenOK
<1>5. ~crowded' => \A j \in Instances : j # i => countdowns'[j] = 0
  BY <1>1, <1>3
<1>6. CountdownKept'
  BY <1>1, <1>4 DEF CountdownIInv, CountdownKept
<1> QED BY <1>1, <1>2, <1>3, <1>4, <1>5, <1>6 DEF CountdownIInv

\* A countdown is drawn, and ended when its time is over.
LEMMA RenderOK ==
  ASSUME CountdownIInv, NEW i \in Instances, Render(i)
  PROVE  CountdownIInv'
<1>1. /\ countdowns[i] # 0 /\ limitFile' = Written(countdowns[i])
      /\ countdowns' = IF Live(i) THEN countdowns ELSE [countdowns EXCEPT ![i] = 0]
      /\ UNCHANGED <<clock, newest, crowded, pageShows, chatsRun>>
  BY DEF Render
<1>2. countdowns[i] \in Nat /\ clock \in Nat /\ countdowns \in [Instances -> Nat]
  BY DEF CountdownIInv
<1>3. /\ countdowns' \in [Instances -> Nat]
      /\ \A j \in Instances : countdowns'[j] \in {0, countdowns[j]}
  BY <1>1, <1>2
<1>4. limitFile' \in [active : BOOLEAN, until : Nat]
  BY <1>1, <1>2, WrittenOK
<1>5. newest > clock /\ ~crowded => limitFile' = [active |-> TRUE, until |-> newest]
  <2>1. newest > clock /\ ~crowded => countdowns[i] = newest
    BY <1>1 DEF CountdownIInv
  <2> QED BY <1>1, <1>2, <2>1, WrittenOK
<1>6. CountdownKept'
  BY <1>1, <1>5 DEF CountdownIInv, CountdownKept
<1> QED BY <1>1, <1>3, <1>4, <1>6 DEF CountdownIInv

\* An instance starts and takes the countdown of the file up.
LEMMA LoadOK ==
  ASSUME CountdownIInv, NEW i \in Instances, LoadInstance(i)
  PROVE  CountdownIInv'
<1>1. /\ countdowns' = [countdowns EXCEPT ![i] = Resumed(i)]
      /\ limitFile' = IF Resumed(i) # 0 THEN Written(Resumed(i))
                      ELSE IF limitFile.active THEN Inactive ELSE limitFile
      /\ crowded' = (crowded \/ \E j \in Instances \ {i} : countdowns[j] # 0)
      /\ UNCHANGED <<clock, newest, pageShows, chatsRun>>
  BY DEF LoadInstance
<1>2. /\ limitFile \in [active : BOOLEAN, until : Nat] /\ clock \in Nat
      /\ countdowns \in [Instances -> Nat]
  BY DEF CountdownIInv
<1>3. Resumed(i) \in Nat
  BY <1>2 DEF Resumed
<1>4. /\ countdowns' \in [Instances -> Nat] /\ countdowns'[i] = Resumed(i)
      /\ \A j \in Instances : j # i => countdowns'[j] = countdowns[j]
  BY <1>1, <1>2, <1>3
<1>5. limitFile' \in [active : BOOLEAN, until : Nat]
  BY <1>1, <1>2, <1>3, WrittenOK DEF Inactive
<1>6. newest > clock /\ ~crowded' =>
        Resumed(i) = newest /\ limitFile' = [active |-> TRUE, until |-> newest]
  <2> SUFFICES ASSUME newest > clock, ~crowded'
               PROVE  Resumed(i) = newest /\ limitFile' = [active |-> TRUE, until |-> newest]
    OBVIOUS
  <2>1. limitFile = [active |-> TRUE, until |-> newest] /\ newest \in Nat
    BY <1>1 DEF CountdownIInv, CountdownKept
  <2>2. Resumed(i) = newest
    BY <2>1 DEF Resumed
  <2>3. newest # 0
    BY <1>2, <2>1
  <2> QED BY <1>1, <1>2, <2>1, <2>2, <2>3, WrittenOK
<1>7. ~crowded' => \A j \in Instances : j # i => countdowns'[j] = 0
  BY <1>1, <1>4
<1>8. CountdownKept'
  BY <1>1, <1>6 DEF CountdownIInv, CountdownKept
<1>9. ~crowded' => \A j, k \in Instances : countdowns'[j] # 0 /\ countdowns'[k] # 0 => j = k
  BY <1>7
<1>10. ~crowded' /\ newest' > clock' => \A j \in Instances : countdowns'[j] \in {0, newest'}
  BY <1>1, <1>4, <1>6, <1>7
<1> QED BY <1>1, <1>4, <1>5, <1>8, <1>9, <1>10 DEF CountdownIInv

\* An instance ends, and its countdown with it.
LEMMA UnloadOK ==
  ASSUME CountdownIInv, NEW i \in Instances, UnloadInstance(i)
  PROVE  CountdownIInv'
<1>1. /\ countdowns' = [countdowns EXCEPT ![i] = 0]
      /\ limitFile' = IF limitFile.active /\ limitFile.until <= clock THEN Inactive ELSE limitFile
      /\ UNCHANGED <<clock, newest, crowded, pageShows, chatsRun>>
  BY DEF UnloadInstance
<1>2. /\ limitFile \in [active : BOOLEAN, until : Nat] /\ clock \in Nat /\ newest \in Nat
      /\ countdowns \in [Instances -> Nat]
  BY DEF CountdownIInv
<1>3. /\ countdowns' \in [Instances -> Nat]
      /\ \A j \in Instances : countdowns'[j] \in {0, countdowns[j]}
  BY <1>1, <1>2
<1>4. limitFile' \in [active : BOOLEAN, until : Nat]
  BY <1>1, <1>2 DEF Inactive
<1>5. newest > clock /\ ~crowded => limitFile' = [active |-> TRUE, until |-> newest]
  <2>1. newest > clock /\ ~crowded => limitFile = [active |-> TRUE, until |-> newest]
    BY DEF CountdownIInv, CountdownKept
  <2>2. newest > clock /\ ~crowded => ~(limitFile.until <= clock)
    BY <1>2, <2>1
  <2> QED BY <1>1, <2>1, <2>2
<1>6. CountdownKept'
  BY <1>1, <1>5 DEF CountdownIInv, CountdownKept
<1> QED BY <1>1, <1>2, <1>3, <1>4, <1>6 DEF CountdownIInv

\* No retry is scheduled at first.
LEMMA CountdownInitOK == CountdownInit => CountdownIInv
BY DEF CountdownInit, CountdownIInv, CountdownKept, Inactive

\* The invariant is inductive.
LEMMA CountdownStepOK == CountdownIInv /\ [CountdownNext]_countdownVars => CountdownIInv'
<1>1. CountdownIInv /\ UNCHANGED countdownVars => CountdownIInv'
  BY DEF countdownVars, CountdownIInv, CountdownKept
<1>2. CountdownIInv /\ SecondPasses => CountdownIInv'
  BY DEF SecondPasses, CountdownIInv, CountdownKept
<1>3. \A delay \in 1 .. MaxDelay : delay \in Nat
  OBVIOUS
<1> QED BY <1>1, <1>2, <1>3, PageStepsOK, ScheduleRetryOK, RenderOK, LoadOK, UnloadOK
        DEF CountdownNext

\* The newest scheduled retry stays on display while one instance has countdowns, for
\* every number of instances and every delay.
THEOREM CountdownsAreKept == CountdownSpec => []CountdownKept
<1>1. CountdownIInv => CountdownKept
  BY DEF CountdownIInv
<1> QED BY <1>1, CountdownInitOK, CountdownStepOK, PTL DEF CountdownSpec

-----------------------------------------------------------------------------
(* The dock of the workspace panel (PanelDock).  A box is padded only while *)
(* the dock rests on it.                                                    *)

ZoneRecs == [enabled : BOOLEAN, pinned : BOOLEAN, collapsed : BOOLEAN, size : Nat]

DockIInv ==
  /\ zones \in [Sides -> ZoneRecs]
  /\ hostFound \in Hosts \cup {NoHost} /\ dockTarget \in Hosts \cup {NoHost}
  /\ padding = [h \in Hosts |-> padding[h]]
  /\ DockIsExact

\* The room a zone takes is a number.
LEMMA ReservedOK ==
  ASSUME DockIInv
  PROVE  /\ Reserved = [side \in Sides |-> Reserved[side]]
         /\ \A side \in Sides : Reserved[side] \in Nat
<1>1. \A side \in Sides : zones[side] \in ZoneRecs
  BY DEF DockIInv
<1>2. ASSUME NEW side \in Sides PROVE Reserved[side] \in Nat
  <2>1. Extent(zones[side]) \in Nat
    BY <1>1 DEF Extent, ZoneRecs, Handle
  <2> QED BY <2>1 DEF Reserved
<1>3. Reserved = [side \in Sides |-> Reserved[side]]
  BY DEF Reserved
<1> QED BY <1>2, <1>3

\* A restored host keeps no padding of the dock.
LEMMA RestoredOK ==
  ASSUME DockIInv
  PROVE  RestoredHost = [h \in Hosts |-> Nothing]
<1>1. /\ baseline = Nothing /\ padding = [h \in Hosts |-> padding[h]] /\ dockTarget \in Hosts \cup {NoHost}
      /\ \A h \in Hosts \ {dockTarget} : padding[h] = Nothing
  BY DEF DockIInv, DockIsExact
<1> USE DockAssumption
<1>2. \A h \in Hosts : RestoredHost[h] = Nothing
  BY <1>1 DEF RestoredHost
<1>3. RestoredHost = [h \in Hosts |-> RestoredHost[h]]
  BY <1>1 DEF RestoredHost
<1> QED BY <1>2, <1>3

\* A layout pads the box it finds, with the room of the zones, and no other.
LEMMA LayOutOK ==
  ASSUME DockIInv, NEW armed \in BOOLEAN, ~dockDisposed, LayOut(armed)
  PROVE  DockIInv'
<1>1. /\ baseline = Nothing /\ padding = [h \in Hosts |-> padding[h]] /\ dockTarget \in Hosts \cup {NoHost}
      /\ \A h \in Hosts \ {dockTarget} : padding[h] = Nothing
  BY DEF DockIInv, DockIsExact
<1>2. /\ UNCHANGED <<zones, hostFound, mounted, dockDisposed>> /\ dockScheduled' = FALSE
      /\ Reserved' = Reserved
  BY DEF LayOut, Reserved
<1>3. CASE FoundHost = NoHost
  <2>1. padding' = [h \in Hosts |-> Nothing] /\ dockTarget' = NoHost /\ baseline' = Nothing
    BY <1>3, RestoredOK DEF LayOut, DropTarget
  <2>2. dockRetry'
    BY <1>3 DEF LayOut
  <2> QED BY <1>1, <1>2, <2>1, <2>2 DEF DockIInv, DockIsExact
<1>4. CASE FoundHost # NoHost
  <2>1. FoundHost \in Hosts
    BY <1>4 DEF FoundHost, DockIInv
  <2>2. /\ dockTarget' = FoundHost
        /\ baseline' = IF dockTarget = FoundHost THEN baseline ELSE padding[FoundHost]
        /\ padding' = [(IF dockTarget = FoundHost THEN padding ELSE RestoredHost) EXCEPT
                         ![FoundHost] = [side \in Sides |-> baseline'[side] + Reserved[side]]]
    BY <1>4 DEF LayOut
  <2>3. baseline' = Nothing
    BY <1>1, <2>1, <2>2
  <2>4. [side \in Sides |-> baseline'[side] + Reserved[side]] = Reserved
    <3>1. \A side \in Sides : baseline'[side] + Reserved[side] = Reserved[side]
      BY <2>3, ReservedOK DEF Nothing
    <3> QED BY <3>1, ReservedOK
  <2> DEFINE before == IF dockTarget = FoundHost THEN padding ELSE RestoredHost
  <2>5. before = [h \in Hosts |-> before[h]] /\ \A h \in Hosts \ {FoundHost} : before[h] = Nothing
    BY <1>1, RestoredOK
  <2>6. padding' = [before EXCEPT ![FoundHost] = Reserved]
    BY <2>2, <2>4
  <2> HIDE DEF before
  <2>7. /\ padding' = [h \in Hosts |-> padding'[h]] /\ padding'[FoundHost] = Reserved
        /\ \A h \in Hosts \ {FoundHost} : padding'[h] = Nothing
    BY <2>1, <2>5, <2>6
  <2> QED BY <1>2, <1>4, <2>1, <2>2, <2>3, <2>7, DockAssumption DEF DockIInv, DockIsExact
<1> QED BY <1>3, <1>4

\* The slot goes, or the plugin.
LEMMA DropOK ==
  ASSUME DockIInv, DropTarget, UNCHANGED <<zones, hostFound>>, mounted' = FALSE
  PROVE  DockIInv'
<1>1. padding' = [h \in Hosts |-> Nothing] /\ dockTarget' = NoHost /\ baseline' = Nothing
  BY RestoredOK DEF DropTarget
<1> QED BY <1>1 DEF DockIInv, DockIsExact

\* A zone is changed: the layout is asked for again.
LEMMA ZonesOK ==
  ASSUME DockIInv, NEW changed \in [Sides -> ZoneRecs], ChangeZones(changed)
  PROVE  DockIInv'
BY DEF DockIInv, DockIsExact, ChangeZones

\* A zone is replaced by another state of the same zone.
LEMMA MutateOK ==
  ASSUME DockIInv, NEW side \in Sides, NEW zone \in ZoneRecs, MutateZone(side, zone)
  PROVE  DockIInv'
<1>1. [zones EXCEPT ![side] = zone] \in [Sides -> ZoneRecs]
  BY DEF DockIInv
<1> QED BY <1>1, ZonesOK DEF MutateZone

\* What the user does with a zone.
LEMMA ZoneChangesOK ==
  ASSUME DockIInv, NEW side \in Sides, NEW on \in BOOLEAN,
         \/ ShowZone(side) \/ DisableZone(side) \/ AdjustSize(side)
         \/ SetPinned(side, on) \/ SetCollapsed(side, on)
  PROVE  DockIInv'
<1> DEFINE z == zones[side]
<1>1. z \in ZoneRecs
  BY DEF DockIInv
<1>2. /\ [z EXCEPT !.enabled = TRUE, !.collapsed = FALSE] \in ZoneRecs
      /\ [z EXCEPT !.enabled = FALSE, !.collapsed = FALSE] \in ZoneRecs
      /\ [z EXCEPT !.enabled = TRUE, !.pinned = on] \in ZoneRecs
      /\ [z EXCEPT !.enabled = TRUE, !.collapsed = on] \in ZoneRecs
      /\ \A size \in Nat : [z EXCEPT !.size = size] \in ZoneRecs
  BY <1>1 DEF ZoneRecs
<1>3. CASE AdjustSize(side)
  <2>1. PICK size \in MinSize .. MaxSize : MutateZone(side, [z EXCEPT !.size = size])
    BY <1>3 DEF AdjustSize
  <2>2. size \in Nat
    BY <2>1, DockAssumption
  <2> QED BY <1>2, <2>1, <2>2, MutateOK
<1>4. CASE ShowZone(side)
  BY <1>2, <1>4, MutateOK DEF ShowZone
<1>5. CASE DisableZone(side)
  BY <1>2, <1>5, MutateOK DEF DisableZone
<1>6. CASE SetPinned(side, on)
  BY <1>2, <1>6, MutateOK DEF SetPinned
<1>7. CASE SetCollapsed(side, on)
  BY <1>2, <1>7, MutateOK DEF SetCollapsed
<1> QED BY <1>3, <1>4, <1>5, <1>6, <1>7

\* A zone that was not changed.
LEMMA FreshOK == FreshZone \in ZoneRecs /\ [side \in Sides |-> FreshZone] \in [Sides -> ZoneRecs]
BY DockAssumption DEF FreshZone, ZoneRecs

\* No box is padded at first.
LEMMA DockInitOK == DockInit => DockIInv
<1> SUFFICES ASSUME DockInit PROVE DockIInv
  OBVIOUS
<1>1. PICK side \in Sides, pinned \in BOOLEAN :
        zones = [s \in Sides |-> IF s = side
                                 THEN [FreshZone EXCEPT !.enabled = TRUE, !.pinned = pinned]
                                 ELSE FreshZone]
  BY DEF DockInit
<1>2. [FreshZone EXCEPT !.enabled = TRUE, !.pinned = pinned] \in ZoneRecs
  BY FreshOK DEF ZoneRecs
<1>3. zones \in [Sides -> ZoneRecs]
  BY <1>1, <1>2, FreshOK
<1>4. DockIsExact
  BY DEF DockInit, DockIsExact
<1> QED BY <1>3, <1>4 DEF DockInit, DockIInv

\* The invariant is inductive.
LEMMA DockStepOK == DockIInv /\ [DockNext]_dockVars => DockIInv'
<1>1. ASSUME DockIInv, UNCHANGED dockVars PROVE DockIInv'
  <2>1. Reserved' = Reserved
    BY <1>1 DEF dockVars, Reserved
  <2> QED BY <1>1, <2>1 DEF dockVars, DockIInv, DockIsExact
<1>2. ASSUME DockIInv, SyncDockLayout PROVE DockIInv'
  <2>1. LayOut(dockRetry) /\ ~dockDisposed
    BY <1>2 DEF SyncDockLayout
  <2>2. LayOut(TRUE) \/ LayOut(FALSE)
    BY <2>1 DEF LayOut
  <2> QED BY <1>2, <2>1, <2>2, LayOutOK
<1>3. DockIInv /\ DockRetryFires => DockIInv'
  BY LayOutOK DEF DockRetryFires
<1>4. DockIInv /\ ResetZones => DockIInv'
  BY ZonesOK, FreshOK DEF ResetZones
<1>5. ASSUME DockIInv, NEW h \in Hosts \cup {NoHost}, HostChanges(h) PROVE DockIInv'
  <2>1. Reserved' = Reserved
    BY <1>5 DEF HostChanges, Reserved
  <2> QED BY <1>5, <2>1 DEF HostChanges, DockIInv, DockIsExact
<1>6. DockIInv /\ MountSlot => DockIInv'
  BY DEF DockIInv, DockIsExact, MountSlot
<1>7. DockIInv /\ (UnmountSlot \/ DisposeDock) => DockIInv'
  BY DropOK DEF UnmountSlot, DisposeDock
<1> QED BY <1>1, <1>2, <1>3, <1>4, <1>5, <1>6, <1>7, ZoneChangesOK DEF DockNext

\* Only the box the dock rests on is padded, and with the room of the zones,
\* for every set of sides and of boxes the host may show.
THEOREM DocksAreExact == DockSpec => []DockIsExact
<1>1. DockIInv => DockIsExact
  BY DEF DockIInv
<1> QED BY <1>1, DockInitOK, DockStepOK, PTL DEF DockSpec

-----------------------------------------------------------------------------
(* The recovery of a location (LocationRecovery).  The active run is of the *)
(* location on screen, and a banner is about it.                            *)

RunStages == {"none", "first", "wait", "check", "exhausted", "done"}
RecoveryRuns == [place : Locations \cup {NoPlace}, attempt : 0 .. MaxRechecks, stage : RunStages]

RunsKept ==
  /\ at \in Locations \cup {NoPlace} /\ disposed \in BOOLEAN
  /\ active \in 0 .. MaxRuns /\ started \in 0 .. MaxRuns /\ active <= started
  /\ runs \in [1 .. MaxRuns -> RecoveryRuns]
  /\ \A n \in 1 .. MaxRuns : n > started => runs[n].stage = "none"
  /\ \A n \in 1 .. MaxRuns : runs[n].stage = "wait" => n = active
  /\ active # 0 =>
       /\ ~disposed /\ runs[active].place = at
       /\ runs[active].stage \in {"first", "wait", "check", "exhausted"}

BannerKept ==
  banner # NoBanner =>
    /\ active # 0 /\ banner.place = at /\ banner.attempt = runs[active].attempt
    /\ banner.checking <=> runs[active].stage = "check"
    /\ banner.exhausted <=> runs[active].stage = "exhausted"

LocationIInv == RunsKept /\ BannerKept

\* No run at first.
LEMMA LocationInitOK == LocationInit => LocationIInv
<1> SUFFICES ASSUME LocationInit PROVE LocationIInv
  OBVIOUS
<1>1. NoRecheck \in RecoveryRuns /\ NoRecheck.stage = "none" /\ 0 \in 0 .. MaxRuns
  BY LocationAssumption DEF RecoveryRuns, RunStages, NoRecheck
<1>2. RunsKept
  <2>1. runs \in [1 .. MaxRuns -> RecoveryRuns] /\ \A n \in 1 .. MaxRuns : runs[n] = NoRecheck
    BY <1>1 DEF LocationInit
  <2>2. at \in Locations \cup {NoPlace} /\ disposed \in BOOLEAN /\ active = 0 /\ started = 0
    BY DEF LocationInit
  <2> QED BY <1>1, <2>1, <2>2 DEF RunsKept
<1>3. BannerKept
  BY DEF LocationInit, BannerKept
<1> QED BY <1>2, <1>3 DEF LocationIInv

\* Waking the active run leaves no run waiting.
LEMMA WokenOK ==
  ASSUME RunsKept
  PROVE  /\ Woken(runs, active) \in [1 .. MaxRuns -> RecoveryRuns]
         /\ \A n \in 1 .. MaxRuns :
              /\ Woken(runs, active)[n].stage # "wait"
              /\ n > started => Woken(runs, active)[n].stage = "none"
<1>1. CASE active # 0 /\ runs[active].stage = "wait"
  <2>1. active \in 1 .. MaxRuns /\ active <= started
    BY <1>1 DEF RunsKept
  <2>2. Woken(runs, active) = [runs EXCEPT ![active].stage = "done"]
    BY <1>1 DEF Woken
  <2> QED BY <2>1, <2>2 DEF RunsKept, RecoveryRuns, RunStages
<1>2. CASE ~(active # 0 /\ runs[active].stage = "wait")
  <2>1. Woken(runs, active) = runs
    BY <1>2 DEF Woken
  <2> QED BY <1>2, <2>1 DEF RunsKept
<1> QED BY <1>1, <1>2

\* The active run is dropped.
LEMMA CancelOK ==
  ASSUME RunsKept, Cancel, at' \in Locations \cup {NoPlace}, disposed' \in BOOLEAN,
         started' = started
  PROVE  LocationIInv'
<1>1. 0 \in 0 .. MaxRuns
  BY LocationAssumption
<1> QED BY <1>1, WokenOK DEF Cancel, LocationIInv, RunsKept, BannerKept

\* A sync starts the next run.
LEMMA SyncLocationOK == LocationIInv /\ SyncLocation => LocationIInv'
<1> SUFFICES ASSUME LocationIInv, SyncLocation PROVE LocationIInv'
  OBVIOUS
<1> DEFINE m == started + 1
           r == [place |-> at, stage |-> "first", attempt |-> 0]
<1>1. /\ m \in 1 .. MaxRuns /\ started' = m /\ active' = m /\ banner' = NoBanner
      /\ UNCHANGED <<at, disposed>> /\ ~disposed
      /\ runs' = [Woken(runs, active) EXCEPT ![m] = r]
  BY LocationAssumption DEF SyncLocation, LocationIInv, RunsKept
<1>2. r \in RecoveryRuns
  BY LocationAssumption DEF RecoveryRuns, RunStages, LocationIInv, RunsKept
<1>3. m > started /\ \A n \in 1 .. MaxRuns : n > m => n > started
  BY DEF LocationIInv, RunsKept
<1>4. r.place = at /\ r.stage = "first"
  OBVIOUS
<1>5. runs' \in [1 .. MaxRuns -> RecoveryRuns] /\ runs'[m] = r
  BY <1>1, <1>2, WokenOK DEF LocationIInv
<1>6. \A n \in 1 .. MaxRuns : n # m => runs'[n] = Woken(runs, active)[n]
  BY <1>1, WokenOK DEF LocationIInv
<1> HIDE DEF m, r
<1>7. RunsKept'
  BY <1>1, <1>3, <1>4, <1>5, <1>6, WokenOK DEF LocationIInv, RunsKept
<1> QED BY <1>1, <1>7 DEF LocationIInv, BannerKept

\* A run that ends, or goes on while it is live, moves the banner with it.
LEMMA RunGoesOn ==
  ASSUME LocationIInv, NEW n \in 1 .. MaxRuns, NEW next \in RunStages,
         NEW attempt \in 0 .. MaxRechecks,
         NEW checking \in BOOLEAN, NEW exhausted \in BOOLEAN, runs[n].stage # "none",
         runs' = [runs EXCEPT ![n] = [place |-> runs[n].place, attempt |-> attempt,
                                      stage |-> next]],
         UNCHANGED <<at, started, disposed>>,
         \/ /\ active = n /\ active' = 0 /\ banner' = NoBanner /\ next = "done"
         \/ /\ active # n /\ active' = active /\ banner' = banner /\ next = "done"
         \/ /\ active = n /\ active' = n
            /\ next \in {"wait", "check", "exhausted"}
            /\ banner' = [place |-> runs[n].place, attempt |-> attempt,
                          checking |-> checking, exhausted |-> exhausted]
            /\ (checking <=> next = "check") /\ (exhausted <=> next = "exhausted")
  PROVE  LocationIInv'
<1>1. /\ runs' \in [1 .. MaxRuns -> RecoveryRuns]
      /\ runs'[n].place = runs[n].place /\ runs'[n].attempt = attempt /\ runs'[n].stage = next
      /\ \A i \in 1 .. MaxRuns : i # n => runs'[i] = runs[i]
  BY DEF LocationIInv, RunsKept, RecoveryRuns
<1>2. n <= started /\ 0 \in 0 .. MaxRuns
  BY LocationAssumption DEF LocationIInv, RunsKept
<1>3. RunsKept'
  BY <1>1, <1>2 DEF LocationIInv, RunsKept
<1>4. BannerKept'
  BY <1>1 DEF LocationIInv, RunsKept, BannerKept
<1> QED BY <1>3, <1>4 DEF LocationIInv

\* The steps of run n.
LEMMA RunStepOK ==
  ASSUME LocationIInv, NEW n \in 1 .. MaxRuns, LocationSynced(n) \/ SyncFails(n) \/ Recheck(n)
  PROVE  LocationIInv'
<1>1. /\ runs[n] = [place |-> runs[n].place, attempt |-> runs[n].attempt, stage |-> runs[n].stage]
      /\ runs[n].attempt \in 0 .. MaxRechecks /\ MaxRechecks \in Nat
  BY LocationAssumption DEF LocationIInv, RunsKept, RecoveryRuns
<1>11. runs[n].stage # "none"
  BY DEF LocationSynced, SyncFails, Recheck
<1>2. UNCHANGED <<at, started, disposed>>
  BY DEF LocationSynced, SyncFails, Recheck
<1> DEFINE Goes(attempt, next) ==
             runs' = [runs EXCEPT ![n] = [place |-> runs[n].place, attempt |-> attempt,
                                          stage |-> next]]
<1>3. runs \in [1 .. MaxRuns -> RecoveryRuns]
  BY DEF LocationIInv, RunsKept
<1>4. \A next \in RunStages :
        runs' = [runs EXCEPT ![n].stage = next] => Goes(runs[n].attempt, next)
  BY <1>1, <1>3 DEF RecoveryRuns
<1>5. runs' = [runs EXCEPT ![n].stage = "wait", ![n].attempt = @ + 1]
        => Goes(runs[n].attempt + 1, "wait")
  BY <1>1, <1>3 DEF RecoveryRuns
<1> HIDE DEF Goes
<1>6. CASE /\ runs' = [runs EXCEPT ![n].stage = "done"]
           /\ \/ active = n /\ active' = 0 /\ banner' = NoBanner
              \/ active # n /\ UNCHANGED <<active, banner>>
  <2>1. Goes(runs[n].attempt, "done") /\ "done" \in RunStages
    BY <1>4, <1>6 DEF RunStages
  <2> QED BY <1>1, <1>2, <1>6, <1>11, <2>1, RunGoesOn DEF Goes
<1>7. CASE /\ LiveRun(n) /\ runs[n].attempt < MaxRechecks
           /\ runs' = [runs EXCEPT ![n].stage = "wait", ![n].attempt = @ + 1]
           /\ banner' = Banner(n, runs[n].attempt + 1, FALSE, FALSE) /\ UNCHANGED active
  <2>1. /\ Goes(runs[n].attempt + 1, "wait") /\ "wait" \in RunStages
        /\ active = n /\ active' = n /\ runs[n].attempt + 1 \in 0 .. MaxRechecks
    BY <1>1, <1>5, <1>7 DEF RunStages, LiveRun
  <2>2. banner' = [place |-> runs[n].place, attempt |-> runs[n].attempt + 1,
                   checking |-> FALSE, exhausted |-> FALSE]
    BY <1>7 DEF Banner
  <2> QED BY <1>1, <1>2, <1>11, <2>1, <2>2, RunGoesOn DEF Goes
<1>8. CASE /\ LiveRun(n) /\ runs' = [runs EXCEPT ![n].stage = "exhausted"]
           /\ runs[n].attempt = MaxRechecks
           /\ banner' = Banner(n, MaxRechecks, FALSE, TRUE) /\ UNCHANGED active
  <2>1. Goes(runs[n].attempt, "exhausted") /\ "exhausted" \in RunStages /\ active = n /\ active' = n
    BY <1>4, <1>8 DEF RunStages, LiveRun
  <2>2. banner' = [place |-> runs[n].place, attempt |-> runs[n].attempt,
                   checking |-> FALSE, exhausted |-> TRUE]
    BY <1>8 DEF Banner
  <2> QED BY <1>1, <1>2, <1>11, <2>1, <2>2, RunGoesOn DEF Goes
<1>9. CASE /\ LiveRun(n) /\ runs' = [runs EXCEPT ![n].stage = "check"]
           /\ banner' = Banner(n, runs[n].attempt, TRUE, FALSE) /\ UNCHANGED active
  <2>1. Goes(runs[n].attempt, "check") /\ "check" \in RunStages /\ active = n /\ active' = n
    BY <1>4, <1>9 DEF RunStages, LiveRun
  <2>2. banner' = [place |-> runs[n].place, attempt |-> runs[n].attempt,
                   checking |-> TRUE, exhausted |-> FALSE]
    BY <1>9 DEF Banner
  <2> QED BY <1>1, <1>2, <1>11, <2>1, <2>2, RunGoesOn DEF Goes
<1>10. runs[n].attempt < MaxRechecks \/ runs[n].attempt = MaxRechecks
  BY <1>1
<1> QED BY <1>6, <1>7, <1>8, <1>9, <1>10 DEF LocationSynced, SyncFails, Recheck

\* The session on screen changes, or the plugin is disposed.
LEMMA ScreenOK ==
  ASSUME LocationIInv, \/ AskDirectory \/ Dispose
                       \/ \E p \in Locations \cup {NoPlace} : GoTo(p) \/ DirectoryGiven(p)
  PROVE  LocationIInv'
<1>1. CASE Cancel /\ UNCHANGED started /\ at' \in Locations \cup {NoPlace} /\ disposed' \in BOOLEAN
  BY <1>1, CancelOK DEF LocationIInv
<1>2. CASE /\ UNCHANGED <<active, banner, runs, started>> /\ at' \in Locations \cup {NoPlace}
           /\ disposed' \in BOOLEAN /\ (active # 0 => at' = at /\ disposed' = disposed)
  <2>1. active = 0 => banner = NoBanner
    BY DEF LocationIInv, BannerKept
  <2> QED BY <1>2, <2>1 DEF LocationIInv, RunsKept, BannerKept
<1>3. \A p \in Locations \cup {NoPlace} : AtPlace(p) =>
        \/ Cancel /\ at' = p
        \/ UNCHANGED <<active, banner, runs>> /\ at' = p /\ (active # 0 => at' = at)
  BY DEF AtPlace, LocationIInv, RunsKept
<1>4. at \in Locations \cup {NoPlace} /\ disposed \in BOOLEAN
  BY DEF LocationIInv, RunsKept
<1> QED BY <1>1, <1>2, <1>3, <1>4 DEF AskDirectory, Dispose, GoTo, DirectoryGiven

\* The invariant is inductive.
LEMMA LocationStepOK == LocationIInv /\ [LocationNext]_locationVars => LocationIInv'
<1>1. LocationIInv /\ UNCHANGED locationVars => LocationIInv'
  BY DEF locationVars, LocationIInv, RunsKept, BannerKept
<1> QED BY <1>1, SyncLocationOK, RunStepOK, ScreenOK DEF LocationNext

\* The banner is about the location on screen and about the active run, and no run
\* that was dropped waits to check again, for every number of runs and checks.
THEOREM BannersAreLive == LocationSpec => []BannerIsLive
<1>1. LocationIInv => BannerIsLive
  BY DEF LocationIInv, RunsKept, BannerKept, BannerIsLive
<1> QED BY <1>1, LocationInitOK, LocationStepOK, PTL DEF LocationSpec

-----------------------------------------------------------------------------
(* The plan before the work (PlanViews, PlanSpec).  A kept turn that is     *)
(* planned was outlined in a step that was not before its key.              *)

AskRecs == [turn : Nat, agent : Askers \cup {"build"}, users : Nat]
StepRecs == [turn : Nat, agent : Askers \cup {"build", "none"}, key : Nat]
KeptRecs == [chat : PlanChats, key : Nat, planned : BOOLEAN, gated : BOOLEAN]

\* What is kept of a session fits its step and the turns outlined so far.
KeptFits(t, step, done) ==
  /\ t.planned = TRUE => done # {} /\ (t.key > 0 => \E turn \in done : turn >= t.key)
  /\ step.agent \in PlanAgents =>
       /\ t.gated = TRUE => t.key = step.key
       /\ t.key \in {0, step.key}
StepFits(ask, step, done) ==
  /\ ask.users <= ask.turn /\ step.turn <= ask.turn /\ step.key <= step.turn
  /\ done \subseteq Nat /\ \A turn \in done : turn <= step.turn

PlanIInv ==
  /\ planAsk \in [PlanChats -> AskRecs] /\ planStep \in [PlanChats -> StepRecs]
  /\ outlined \in [PlanChats -> SUBSET Nat] /\ planTurns \in Seq(KeptRecs)
  /\ \A s \in PlanChats : StepFits(planAsk[s], planStep[s], outlined[s])
  /\ \A i \in 1..Len(planTurns) :
       KeptFits(planTurns[i], planStep[planTurns[i].chat], outlined[planTurns[i].chat])
  /\ \A u \in unplanned : u.excused = TRUE

\* The first state.
LEMMA PlanInitOK ==
  ASSUME PlanInit
  PROVE  PlanIInv
<1>1. /\ [turn |-> 0, agent |-> "build", users |-> 0] \in AskRecs /\ NoStep \in StepRecs
      /\ NoStep.turn = 0 /\ NoStep.key = 0
  BY DEF AskRecs, StepRecs, NoStep
<1>2. /\ planAsk \in [PlanChats -> AskRecs] /\ planStep \in [PlanChats -> StepRecs]
      /\ outlined \in [PlanChats -> SUBSET Nat] /\ planTurns = <<>> /\ unplanned = {}
  BY <1>1 DEF PlanInit
<1>3. \A s \in PlanChats : StepFits(planAsk[s], planStep[s], outlined[s])
  BY <1>1 DEF PlanInit, StepFits
<1>. QED
  BY <1>2, <1>3, EmptySeq DEF PlanIInv

\* The kept turns of a session are entries of the list.
LEMMA KeptTurnsAre ==
  ASSUME PlanIInv, NEW s \in PlanChats, NEW t \in KeptTurns(s)
  PROVE  t \in KeptRecs /\ t.chat = s /\ KeptFits(t, planStep[s], outlined[s])
<1>1. PICK i \in DOMAIN planTurns : t = planTurns[i] /\ t.chat = s
  BY DEF KeptTurns
<1>2. planTurns \in Seq(KeptRecs) /\ i \in 1..Len(planTurns)
  BY <1>1, LenProperties DEF PlanIInv
<1>3. planTurns[i] \in KeptRecs
  BY <1>2, ElementOfSeq
<1>. QED
  BY <1>1, <1>2, <1>3 DEF PlanIInv

\* After an entry is set, the list has it and entries of other sessions.
LEMMA TurnSetIs ==
  ASSUME planTurns \in Seq(KeptRecs), NEW t \in KeptRecs
  PROVE  /\ TurnSet(t) \in Seq(KeptRecs)
         /\ \A i \in 1..Len(TurnSet(t)) :
              \/ TurnSet(t)[i] = t
              \/ /\ TurnSet(t)[i].chat # t.chat
                 /\ i \in 1..Len(planTurns) /\ TurnSet(t)[i] = planTurns[i]
<1>1. /\ Len(planTurns) \in Nat /\ DOMAIN planTurns = 1..Len(planTurns)
      /\ \A i \in 1..Len(planTurns) : planTurns[i] \in KeptRecs
  BY LenProperties, ElementOfSeq
<1>2. CASE KeptTurns(t.chat) = {}
  <2>1. TurnSet(t) = Append(planTurns, t)
    BY <1>2 DEF TurnSet
  <2>2. /\ TurnSet(t) \in Seq(KeptRecs) /\ Len(TurnSet(t)) = Len(planTurns) + 1
        /\ TurnSet(t)[Len(planTurns) + 1] = t
        /\ \A i \in 1..Len(planTurns) : TurnSet(t)[i] = planTurns[i]
    BY <2>1, AppendProperties
  <2>3. \A i \in 1..Len(planTurns) : planTurns[i].chat # t.chat
    BY <1>1, <1>2 DEF KeptTurns
  <2>. QED
    BY <1>1, <2>2, <2>3
<1>3. CASE KeptTurns(t.chat) # {}
  <2>. DEFINE new == [i \in 1..Len(planTurns) |->
                        IF planTurns[i].chat = t.chat THEN t ELSE planTurns[i]]
  <2>1. TurnSet(t) = new
    BY <1>1, <1>3 DEF TurnSet
  <2>2. \A i \in 1..Len(planTurns) : new[i] \in KeptRecs
    BY <1>1
  <2>3. new \in Seq(KeptRecs) /\ Len(new) = Len(planTurns)
    <3>1. new \in [1..Len(planTurns) -> KeptRecs]
      BY <1>1
    <3>. QED
      BY <1>1, <3>1
  <2>4. \A i \in 1..Len(planTurns) :
          new[i] = t \/ (new[i].chat # t.chat /\ new[i] = planTurns[i])
    OBVIOUS
  <2>. HIDE DEF new
  <2>. QED
    BY <2>1, <2>3, <2>4
<1>. QED
  BY <1>2, <1>3

\* The oldest turn may go.
LEMMA TurnsBoundedIs ==
  ASSUME PlanAssumption, NEW ts \in Seq(KeptRecs)
  PROVE  /\ TurnsBounded(ts) \in Seq(KeptRecs)
         /\ \A i \in 1..Len(TurnsBounded(ts)) :
              \E j \in 1..Len(ts) : TurnsBounded(ts)[i] = ts[j]
<1>1. Len(ts) \in Nat
  BY LenProperties
<1>2. CASE Len(ts) > MaxTurns
  <2>1. ts # <<>>
    BY <1>1, <1>2, EmptySeq DEF PlanAssumption
  <2>2. /\ Tail(ts) \in Seq(KeptRecs) /\ Len(Tail(ts)) = Len(ts) - 1
        /\ \A i \in 1..Len(Tail(ts)) : Tail(ts)[i] = ts[i + 1]
    BY <2>1, HeadTailProperties
  <2>3. \A i \in 1..Len(Tail(ts)) : i + 1 \in 1..Len(ts)
    BY <1>1, <2>2
  <2>. QED
    BY <1>2, <2>2, <2>3 DEF TurnsBounded
<1>3. CASE ~(Len(ts) > MaxTurns)
  BY <1>3 DEF TurnsBounded
<1>. QED
  BY <1>2, <1>3

\* A question or a compaction: the steps stay.
LEMMA AsksOK ==
  ASSUME PlanIInv, NEW s \in PlanChats,
         (\E agent \in Askers : UserAsks(s, agent)) \/ PlanCompacts(s)
  PROVE  PlanIInv'
<1>1. UNCHANGED <<planStep, planTurns, outlined, unplanned>>
  BY DEF UserAsks, PlanCompacts
<1>2. /\ planAsk \in [PlanChats -> AskRecs] /\ planAsk[s] \in AskRecs
      /\ StepFits(planAsk[s], planStep[s], outlined[s]) /\ planStep[s] \in StepRecs
  BY DEF PlanIInv
<1>3. PICK a \in AskRecs : /\ planAsk' = [planAsk EXCEPT ![s] = a]
                           /\ StepFits(a, planStep[s], outlined[s])
  <2>1. ASSUME NEW agent \in Askers, UserAsks(s, agent)
        PROVE  \E a \in AskRecs : /\ planAsk' = [planAsk EXCEPT ![s] = a]
                                  /\ StepFits(a, planStep[s], outlined[s])
    <3>. DEFINE a == [turn |-> planAsk[s].turn + 1, agent |-> agent,
                      users |-> planAsk[s].users + 1]
    <3>1. a \in AskRecs /\ planAsk' = [planAsk EXCEPT ![s] = a]
      BY <1>2, <2>1 DEF UserAsks, AskRecs
    <3>2. StepFits(a, planStep[s], outlined[s])
      BY <1>2 DEF StepFits, AskRecs, StepRecs
    <3>. QED
      BY <3>1, <3>2
  <2>2. CASE PlanCompacts(s)
    <3>. DEFINE a == [planAsk[s] EXCEPT !.users = 1]
    <3>1. /\ a \in AskRecs /\ a.turn = planAsk[s].turn /\ a.users = 1 /\ planAsk[s].users > 1
          /\ planAsk' = [planAsk EXCEPT ![s] = a]
      BY <1>2, <2>2 DEF PlanCompacts, AskRecs
    <3>. HIDE DEF a
    <3>2. StepFits(a, planStep[s], outlined[s])
      BY <1>2, <3>1 DEF StepFits, AskRecs, StepRecs
    <3>. QED
      BY <3>1, <3>2
  <2>. QED
    BY <2>1, <2>2
<1>4. /\ planAsk' \in [PlanChats -> AskRecs] /\ planAsk'[s] = a
      /\ \A c \in PlanChats : c # s => planAsk'[c] = planAsk[c]
  BY <1>2, <1>3
<1>. QED
  BY <1>1, <1>3, <1>4 DEF PlanIInv

\* A step of an agent that plans keeps its turn; another leaves what is kept.
LEMMA ContextHookOK ==
  ASSUME PlanAssumption, PlanIInv, NEW s \in PlanChats, ContextHook(s)
  PROVE  PlanIInv'
<1>1. /\ planAsk[s] \in AskRecs /\ StepFits(planAsk[s], planStep[s], outlined[s])
      /\ planStep \in [PlanChats -> StepRecs] /\ planStep[s] \in StepRecs
      /\ planTurns \in Seq(KeptRecs)
  BY DEF PlanIInv
<1>2. UNCHANGED <<planAsk, outlined, unplanned>>
  BY DEF ContextHook
<1>. DEFINE step == [turn |-> planAsk[s].turn, agent |-> planAsk[s].agent,
                     key |-> planAsk[s].users]
<1>3. step \in StepRecs /\ StepFits(planAsk[s], step, outlined[s])
  BY <1>1 DEF AskRecs, StepRecs, StepFits
<1>4. planStep' = [planStep EXCEPT ![s] = step]
  BY DEF ContextHook
<1>5. step.key = planAsk[s].users /\ step.agent = planAsk[s].agent
  OBVIOUS
<1>. HIDE DEF step
<1>6. /\ planStep' \in [PlanChats -> StepRecs] /\ planStep'[s] = step
      /\ \A c \in PlanChats : c # s => planStep'[c] = planStep[c]
  BY <1>1, <1>3, <1>4
<1>7. \A c \in PlanChats : StepFits(planAsk'[c], planStep'[c], outlined'[c])
  BY <1>2, <1>3, <1>6 DEF PlanIInv
<1>8. CASE planAsk[s].agent \notin PlanAgents
  <2>1. planTurns' = planTurns /\ step.agent \notin PlanAgents
    BY <1>5, <1>8, Zenon DEF ContextHook
  <2>2. \A i \in 1..Len(planTurns) : planTurns[i].chat \in PlanChats
    <3>1. \A i \in 1..Len(planTurns) : planTurns[i] \in KeptRecs
      BY <1>1, ElementOfSeq
    <3>. QED
      BY <3>1 DEF KeptRecs
  <2>3. ASSUME NEW i \in 1..Len(planTurns)
        PROVE  KeptFits(planTurns[i], planStep'[planTurns[i].chat], outlined[planTurns[i].chat])
    <3>1. KeptFits(planTurns[i], planStep[planTurns[i].chat], outlined[planTurns[i].chat])
      BY DEF PlanIInv
    <3>2. CASE planTurns[i].chat = s
      BY <1>6, <2>1, <3>1, <3>2 DEF KeptFits
    <3>3. CASE planTurns[i].chat # s
      BY <1>6, <2>2, <3>1, <3>3
    <3>. QED
      BY <3>2, <3>3
  <2>. QED
    BY <1>2, <1>6, <1>7, <2>1, <2>3 DEF PlanIInv
<1>9. CASE planAsk[s].agent \in PlanAgents
  <2>. DEFINE planned == StillPlanned(s, planAsk[s].users)
              gated == planAsk[s].agent = "build"
              t == [chat |-> s, key |-> planAsk[s].users, planned |-> planned, gated |-> gated]
  <2>1. planTurns' = TurnsBounded(TurnSet(t))
    BY <1>9, Zenon DEF ContextHook
  <2>2. planned \in BOOLEAN /\ gated \in BOOLEAN
    BY Zenon DEF StillPlanned
  <2>3. planned = TRUE => outlined[s] # {}
                          /\ (planAsk[s].users > 0 =>
                                \E turn \in outlined[s] : turn >= planAsk[s].users)
    <3>1. SUFFICES ASSUME NEW k \in KeptTurns(s), k.planned, k.key = planAsk[s].users
                   PROVE  outlined[s] # {}
                          /\ (planAsk[s].users > 0 =>
                                \E turn \in outlined[s] : turn >= planAsk[s].users)
      BY DEF StillPlanned
    <3>2. k.planned = TRUE
      BY <3>1, KeptTurnsAre DEF KeptRecs
    <3>. QED
      BY ZenonT(40), <3>1, <3>2, KeptTurnsAre DEF KeptFits
  <2>. HIDE DEF planned, gated
  <2>4. planAsk[s].users \in Nat
    BY <1>1 DEF AskRecs
  <2>5. /\ t \in KeptRecs /\ t.chat = s /\ t.key = planAsk[s].users
        /\ t.planned = planned
    BY <2>2, <2>4, Zenon DEF KeptRecs
  <2>. HIDE DEF t
  <2>6. KeptFits(t, step, outlined[s])
    BY <1>5, <2>3, <2>5 DEF KeptFits
  <2>7. /\ TurnSet(t) \in Seq(KeptRecs)
        /\ \A i \in 1..Len(TurnSet(t)) :
             \/ TurnSet(t)[i] = t
             \/ /\ TurnSet(t)[i].chat # s
                /\ i \in 1..Len(planTurns) /\ TurnSet(t)[i] = planTurns[i]
    BY <1>1, <2>5, TurnSetIs
  <2>8. ASSUME NEW i \in 1..Len(TurnSet(t))
        PROVE  KeptFits(TurnSet(t)[i], planStep'[TurnSet(t)[i].chat], outlined[TurnSet(t)[i].chat])
    <3>1. CASE TurnSet(t)[i] = t
      BY <1>6, <2>5, <2>6, <3>1
    <3>2. CASE TurnSet(t)[i].chat # s /\ i \in 1..Len(planTurns) /\ TurnSet(t)[i] = planTurns[i]
      <4>1. planTurns[i].chat \in PlanChats
        <5>1. planTurns[i] \in KeptRecs
          BY <1>1, <3>2, ElementOfSeq
        <5>. QED
          BY <5>1 DEF KeptRecs
      <4>. QED
        BY <1>6, <3>2, <4>1 DEF PlanIInv
    <3>. QED
      BY <2>7, <3>1, <3>2
  <2>9. /\ planTurns' \in Seq(KeptRecs)
        /\ \A i \in 1..Len(planTurns') : \E j \in 1..Len(TurnSet(t)) : planTurns'[i] = TurnSet(t)[j]
    BY <2>1, <2>7, TurnsBoundedIs
  <2>10. \A i \in 1..Len(planTurns') :
           KeptFits(planTurns'[i], planStep'[planTurns'[i].chat], outlined[planTurns'[i].chat])
    BY <2>8, <2>9
  <2>. QED
    BY <1>2, <1>6, <1>7, <2>9, <2>10 DEF PlanIInv
<1>. QED
  BY <1>8, <1>9

\* plan_update outlines the turn of the step and marks what is kept of it.
LEMMA PlanUpdateOK ==
  ASSUME PlanIInv, NEW s \in PlanChats, PlanUpdate(s)
  PROVE  PlanIInv'
<1>1. /\ planStep[s] \in StepRecs /\ StepFits(planAsk[s], planStep[s], outlined[s])
      /\ planTurns \in Seq(KeptRecs) /\ outlined \in [PlanChats -> SUBSET Nat]
      /\ planStep[s].turn \in Nat /\ planStep[s].key \in Nat
  BY DEF PlanIInv, StepRecs
<1>2. /\ UNCHANGED <<planAsk, planStep, unplanned>> /\ planStep[s].agent \in PlanAgents
      /\ outlined' = [outlined EXCEPT ![s] = @ \union {planStep[s].turn}]
  BY DEF PlanUpdate
<1>3. /\ outlined' \in [PlanChats -> SUBSET Nat]
      /\ outlined'[s] = outlined[s] \union {planStep[s].turn}
      /\ \A c \in PlanChats : c # s => outlined'[c] = outlined[c]
  BY <1>1, <1>2
<1>4. PICK t \in KeptRecs : /\ t.chat = s /\ planTurns' = TurnSet(t)
                            /\ KeptFits(t, planStep[s], outlined'[s])
  <2>1. CASE KeptTurns(s) = {}
    <3>. DEFINE t == [chat |-> s, key |-> 0, planned |-> TRUE, gated |-> FALSE]
    <3>1. t \in KeptRecs /\ t.chat = s /\ planTurns' = TurnSet(t)
      BY <2>1 DEF PlanUpdate, KeptRecs
    <3>2. KeptFits(t, planStep[s], outlined'[s])
      BY <1>3 DEF KeptFits
    <3>. QED
      BY <3>1, <3>2
  <2>2. CASE KeptTurns(s) # {}
    <3>1. PICK k \in KeptTurns(s) : planTurns' = TurnSet([k EXCEPT !.planned = TRUE])
      BY <2>2 DEF PlanUpdate
    <3>2. k \in KeptRecs /\ k.chat = s /\ KeptFits(k, planStep[s], outlined[s])
      BY KeptTurnsAre
    <3>. DEFINE t == [k EXCEPT !.planned = TRUE]
    <3>3. t \in KeptRecs /\ t.chat = s /\ t.key = k.key /\ t.gated = k.gated /\ k.key \in Nat
      BY <3>2 DEF KeptRecs
    <3>. HIDE DEF t
    <3>4. k.key \in {0, planStep[s].key} /\ (k.gated = TRUE => k.key = planStep[s].key)
      BY <1>2, <3>2 DEF KeptFits
    <3>5. planStep[s].key <= planStep[s].turn
      BY <1>1 DEF StepFits
    <3>6. k.key > 0 => planStep[s].turn >= k.key
      BY <1>1, <3>4, <3>5
    <3>7. KeptFits(t, planStep[s], outlined'[s])
      BY <1>3, <3>3, <3>4, <3>6 DEF KeptFits
    <3>. QED
      BY <3>1, <3>3, <3>7 DEF t
  <2>. QED
    BY <2>1, <2>2
<1>5. /\ planTurns' \in Seq(KeptRecs)
      /\ \A i \in 1..Len(planTurns') :
           \/ planTurns'[i] = t
           \/ /\ planTurns'[i].chat # s
              /\ i \in 1..Len(planTurns) /\ planTurns'[i] = planTurns[i]
  BY <1>1, <1>4, TurnSetIs
<1>6. ASSUME NEW i \in 1..Len(planTurns')
      PROVE  KeptFits(planTurns'[i], planStep[planTurns'[i].chat], outlined'[planTurns'[i].chat])
  <2>1. CASE planTurns'[i] = t
    BY <1>4, <2>1
  <2>2. CASE planTurns'[i].chat # s /\ i \in 1..Len(planTurns) /\ planTurns'[i] = planTurns[i]
    <3>1. planTurns[i].chat \in PlanChats
      <4>1. planTurns[i] \in KeptRecs
        BY <1>1, <2>2, ElementOfSeq
      <4>. QED
        BY <4>1 DEF KeptRecs
    <3>. QED
      BY <1>3, <2>2, <3>1 DEF PlanIInv
  <2>. QED
    BY <1>5, <2>1, <2>2
<1>7. \A c \in PlanChats : StepFits(planAsk[c], planStep[c], outlined'[c])
  <2>1. StepFits(planAsk[s], planStep[s], outlined'[s])
    BY <1>1, <1>3 DEF StepFits
  <2>. QED
    BY <1>3, <2>1 DEF PlanIInv
<1>. QED
  BY <1>2, <1>3, <1>5, <1>6, <1>7 DEF PlanIInv

\* A tool Build uses without a plan is excused.
LEMMA ToolGateOK ==
  ASSUME PlanIInv, NEW s \in PlanChats, ToolGate(s)
  PROVE  PlanIInv'
<1>1. UNCHANGED <<planAsk, planStep, planTurns, outlined>>
  BY DEF ToolGate
<1>. DEFINE excused == \/ \A t \in KeptTurns(s) : ~t.gated
                       \/ outlined[s] # {} /\ planStep[s].key < planStep[s].turn
<1>2. unplanned' = unplanned \union {[chat |-> s, excused |-> excused]}
  BY Zenon DEF ToolGate
<1>3. excused
  <2>1. SUFFICES ASSUME NEW t \in KeptTurns(s), t.gated
                 PROVE  outlined[s] # {} /\ planStep[s].key < planStep[s].turn
    BY Zenon
  <2>2. t.planned
    BY <2>1 DEF ToolGate
  <2>3. /\ t.gated = TRUE /\ t.planned = TRUE /\ t.key \in Nat
        /\ KeptFits(t, planStep[s], outlined[s])
    BY <2>1, <2>2, KeptTurnsAre DEF KeptRecs
  <2>4. /\ planStep[s].agent \in PlanAgents /\ planStep[s].turn \notin outlined[s]
        /\ planStep[s].turn > 0
    BY DEF ToolGate, PlanAgents
  <2>5. /\ planStep[s].key \in Nat /\ planStep[s].turn \in Nat /\ outlined[s] \subseteq Nat
        /\ StepFits(planAsk[s], planStep[s], outlined[s])
    BY DEF PlanIInv, StepRecs
  <2>6. outlined[s] # {} /\ t.key = planStep[s].key
        /\ (t.key > 0 => \E turn \in outlined[s] : turn >= t.key)
    BY <2>3, <2>4 DEF KeptFits
  <2>7. planStep[s].key <= planStep[s].turn /\ \A turn \in outlined[s] : turn <= planStep[s].turn
    BY <2>5 DEF StepFits
  <2>8. planStep[s].key # planStep[s].turn
    <3>1. SUFFICES ASSUME planStep[s].key = planStep[s].turn PROVE FALSE
      OBVIOUS
    <3>2. PICK turn \in outlined[s] : turn >= planStep[s].turn
      BY <2>4, <2>6, <3>1
    <3>. QED
      BY <2>4, <2>5, <2>7, <3>2
  <2>. QED
    BY <2>5, <2>6, <2>7, <2>8
<1>. HIDE DEF excused
<1>4. \A u \in unplanned' : u.excused = TRUE
  <2>1. excused = TRUE
    BY <1>3, Zenon DEF excused
  <2>2. [chat |-> s, excused |-> excused].excused = TRUE
    BY <2>1
  <2>3. \A u \in unplanned : u.excused = TRUE
    BY DEF PlanIInv
  <2>. QED
    BY <1>2, <2>2, <2>3, Zenon
<1>. QED
  BY <1>1, <1>4 DEF PlanIInv

\* Every step keeps the invariant.
LEMMA PlanStepOK ==
  ASSUME PlanAssumption, PlanIInv, [PlanNext]_planVars
  PROVE  PlanIInv'
<1>1. CASE UNCHANGED planVars
  BY <1>1 DEF PlanIInv, planVars
<1>2. ASSUME NEW s \in PlanChats,
             \/ (\E agent \in Askers : UserAsks(s, agent)) \/ PlanCompacts(s)
             \/ ContextHook(s) \/ PlanUpdate(s) \/ ToolGate(s)
      PROVE  PlanIInv'
  BY <1>2, AsksOK, ContextHookOK, PlanUpdateOK, ToolGateOK
<1>. QED
  BY <1>1, <1>2, Zenon DEF PlanNext

\* In strict mode Build uses a tool that is not free only in a turn whose plan was
\* published, through any questions, agents, compactions and forgotten turns, but for
\* the turns the definition excuses (visible-plan.js).
THEOREM PlansComeFirst == PlanSpec => []PlanFirst
<1>1. PlanInit => PlanIInv
  BY PlanInitOK
<1>2. PlanIInv /\ [PlanNext]_planVars => PlanIInv'
  BY PlanAssumption, PlanStepOK
<1>3. PlanIInv => PlanFirst
  BY DEF PlanIInv, PlanFirst
<1>. QED
  BY <1>1, <1>2, <1>3, PTL DEF PlanSpec

-----------------------------------------------------------------------------
(* The panels follow the session on screen (PlanViews, ViewSpec).  A read   *)
(* that counts started from what there still is, or an event is on its way; *)
(* a view without a read shows what there is, or its last read failed.      *)

FactRecs == [at : Nat, document : Nat, todo : Nat, family : Nat, messages : Nat, old : BOOLEAN]
MissRecs == [views : SUBSET Views, count : Nat]
NotLoading(view) == (\A l \in viewLoads : l.view # view) /\ view \notin viewMissed.views

ViewTypes ==
  /\ viewFacts \in [ViewChats -> FactRecs] /\ hosted \subseteq ViewChats
  /\ routedView.chat \in Anywhere
  /\ viewMissed \in MissRecs
  /\ DOMAIN viewShown = {"store", "plan", "todos", "family"}
  /\ \A l \in viewLoads : /\ l.view \in Views /\ l.chat = routedView.chat
                          /\ l.view # "document" => l.chat \in ViewChats
StoreFollows == viewNews = {} => viewShown.store = StoredIn(hosted, routedView.chat)
FamilyFollows ==
  routedView.chat \in ViewChats /\ "tree" \notin viewNews =>
    /\ \A l \in viewLoads : l.view = "family" => l.was = viewFacts[routedView.chat].family
    /\ NotLoading("family") => viewShown.family = viewFacts[routedView.chat].family
TodosFollow ==
  routedView.chat \in ViewChats /\ viewFacts[routedView.chat].todo = NoTodo =>
    /\ \A l \in viewLoads : l.view = "todos" => l.was = TodosOf(routedView.chat)
    /\ NotLoading("todos") => viewShown.todos = TodosOf(routedView.chat)
DocumentFollows ==
  routedView.chat \in ViewChats /\ viewNews = {} =>
    /\ \A l \in viewLoads : l.view = "document" => l.was = viewFacts[routedView.chat].document
    /\ NotLoading("document") =>
         /\ viewShown.plan.chat = routedView.chat
         /\ viewShown.plan.document = viewFacts[routedView.chat].document

ViewIInv == ViewTypes /\ StoreFollows /\ FamilyFollows /\ TodosFollow /\ DocumentFollows

\* The first state.
LEMMA ViewInitOK ==
  ASSUME PlanAssumption, ViewInit
  PROVE  ViewIInv
<1>1. /\ hosted = {} /\ viewNews = {} /\ viewLoads = {}
      /\ routedView.chat = NoViewChat /\ NoViewChat \notin ViewChats
      /\ viewMissed \in MissRecs
      /\ DOMAIN viewShown = {"store", "plan", "todos", "family"}
      /\ viewShown.store = [messages |-> 0, todo |-> NoTodo]
  BY DEF ViewInit, PlanAssumption, MissRecs
<1>2. viewFacts \in [ViewChats -> FactRecs]
  <2>1. {[at |-> 0, document |-> 0, todo |-> NoTodo, family |-> 0,
          messages |-> 0, old |-> o] : o \in BOOLEAN} \subseteq FactRecs
    BY DEF FactRecs, NoTodo
  <2>. QED
    BY <2>1 DEF ViewInit
<1>. QED
  BY <1>1, <1>2 DEF ViewIInv, ViewTypes, StoreFollows, FamilyFollows, TodosFollow,
                    DocumentFollows, StoredIn, Anywhere

\* What there is now, of a session that is not the home screen.
LEMMA CurrentFactIs ==
  ASSUME NEW s \in ViewChats
  PROVE  /\ CurrentFact("document", s) = viewFacts[s].document
         /\ CurrentFact("todos", s) = TodosOf(s)
         /\ CurrentFact("family", s) = viewFacts[s].family
BY DEF CurrentFact, PlanOf

\* One read for each view, from what there is now.
LEMMA ReadAskedIs ==
  ASSUME NEW views, NEW s
  PROVE  /\ \A l \in ReadAsked(views, s) : /\ l.view \in views /\ l.chat = s
                                         /\ l.was = CurrentFact(l.view, s)
         /\ \A view \in views : \E l \in ReadAsked(views, s) : l.view = view
<1>. DEFINE read(v) == [view |-> v, chat |-> s, was |-> CurrentFact(v, s)]
<1>1. \A v : read(v).view = v /\ read(v).chat = s /\ read(v).was = CurrentFact(v, s)
  OBVIOUS
<1>2. ReadAsked(views, s) = {read(v) : v \in views}
  BY DEF ReadAsked
<1>. HIDE DEF read
<1>3. ASSUME NEW l \in ReadAsked(views, s)
      PROVE  l.view \in views /\ l.chat = s /\ l.was = CurrentFact(l.view, s)
  <2>1. PICK v \in views : l = read(v)
    BY <1>2
  <2>. QED
    BY <1>1, <2>1, Zenon
<1>4. ASSUME NEW view \in views
      PROVE  \E l \in ReadAsked(views, s) : l.view = view
  <2>1. read(view) \in ReadAsked(views, s) /\ read(view).view = view
    BY <1>1, <1>2
  <2>. QED
    BY <2>1
<1>. QED
  BY <1>3, <1>4

\* A change of a session: the event that reports it is on its way.
LEMMA FactChangesOK ==
  ASSUME PlanAssumption, ViewIInv, NEW s \in ViewChats,
         NEW fact \in {"document", "todo", "family"}, FactChanges(s, fact)
  PROVE  ViewIInv'
<1>. DEFINE r == routedView.chat
<1>1. /\ UNCHANGED <<hosted, routedView, viewLoads, viewShown, viewMissed>>
      /\ viewNews' = viewNews \union {IF fact = "family" THEN "tree" ELSE "tool"}
      /\ viewFacts \in [ViewChats -> FactRecs]
  BY DEF FactChanges, ViewIInv, ViewTypes
<1>. DEFINE time == viewFacts[s].at + 1
            other(c) == [viewFacts[c] EXCEPT !.at = time]
            base == [viewFacts[s] EXCEPT !.at = time, !.messages = @ + 1]
            own == [base EXCEPT ![fact] = time]
<1>2. viewFacts' = [c \in ViewChats |-> IF c # s THEN other(c) ELSE own]
  BY Zenon DEF FactChanges
<1>3. time \in Nat /\ time # 0 /\ viewFacts[s].messages + 1 \in Nat /\ viewFacts[s] \in FactRecs
  BY <1>1 DEF FactRecs
<1>. HIDE DEF time
<1>4. \A c \in ViewChats : /\ other(c) \in FactRecs /\ other(c).document = viewFacts[c].document
                           /\ other(c).todo = viewFacts[c].todo
                           /\ other(c).family = viewFacts[c].family
                           /\ other(c).old = viewFacts[c].old
  BY <1>1, <1>3 DEF FactRecs
<1>5. /\ base \in FactRecs /\ base.document = viewFacts[s].document
      /\ base.todo = viewFacts[s].todo /\ base.family = viewFacts[s].family
      /\ base.old = viewFacts[s].old
  <2>1. base = [[viewFacts[s] EXCEPT !.at = time] EXCEPT !.messages = viewFacts[s].messages + 1]
    BY <1>3 DEF FactRecs
  <2>. QED
    BY <1>3, <2>1 DEF FactRecs
<1>. HIDE DEF base
<1>6. /\ own \in FactRecs /\ own.old = viewFacts[s].old
      /\ (fact # "family" => own.family = viewFacts[s].family)
      /\ (own.todo = viewFacts[s].todo \/ own.todo = time)
  <2>1. CASE fact = "document"
    BY <1>3, <1>5, <2>1 DEF FactRecs
  <2>2. CASE fact = "todo"
    BY <1>3, <1>5, <2>2 DEF FactRecs
  <2>3. CASE fact = "family"
    BY <1>3, <1>5, <2>3 DEF FactRecs
  <2>. QED
    BY <2>1, <2>2, <2>3
<1>. HIDE DEF own, other
<1>7. /\ viewFacts' \in [ViewChats -> FactRecs]
      /\ \A c \in ViewChats : /\ viewFacts'[c].old = viewFacts[c].old
                              /\ (fact # "family" => viewFacts'[c].family = viewFacts[c].family)
                              /\ (viewFacts'[c].todo = NoTodo => viewFacts[c].todo = NoTodo)
  BY <1>2, <1>3, <1>4, <1>6 DEF NoTodo
<1>8. ViewTypes'
  BY <1>1, <1>7 DEF ViewIInv, ViewTypes
<1>9. viewNews' # {} /\ ("tree" \notin viewNews' => "tree" \notin viewNews /\ fact # "family")
  BY <1>1
<1>10. StoreFollows' /\ DocumentFollows'
  BY <1>9 DEF StoreFollows, DocumentFollows
<1>11. FamilyFollows'
  BY <1>1, <1>7, <1>9 DEF ViewIInv, FamilyFollows, NotLoading
<1>12. TodosFollow'
  <2>1. SUFFICES ASSUME r \in ViewChats, viewFacts'[r].todo = NoTodo
                 PROVE  /\ \A l \in viewLoads : l.view = "todos" => l.was = TodosOf(r)'
                        /\ NotLoading("todos") => viewShown.todos = TodosOf(r)'
    BY <1>1 DEF TodosFollow, NotLoading
  <2>2. TodosOf(r)' = TodosOf(r)
    BY <1>1, <1>7, <2>1 DEF TodosOf
  <2>3. viewFacts[r].todo = NoTodo
    BY <1>7, <2>1
  <2>. QED
    BY <2>1, <2>2, <2>3 DEF ViewIInv, TodosFollow
<1>. QED
  BY <1>8, <1>10, <1>11, <1>12 DEF ViewIInv

\* An event arrives: the store is looked at, the document and the family read again.
LEMMA ViewHearsOK ==
  ASSUME PlanAssumption, ViewIInv, NEW event \in {"tool", "tree"}, ViewHears(event)
  PROVE  ViewIInv'
<1>. DEFINE s == routedView.chat
            views == {"document"} \union (IF event = "tree" /\ s # NoViewChat
                                          THEN {"family"} ELSE {})
<1>1. /\ UNCHANGED <<viewFacts, hosted, routedView>> /\ viewNews' = viewNews \ {event}
      /\ viewShown' = [viewShown EXCEPT !.store = StoredIn(hosted, s),
                                        !.family = IF event = "tree" THEN 0 ELSE @]
      /\ viewLoads' = ReadsVoided(views) \union ReadAsked(views, s)
      /\ viewMissed' = [viewMissed EXCEPT !.views = @ \ views]
  BY Zenon DEF ViewHears, Redrawn
<1>2. /\ views \subseteq Views /\ "document" \in views /\ "todos" \notin views
      /\ ("family" \in views => s \in ViewChats)
      /\ (event = "tree" /\ s \in ViewChats => "family" \in views)
  BY DEF Views, Anywhere, ViewIInv, ViewTypes, PlanAssumption
<1>. HIDE DEF views
<1>3. /\ viewMissed' \in MissRecs /\ viewMissed'.views = viewMissed.views \ views
      /\ DOMAIN viewShown' = {"store", "plan", "todos", "family"}
      /\ viewShown'.store = StoredIn(hosted, s) /\ viewShown'.plan = viewShown.plan
      /\ viewShown'.todos = viewShown.todos
      /\ (event # "tree" => viewShown'.family = viewShown.family)
  BY <1>1 DEF ViewIInv, ViewTypes, MissRecs
<1>4. /\ \A l \in viewLoads' : \/ l \in viewLoads /\ l.view \notin views
                               \/ /\ l.view \in views /\ l.chat = s
                                  /\ l.was = CurrentFact(l.view, s)
      /\ \A l \in viewLoads : l.view \notin views => l \in viewLoads'
      /\ \A view \in views : \E l \in viewLoads' : l.view = view
  BY <1>1, ReadAskedIs DEF ReadsVoided
<1>5. ViewTypes'
  <2>1. ASSUME NEW l \in viewLoads'
        PROVE  l.view \in Views /\ l.chat = s /\ (l.view # "document" => l.chat \in ViewChats)
    <3>1. CASE l \in viewLoads /\ l.view \notin views
      BY <3>1 DEF ViewIInv, ViewTypes
    <3>2. CASE l.view \in views /\ l.chat = s
      BY <1>2, <3>2 DEF Views, views
    <3>. QED
      BY <1>4, <3>1, <3>2
  <2>. QED
    BY <1>1, <1>3, <2>1 DEF ViewIInv, ViewTypes
<1>6. StoreFollows'
  BY <1>1, <1>3 DEF StoreFollows, StoredIn
<1>7. DocumentFollows'
  <2>1. SUFFICES ASSUME s \in ViewChats
                 PROVE  /\ \A l \in viewLoads' : l.view = "document" =>
                             l.was = viewFacts[s].document
                        /\ \E l \in viewLoads' : l.view = "document"
    BY <1>1 DEF DocumentFollows, NotLoading
  <2>. QED
    BY <1>2, <1>4, <2>1, CurrentFactIs
<1>8. FamilyFollows'
  <2>1. CASE event = "tree"
    <3>1. SUFFICES ASSUME s \in ViewChats
                   PROVE  /\ \A l \in viewLoads' : l.view = "family" =>
                               l.was = viewFacts[s].family
                          /\ \E l \in viewLoads' : l.view = "family"
      BY <1>1 DEF FamilyFollows, NotLoading
    <3>. QED
      BY <1>2, <1>4, <2>1, <3>1, CurrentFactIs
  <2>2. CASE event # "tree"
    <3>1. "family" \notin views
      BY <2>2 DEF views
    <3>2. /\ (NotLoading("family")' => NotLoading("family"))
          /\ \A l \in viewLoads' : l.view = "family" => l \in viewLoads
          /\ ("tree" \notin viewNews' => "tree" \notin viewNews)
      BY <1>1, <1>3, <1>4, <2>2, <3>1 DEF NotLoading
    <3>. QED
      BY <1>1, <1>3, <2>2, <3>2 DEF ViewIInv, FamilyFollows
  <2>. QED
    BY <2>1, <2>2
<1>9. TodosFollow'
  <2>1. /\ (NotLoading("todos")' => NotLoading("todos"))
        /\ \A l \in viewLoads' : l.view = "todos" => l \in viewLoads
    BY <1>2, <1>3, <1>4 DEF NotLoading
  <2>2. TodosOf(s)' = TodosOf(s)
    BY <1>1 DEF TodosOf
  <2>. QED
    BY <1>1, <1>3, <2>1, <2>2 DEF ViewIInv, TodosFollow
<1>. QED
  BY <1>5, <1>6, <1>7, <1>8, <1>9 DEF ViewIInv

\* Another session on screen: everything is read anew.
LEMMA ViewRoutesOK ==
  ASSUME PlanAssumption, ViewIInv, NEW s \in Anywhere, ViewRoutes(s)
  PROVE  ViewIInv'
<1>. DEFINE views == IF s = NoViewChat THEN {"document"} ELSE Views
<1>1. /\ UNCHANGED <<viewFacts, hosted, viewNews>>
      /\ routedView' = [chat |-> s, visits |-> routedView.visits + 1]
      /\ viewShown' = [store |-> StoredIn(hosted, s), plan |-> [chat |-> s, document |-> 0],
                       todos |-> NoTodo, family |-> 0]
      /\ viewLoads' = ReadsVoided(Views) \union ReadAsked(views, s)
      /\ viewMissed' = [viewMissed EXCEPT !.views = {}]
  BY DEF ViewRoutes
<1>2. /\ views \subseteq Views /\ (s \in ViewChats => views = Views)
      /\ (s \notin ViewChats => views = {"document"})
  BY DEF Views, Anywhere, PlanAssumption
<1>. HIDE DEF views
<1>3. ReadsVoided(Views) = {}
  BY DEF ReadsVoided, ViewIInv, ViewTypes
<1>4. /\ \A l \in viewLoads' : /\ l.view \in views /\ l.chat = s
                               /\ l.was = CurrentFact(l.view, s)
      /\ \A view \in views : \E l \in viewLoads' : l.view = view
  BY <1>1, <1>3, ReadAskedIs
<1>5. /\ routedView'.chat = s /\ viewMissed' \in MissRecs
      /\ DOMAIN viewShown' = {"store", "plan", "todos", "family"}
      /\ viewShown'.store = StoredIn(hosted, s)
  BY <1>1 DEF ViewIInv, ViewTypes, MissRecs
<1>6. ViewTypes'
  BY <1>1, <1>2, <1>4, <1>5 DEF ViewIInv, ViewTypes
<1>7. StoreFollows'
  BY <1>1, <1>5 DEF StoreFollows, StoredIn
<1>8. ASSUME s \in ViewChats
      PROVE  /\ \E l \in viewLoads' : l.view = "family"
             /\ \E l \in viewLoads' : l.view = "todos"
             /\ \E l \in viewLoads' : l.view = "document"
  BY <1>2, <1>4, <1>8 DEF Views
<1>9. ASSUME s \in ViewChats, NEW l \in viewLoads'
      PROVE  /\ l.view = "family" => l.was = viewFacts[s].family
             /\ l.view = "todos" => l.was = TodosOf(s)
             /\ l.view = "document" => l.was = viewFacts[s].document
  BY <1>4, <1>9, CurrentFactIs
<1>10. TodosOf(s)' = TodosOf(s)
  BY <1>1 DEF TodosOf
<1>11. FamilyFollows' /\ TodosFollow' /\ DocumentFollows'
  BY <1>1, <1>5, <1>8, <1>9, <1>10 DEF FamilyFollows, TodosFollow, DocumentFollows, NotLoading
<1>. QED
  BY <1>6, <1>7, <1>11 DEF ViewIInv

\* An answer of a session on screen: what there was, or what there is.
LEMMA LandsPlanOK ==
  ASSUME ViewIInv, NEW l \in viewLoads, LandsPlan(l)
  PROVE  ViewIInv'
<1>. DEFINE s == routedView.chat
<1>1. /\ UNCHANGED <<viewFacts, hosted, viewNews, routedView, viewMissed>>
      /\ viewLoads' = viewLoads \ {l} /\ l.chat = s
      /\ DOMAIN viewShown = {"store", "plan", "todos", "family"}
  BY DEF LandsPlan, ViewIInv, ViewTypes
<1>2. PICK value \in {l.was, CurrentFact(l.view, s)} :
        viewShown' = IF l.view = "document"
                     THEN [viewShown EXCEPT !.plan = [chat |-> s, document |-> value]]
                     ELSE [viewShown EXCEPT !.todos = value]
  BY <1>1 DEF LandsPlan, ViewAnswers
<1>3. l.view = "document" \/ l.view = "todos"
  BY DEF LandsPlan
<1>4. ASSUME l.view = "document" PROVE ViewIInv'
  <2>1. /\ DOMAIN viewShown' = {"store", "plan", "todos", "family"}
        /\ viewShown'.plan = [chat |-> s, document |-> value]
        /\ viewShown'.store = viewShown.store /\ viewShown'.todos = viewShown.todos
        /\ viewShown'.family = viewShown.family
    BY <1>1, <1>2, <1>4
  <2>2. \A view \in {"family", "todos"} : NotLoading(view)' => NotLoading(view)
    BY <1>1, <1>4 DEF NotLoading
  <2>3. TodosOf(s)' = TodosOf(s)
    BY <1>1 DEF TodosOf
  <2>4. s \in ViewChats /\ viewNews = {} => value = viewFacts[s].document
    BY <1>4, CurrentFactIs DEF ViewIInv, DocumentFollows
  <2>5. DocumentFollows'
    BY <1>1, <2>1, <2>4 DEF ViewIInv, DocumentFollows
  <2>6. FamilyFollows' /\ TodosFollow'
    BY <1>1, <2>1, <2>2, <2>3 DEF ViewIInv, FamilyFollows, TodosFollow
  <2>7. ViewTypes' /\ StoreFollows'
    BY <1>1, <2>1 DEF ViewIInv, ViewTypes, StoreFollows, StoredIn
  <2>. QED
    BY <2>5, <2>6, <2>7 DEF ViewIInv
<1>5. ASSUME l.view = "todos" PROVE ViewIInv'
  <2>1. /\ DOMAIN viewShown' = {"store", "plan", "todos", "family"}
        /\ viewShown'.todos = value
        /\ viewShown'.store = viewShown.store /\ viewShown'.plan = viewShown.plan
        /\ viewShown'.family = viewShown.family
    BY <1>1, <1>2, <1>5
  <2>2. \A view \in {"family", "document"} : NotLoading(view)' => NotLoading(view)
    BY <1>1, <1>5 DEF NotLoading
  <2>3. TodosOf(s)' = TodosOf(s)
    BY <1>1 DEF TodosOf
  <2>4. s \in ViewChats /\ viewFacts[s].todo = NoTodo => value = TodosOf(s)
    BY <1>5, CurrentFactIs DEF ViewIInv, TodosFollow
  <2>5. TodosFollow'
    BY <1>1, <2>1, <2>3, <2>4 DEF ViewIInv, TodosFollow
  <2>6. FamilyFollows' /\ DocumentFollows'
    BY <1>1, <2>1, <2>2 DEF ViewIInv, FamilyFollows, DocumentFollows
  <2>7. ViewTypes' /\ StoreFollows'
    BY <1>1, <2>1 DEF ViewIInv, ViewTypes, StoreFollows, StoredIn
  <2>. QED
    BY <2>5, <2>6, <2>7 DEF ViewIInv
<1>. QED
  BY <1>3, <1>4, <1>5

\* The messages or the family are there, and the document is read again.
LEMMA LandsVersionOK ==
  ASSUME PlanAssumption, ViewIInv, NEW l \in viewLoads, LandsVersion(l)
  PROVE  ViewIInv'
<1>. DEFINE s == routedView.chat
<1>1. /\ UNCHANGED <<viewFacts, viewNews, routedView>> /\ l.chat = s /\ s \in ViewChats
      /\ l.view \in {"messages", "family"}
      /\ DOMAIN viewShown = {"store", "plan", "todos", "family"}
      /\ hosted' \subseteq ViewChats
      /\ viewLoads' = (ReadsVoided({"document"}) \ {l}) \union ReadAsked({"document"}, s)
      /\ viewMissed' = [viewMissed EXCEPT !.views = @ \ {"document"}]
  BY DEF LandsVersion, ViewIInv, ViewTypes
<1>2. PICK value \in {l.was, CurrentFact(l.view, s)} :
        viewShown' = [viewShown EXCEPT !.store = StoredIn(hosted', s),
                                       !.family = IF l.view = "family" THEN value ELSE @]
  BY <1>1, Zenon DEF LandsVersion, ViewAnswers
<1>3. /\ viewMissed' \in MissRecs /\ viewMissed'.views = viewMissed.views \ {"document"}
      /\ DOMAIN viewShown' = {"store", "plan", "todos", "family"}
      /\ viewShown'.store = StoredIn(hosted', s) /\ viewShown'.plan = viewShown.plan
      /\ viewShown'.todos = viewShown.todos
      /\ (l.view = "family" => viewShown'.family = value)
      /\ (l.view # "family" => viewShown'.family = viewShown.family)
  BY <1>1, <1>2 DEF ViewIInv, ViewTypes, MissRecs
<1>4. /\ \A k \in viewLoads' : \/ k \in viewLoads /\ k.view # "document" /\ k # l
                               \/ /\ k.view = "document" /\ k.chat = s
                                  /\ k.was = CurrentFact("document", s)
      /\ \A k \in viewLoads : k.view # "document" /\ k # l => k \in viewLoads'
      /\ \E k \in viewLoads' : k.view = "document"
  BY <1>1, ReadAskedIs DEF ReadsVoided
<1>5. ViewTypes'
  <2>1. ASSUME NEW k \in viewLoads'
        PROVE  k.view \in Views /\ k.chat = s /\ (k.view # "document" => k.chat \in ViewChats)
    BY <1>1, <1>4 DEF ViewIInv, ViewTypes, Views
  <2>. QED
    BY <1>1, <1>3, <2>1 DEF ViewIInv, ViewTypes
<1>6. StoreFollows'
  BY <1>1, <1>3 DEF StoreFollows, StoredIn
<1>7. DocumentFollows'
  BY <1>1, <1>4, CurrentFactIs DEF DocumentFollows, NotLoading
<1>8. TodosFollow'
  <2>1. /\ (NotLoading("todos")' => NotLoading("todos"))
        /\ \A k \in viewLoads' : k.view = "todos" => k \in viewLoads
    BY <1>1, <1>3, <1>4 DEF NotLoading
  <2>2. TodosOf(s)' = TodosOf(s)
    BY <1>1 DEF TodosOf
  <2>. QED
    BY <1>1, <1>3, <2>1, <2>2 DEF ViewIInv, TodosFollow
<1>9. FamilyFollows'
  <2>1. \A k \in viewLoads' : k.view = "family" => k \in viewLoads
    BY <1>4
  <2>2. CASE l.view = "family"
    <3>1. "tree" \notin viewNews => value = viewFacts[s].family
      BY <1>1, <2>2, CurrentFactIs DEF ViewIInv, FamilyFollows
    <3>. QED
      BY <1>1, <1>3, <2>1, <2>2, <3>1 DEF ViewIInv, FamilyFollows
  <2>3. CASE l.view # "family"
    <3>1. NotLoading("family")' => NotLoading("family")
      BY <1>1, <1>3, <1>4, <2>3 DEF NotLoading
    <3>. QED
      BY <1>1, <1>3, <2>1, <2>3, <3>1 DEF ViewIInv, FamilyFollows
  <2>. QED
    BY <2>2, <2>3
<1>. QED
  BY <1>5, <1>6, <1>7, <1>8, <1>9 DEF ViewIInv

\* A read fails: its view is known to have missed it.
LEMMA ViewReadFailsOK ==
  ASSUME ViewIInv, NEW l \in viewLoads, ViewReadFails(l)
  PROVE  ViewIInv'
<1>. DEFINE s == routedView.chat
<1>1. /\ UNCHANGED <<viewFacts, hosted, viewNews, routedView>>
      /\ viewLoads' = viewLoads \ {l} /\ l.view \in Views
      /\ viewMissed' = [views |-> viewMissed.views \union {l.view},
                        count |-> viewMissed.count + 1]
      /\ DOMAIN viewShown = {"store", "plan", "todos", "family"}
  BY DEF ViewReadFails, ViewIInv, ViewTypes
<1>2. /\ DOMAIN viewShown' = {"store", "plan", "todos", "family"}
      /\ viewShown'.store = viewShown.store /\ viewShown'.todos = viewShown.todos
      /\ viewShown'.family = viewShown.family
      /\ (l.view # "document" => viewShown' = viewShown)
  BY <1>1 DEF ViewReadFails
<1>3. viewMissed' \in MissRecs /\ viewMissed'.views = viewMissed.views \union {l.view}
  BY <1>1 DEF ViewIInv, ViewTypes, MissRecs
<1>4. \A view : NotLoading(view)' => NotLoading(view) /\ view # l.view
  BY <1>1, <1>3 DEF NotLoading
<1>5. TodosOf(s)' = TodosOf(s)
  BY <1>1 DEF TodosOf
<1>6. FamilyFollows' /\ TodosFollow' /\ DocumentFollows'
  BY <1>1, <1>2, <1>4, <1>5 DEF ViewIInv, FamilyFollows, TodosFollow, DocumentFollows
<1>7. ViewTypes' /\ StoreFollows'
  BY <1>1, <1>2, <1>3 DEF ViewIInv, ViewTypes, StoreFollows, StoredIn
<1>. QED
  BY <1>6, <1>7 DEF ViewIInv

\* Every step keeps the invariant.
LEMMA ViewStepOK ==
  ASSUME PlanAssumption, ViewIInv, [ViewNext]_viewVars
  PROVE  ViewIInv'
<1>1. CASE UNCHANGED viewVars
  <2>1. UNCHANGED <<viewFacts, hosted, viewNews, routedView, viewLoads, viewShown, viewMissed>>
    BY <1>1 DEF viewVars
  <2>2. TodosOf(routedView.chat)' = TodosOf(routedView.chat)
    BY <2>1 DEF TodosOf
  <2>. QED
    BY <2>1, <2>2 DEF ViewIInv, ViewTypes, StoreFollows, FamilyFollows, TodosFollow,
                      DocumentFollows, NotLoading, StoredIn
<1>2. CASE \E s \in ViewChats, fact \in {"document", "todo", "family"} : FactChanges(s, fact)
  BY <1>2, FactChangesOK
<1>3. CASE \E event \in {"tool", "tree"} : ViewHears(event)
  BY <1>3, ViewHearsOK
<1>4. CASE \E s \in Anywhere : ViewRoutes(s)
  BY <1>4, ViewRoutesOK
<1>5. CASE \E l \in viewLoads : LandsPlan(l) \/ LandsVersion(l) \/ ViewReadFails(l)
  BY <1>5, LandsPlanOK, LandsVersionOK, ViewReadFailsOK
<1>. QED
  BY <1>1, <1>2, <1>3, <1>4, <1>5, Zenon DEF ViewNext

\* The invariant says what the panels show when no read and no event is on its way.
LEMMA ViewKept == ViewIInv => ViewsFollow
<1>. DEFINE s == routedView.chat
<1>1. SUFFICES ASSUME ViewIInv, viewNews = {}, viewLoads = {}, viewMissed.views = {},
                      s \in hosted
               PROVE  /\ viewShown.store.messages = viewFacts[s].messages
                      /\ viewShown.family = viewFacts[s].family
                      /\ PlanShown = IF TodosOf(s) # NoTodo THEN TodosOf(s)
                                     ELSE viewFacts[s].document
  BY DEF ViewsFollow
<1>2. s \in ViewChats /\ \A view : NotLoading(view)
  BY <1>1 DEF ViewIInv, ViewTypes, NotLoading
<1>3. /\ viewShown.store.messages = viewFacts[s].messages
      /\ viewShown.store.todo = viewFacts[s].todo
  BY <1>1 DEF ViewIInv, StoreFollows, StoredIn
<1>4. viewShown.family = viewFacts[s].family
  BY <1>1, <1>2 DEF ViewIInv, FamilyFollows
<1>5. viewFacts[s].todo = NoTodo => viewShown.todos = TodosOf(s)
  BY <1>1, <1>2 DEF ViewIInv, TodosFollow
<1>6. viewShown.plan.chat = s /\ viewShown.plan.document = viewFacts[s].document
  BY <1>1, <1>2 DEF ViewIInv, DocumentFollows
<1>7. viewFacts[s].todo # NoTodo => TodosOf(s) = viewFacts[s].todo
  <2>1. s # NoViewChat
    BY <1>2, PlanAssumption DEF PlanAssumption
  <2>. QED
    BY <2>1 DEF TodosOf
<1>. QED
  BY <1>3, <1>4, <1>5, <1>6, <1>7 DEF PlanShown

\* When nothing is on its way and no read failed, the panels show the session on screen:
\* its messages, its family, and its todo list or else its plan (panel-views.jsx).
THEOREM ViewsFollowTheSession == ViewSpec => []ViewsFollow
<1>1. ViewInit => ViewIInv
  BY PlanAssumption, ViewInitOK
<1>2. ViewIInv /\ [ViewNext]_viewVars => ViewIInv'
  BY PlanAssumption, ViewStepOK
<1>3. ViewIInv => ViewsFollow
  BY ViewKept
<1>. QED
  BY <1>1, <1>2, <1>3, PTL DEF ViewSpec

-----------------------------------------------------------------------------
(* The programs of a refresh (LimitsFeed).  The answer that is awaited was  *)
(* asked for as long as the app-server runs, and nothing is awaited once    *)
(* something was found.                                                     *)

ProgramRecs == [life : {"none", "spared", "running", "failed", "closed"},
                told : {"no", "term", "kill"}, read : BOOLEAN]

ToldOrRead(x) == x.life = "running" /\ ~x.read => x.told # "no"

CliIInv ==
  /\ programs \in [Programs -> ProgramRecs]
  /\ heard \in [1 .. 4 -> {"nothing", "limits", "auth", "other", "error"}]
  /\ awaitedId \in 0 .. 4
  /\ \A c \in Programs : ToldOrRead(programs[c])
  /\ codexFound # "nothing" => awaitedId = 0 /\ ~programs["codex"].read
                               /\ programs["codex"].life # "none"
  /\ awaitedId # 0 => programs["codex"].life # "none"
  /\ awaitedId # 0 /\ Runs("codex") => awaitedId \in askedIds
  /\ 3 \in askedIds => 2 \in askedIds /\ awaitedId \notin {1, 2}
  /\ codexFound = "limits" => \E id \in {2, 4} : heard[id] = "limits"
  /\ codexFound = "auth" => heard[3] = "auth"
  /\ 3 \in askedIds /\ codexFound = "limits" => heard[4] = "limits"

LEMMA CodexIsProgram == "codex" \in Programs /\ "bl" \in Programs /\ "codex" \notin CopySet
BY CliAssumption DEF Programs

LEMMA CliInitOK == CliInit => CliIInv
<1> SUFFICES ASSUME CliInit PROVE CliIInv
  OBVIOUS
<1>1. PICK due : programs = [c \in Programs |->
                     [life |-> IF (due = "bl") <=> (c = "bl") THEN "none" ELSE "spared",
                      told |-> "no", read |-> FALSE]]
  BY DEF CliInit
<1>2. programs \in [Programs -> ProgramRecs] /\ \A c \in Programs : programs[c].life # "running"
  BY <1>1 DEF ProgramRecs
<1>3. /\ awaitedId = 0 /\ askedIds = {} /\ heard = [id \in 1 .. 4 |-> "nothing"]
      /\ codexFound = "nothing"
  BY DEF CliInit
<1> QED BY <1>2, <1>3 DEF CliIInv, ToldOrRead

LEMMA GivenUpOK ==
  ASSUME NEW x \in ProgramRecs
  PROVE  /\ ReadGivenUp(x) \in ProgramRecs /\ Terminated(x) \in ProgramRecs
         /\ ReadGivenUp(x).life = x.life /\ Terminated(x).life = x.life
         /\ ~ReadGivenUp(x).read /\ Terminated(x).read = x.read
         /\ x.life = "running" => ReadGivenUp(x).told # "no" /\ Terminated(x).told # "no"
BY DEF ReadGivenUp, Terminated, ProgramRecs

\* The programs that print change, queryCodex does not.
LEMMA PrinterStepOK ==
  ASSUME CliIInv, NEW c \in Programs, NEW x \in ProgramRecs, ToldOrRead(x),
         programs' = [programs EXCEPT ![c] = x],
         c = "codex" => /\ x.life = programs["codex"].life
                        /\ x.read = programs["codex"].read,
         UNCHANGED <<awaitedId, askedIds, heard, codexFound>>
  PROVE  CliIInv'
<1>1. programs \in [Programs -> ProgramRecs]
  BY DEF CliIInv
<1>2. /\ programs' \in [Programs -> ProgramRecs] /\ programs'[c] = x
      /\ \A d \in Programs \ {c} : programs'[d] = programs[d]
  BY <1>1
<1>3. /\ programs'["codex"].life = programs["codex"].life
      /\ programs'["codex"].read = programs["codex"].read
  BY <1>2, CodexIsProgram
<1>4. \A d \in Programs : ToldOrRead(programs'[d])
  <2>1. \A d \in Programs : ToldOrRead(programs[d])
    BY DEF CliIInv
  <2> QED BY <1>2, <2>1
<1>5. Runs("codex")' <=> Runs("codex")
  BY <1>3 DEF Runs
<1> QED BY <1>2, <1>3, <1>4, <1>5 DEF CliIInv

LEMMA PrintersOK ==
  ASSUME CliIInv, NEW c \in CopySet \cup {"bl"},
         \/ \E works \in BOOLEAN : StartPrinter(c, works)
         \/ \E v \in 0 .. MaxVersion : PrinterCloses(c, v) \/ PrinterGivenUp(c, v)
  PROVE  CliIInv'
<1>0. c \in Programs /\ c # "codex" /\ programs[c] \in ProgramRecs
  BY CodexIsProgram DEF Programs, CliIInv
<1>1. ASSUME NEW works \in BOOLEAN, StartPrinter(c, works) PROVE CliIInv'
  <2> DEFINE x == IF works THEN [life |-> "running", told |-> "no", read |-> TRUE]
                  ELSE [life |-> "failed", told |-> "no", read |-> FALSE]
  <2>1. /\ programs' = [programs EXCEPT ![c] = x]
        /\ UNCHANGED <<awaitedId, askedIds, heard, codexFound>>
    BY <1>1 DEF StartPrinter, Spawned
  <2>2. x \in ProgramRecs /\ ToldOrRead(x)
    BY DEF ProgramRecs, ToldOrRead
  <2> HIDE DEF x
  <2> QED BY <1>0, <2>1, <2>2, PrinterStepOK
<1>2. ASSUME NEW v \in 0 .. MaxVersion, PrinterCloses(c, v) PROVE CliIInv'
  <2> DEFINE x == [programs[c] EXCEPT !.life = "closed", !.read = FALSE]
  <2>1. /\ programs' = [programs EXCEPT ![c] = x]
        /\ UNCHANGED <<awaitedId, askedIds, heard, codexFound>>
    <3>1. programs' = [programs EXCEPT ![c].life = "closed", ![c].read = FALSE]
      BY <1>2 DEF PrinterCloses
    <3>2. programs \in [Programs -> ProgramRecs]
      BY DEF CliIInv
    <3>3. [programs EXCEPT ![c].life = "closed", ![c].read = FALSE] = [programs EXCEPT ![c] = x]
      BY <1>0, <3>2 DEF ProgramRecs
    <3> QED BY <1>2, <3>1, <3>3 DEF PrinterCloses
  <2>2. x \in ProgramRecs /\ ToldOrRead(x)
    BY <1>0 DEF ProgramRecs, ToldOrRead
  <2> HIDE DEF x
  <2> QED BY <1>0, <2>1, <2>2, PrinterStepOK
<1>3. ASSUME NEW v \in 0 .. MaxVersion, PrinterGivenUp(c, v) PROVE CliIInv'
  <2>1. /\ programs' = [programs EXCEPT ![c] = ReadGivenUp(programs[c])]
        /\ UNCHANGED <<awaitedId, askedIds, heard, codexFound>>
    BY <1>3 DEF PrinterGivenUp
  <2>2. ReadGivenUp(programs[c]) \in ProgramRecs /\ ToldOrRead(ReadGivenUp(programs[c]))
    BY <1>0, GivenUpOK DEF ToldOrRead
  <2> QED BY <1>0, <2>1, <2>2, PrinterStepOK
<1> QED BY <1>1, <1>2, <1>3

LEMMA KilledOK == ASSUME CliIInv, NEW c \in Programs, KilledAfterTerm(c) PROVE CliIInv'
<1> DEFINE x == [programs[c] EXCEPT !.told = "kill"]
<1>0. programs \in [Programs -> ProgramRecs] /\ programs[c] \in ProgramRecs
  BY DEF CliIInv
<1>1. programs' = [programs EXCEPT ![c] = x]
  BY <1>0 DEF KilledAfterTerm
<1>2. /\ x \in ProgramRecs /\ ToldOrRead(x) /\ x.life = programs[c].life
      /\ x.read = programs[c].read
  BY <1>0 DEF ProgramRecs, ToldOrRead
<1>3. UNCHANGED <<awaitedId, askedIds, heard, codexFound>>
  BY DEF KilledAfterTerm
<1> HIDE DEF x
<1> QED BY <1>1, <1>2, <1>3, PrinterStepOK

\* What follows the end of a read keeps the invariant, when the answer is in heard.
LEMMA AfterRpcOK ==
  ASSUME CliIInv, awaitedId # 0, NEW x \in ProgramRecs, ToldOrRead(x),
         x.life = "running" => Runs("codex"), x.life # "none",
         NEW what \in {"limits", "auth", "other", "error", "timeout"}, AfterRpc(what, x),
         heard' \in [1 .. 4 -> {"nothing", "limits", "auth", "other", "error"}],
         what \in {"limits", "auth"} => heard'[awaitedId] = what
  PROVE  CliIInv'
<1>1. /\ programs \in [Programs -> ProgramRecs] /\ \A c \in Programs : ToldOrRead(programs[c])
      /\ awaitedId \in {1, 2, 3, 4} /\ codexFound = "nothing"
      /\ (Runs("codex") => awaitedId \in askedIds)
      /\ (3 \in askedIds => 2 \in askedIds /\ awaitedId \notin {1, 2})
  BY DEF CliIInv
<1>2. ASSUME NEW y \in ProgramRecs, programs' = [programs EXCEPT !["codex"] = y], ToldOrRead(y)
      PROVE  /\ programs' \in [Programs -> ProgramRecs] /\ programs'["codex"] = y
             /\ \A c \in Programs : ToldOrRead(programs'[c])
  BY <1>1, <1>2, CodexIsProgram
<1>3. ASSUME NEW id \in {2, 3, 4}, AskingRpc(id, x),
             id = 2 => awaitedId = 1, id = 3 => awaitedId = 2, id = 4 => awaitedId = 3
      PROVE  CliIInv'
  <2>1. /\ awaitedId' = id /\ programs' = [programs EXCEPT !["codex"] = x]
        /\ askedIds' = (IF x.life = "running" THEN askedIds \cup {id} ELSE askedIds)
        /\ codexFound' = "nothing"
    BY <1>1, <1>3 DEF AskingRpc
  <2>2. /\ programs' \in [Programs -> ProgramRecs] /\ programs'["codex"] = x
        /\ \A c \in Programs : ToldOrRead(programs'[c])
    BY <1>2, <2>1
  <2>3. Runs("codex")' => id \in askedIds'
    BY <2>1, <2>2 DEF Runs
  <2>4. 3 \in askedIds' => 2 \in askedIds' /\ id \notin {1, 2}
    BY <1>1, <1>3, <2>1
  <2> QED BY <2>1, <2>2, <2>3, <2>4 DEF CliIInv
<1>4. ASSUME NEW found \in {"limits", "auth", "timeout", "unavailable"}, FoundCodex(found, x),
             found = "limits" => awaitedId \in {2, 4} /\ what = "limits",
             found = "auth" => awaitedId = 3 /\ what = "auth"
      PROVE  CliIInv'
  <2>1. /\ codexFound' = found /\ awaitedId' = 0 /\ askedIds' = askedIds
        /\ programs' = [programs EXCEPT !["codex"] = ReadGivenUp(x)]
    BY <1>4 DEF FoundCodex
  <2>2. /\ ReadGivenUp(x) \in ProgramRecs /\ ToldOrRead(ReadGivenUp(x))
        /\ ~ReadGivenUp(x).read /\ ReadGivenUp(x).life # "none"
    BY GivenUpOK DEF ToldOrRead
  <2>3. /\ programs' \in [Programs -> ProgramRecs] /\ programs'["codex"] = ReadGivenUp(x)
        /\ \A c \in Programs : ToldOrRead(programs'[c])
    BY <1>2, <2>1, <2>2
  <2>4. /\ (found = "limits" => \E id \in {2, 4} : heard'[id] = "limits")
        /\ (found = "auth" => heard'[3] = "auth")
        /\ (3 \in askedIds /\ found = "limits" => heard'[4] = "limits")
    BY <1>1, <1>4
  <2> QED BY <1>1, <2>1, <2>2, <2>3, <2>4 DEF CliIInv
<1>5. \/ awaitedId = 1 /\ AskingRpc(2, x)
      \/ FoundCodex("timeout", x) \/ FoundCodex("unavailable", x)
      \/ awaitedId \in {2, 4} /\ what = "limits" /\ FoundCodex("limits", x)
      \/ awaitedId = 2 /\ AskingRpc(3, x)
      \/ awaitedId = 3 /\ what = "auth" /\ FoundCodex("auth", x)
      \/ awaitedId = 3 /\ AskingRpc(4, x)
  BY <1>1 DEF AfterRpc
<1> QED BY <1>3, <1>4, <1>5

LEMMA CodexStepsOK ==
  ASSUME CliIInv,
         \/ \E works \in BOOLEAN : StartCodex(works)
         \/ \E id \in 1 .. 4, what \in {"limits", "auth", "other", "error"} : RpcAnswers(id, what)
         \/ \E what \in {"timeout", "error"} : RpcFails(what)
         \/ CodexCloses \/ Watchdog
  PROVE  CliIInv'
<1> DEFINE x == programs["codex"]
<1>1. /\ programs \in [Programs -> ProgramRecs] /\ x \in ProgramRecs
      /\ ToldOrRead(x) /\ \A c \in Programs : ToldOrRead(programs[c])
      /\ heard \in [1 .. 4 -> {"nothing", "limits", "auth", "other", "error"}]
      /\ (awaitedId # 0 => x.life # "none") /\ (x.life = "none" => codexFound = "nothing" /\ awaitedId = 0)
  BY CodexIsProgram DEF CliIInv
<1>2. ASSUME NEW works \in BOOLEAN, StartCodex(works) PROVE CliIInv'
  <2> DEFINE y == IF works THEN [life |-> "running", told |-> "no", read |-> TRUE]
                  ELSE [life |-> "failed", told |-> "no", read |-> FALSE]
  <2>1. /\ x.life = "none" /\ programs' = [programs EXCEPT !["codex"] = y] /\ heard' = heard
        /\ IF works THEN awaitedId' = 1 /\ askedIds' = {1} /\ UNCHANGED codexFound
           ELSE codexFound' = "unavailable" /\ UNCHANGED <<awaitedId, askedIds>>
    BY <1>2 DEF StartCodex, Spawned
  <2>2. /\ y \in ProgramRecs /\ ToldOrRead(y) /\ y.life # "none" /\ (y.read => works)
        /\ (y.life = "running" => works)
    BY DEF ProgramRecs, ToldOrRead
  <2> HIDE DEF y
  <2>3. /\ programs' \in [Programs -> ProgramRecs] /\ programs'["codex"] = y
        /\ \A c \in Programs : ToldOrRead(programs'[c])
    BY <1>1, <2>1, <2>2, CodexIsProgram
  <2>4. codexFound = "nothing" /\ awaitedId = 0
    BY <1>1, <2>1
  <2>5. CASE works
    BY <1>1, <2>1, <2>2, <2>3, <2>4, <2>5 DEF CliIInv, Runs
  <2>6. CASE ~works
    BY <1>1, <2>1, <2>2, <2>3, <2>4, <2>6 DEF CliIInv, Runs
  <2> QED BY <2>5, <2>6
<1>3. ASSUME NEW id \in 1 .. 4, NEW what \in {"limits", "auth", "other", "error"},
             RpcAnswers(id, what)
      PROVE  CliIInv'
  <2>1. /\ heard[id] = "nothing" /\ heard' = [heard EXCEPT ![id] = what] /\ x.life = "running"
        /\ IF id = awaitedId THEN AfterRpc(what, x)
           ELSE UNCHANGED <<programs, awaitedId, askedIds, codexFound>>
    BY <1>3 DEF RpcAnswers, Runs
  <2>2. /\ heard' \in [1 .. 4 -> {"nothing", "limits", "auth", "other", "error"}]
        /\ heard'[id] = what /\ \A j \in 1 .. 4 : heard[j] # "nothing" => heard'[j] = heard[j]
    BY <1>1, <2>1
  <2>3. CASE id = awaitedId
    <3>1. awaitedId # 0 /\ heard'[awaitedId] = what /\ Runs("codex") /\ AfterRpc(what, x)
      BY <2>1, <2>2, <2>3 DEF Runs
    <3>2. /\ x \in ProgramRecs /\ ToldOrRead(x) /\ x.life # "none"
          /\ (x.life = "running" => Runs("codex"))
          /\ (what \in {"limits", "auth"} => heard'[awaitedId] = what)
          /\ what \in {"limits", "auth", "other", "error", "timeout"}
      BY <1>1, <2>1, <3>1
    <3> HIDE DEF x
    <3> QED BY ONLY CliIInv, <2>2, <3>1, <3>2, AfterRpcOK
  <2>4. CASE id # awaitedId
    <3>1. UNCHANGED <<programs, awaitedId, askedIds, codexFound>>
      BY <2>1, <2>4
    <3>2. \A j \in {2, 3, 4} : heard[j] \in {"limits", "auth"} => heard'[j] = heard[j]
      BY <2>2
    <3> QED BY <2>2, <3>1, <3>2 DEF CliIInv, Runs
  <2> QED BY <2>3, <2>4
<1>4. ASSUME NEW what \in {"timeout", "error"}, RpcFails(what) PROVE CliIInv'
  <2>1. awaitedId # 0 /\ heard' = heard /\ AfterRpc(what, x)
    BY <1>4 DEF RpcFails
  <2>2. x.life = "running" => Runs("codex")
    BY DEF Runs
  <2>3. /\ x \in ProgramRecs /\ ToldOrRead(x) /\ x.life # "none"
        /\ heard' \in [1 .. 4 -> {"nothing", "limits", "auth", "other", "error"}]
        /\ (what \in {"limits", "auth"} => heard'[awaitedId] = what)
        /\ what \in {"limits", "auth", "other", "error", "timeout"}
    BY <1>1, <2>1
  <2> HIDE DEF x
  <2> QED BY ONLY CliIInv, <2>1, <2>2, <2>3, AfterRpcOK
<1>5. CASE CodexCloses
  <2> DEFINE y == [x EXCEPT !.life = "closed"]
  <2>1. y \in ProgramRecs /\ ToldOrRead(y) /\ y.life = "closed" /\ y.read = x.read
    BY <1>1 DEF ProgramRecs, ToldOrRead
  <2>2. CASE awaitedId # 0
    <3>1. AfterRpc("error", y) /\ heard' = heard
      BY <1>5, <2>2 DEF CodexCloses
    <3> HIDE DEF x, y
    <3> QED BY <1>1, <2>1, <2>2, <3>1, AfterRpcOK
  <2>3. CASE awaitedId = 0
    <3>1. /\ programs' = [programs EXCEPT !["codex"] = y]
          /\ UNCHANGED <<awaitedId, askedIds, codexFound, heard>>
      BY <1>1, <1>5, <2>3, CodexIsProgram DEF CodexCloses
    <3> HIDE DEF y
    <3>2. /\ programs' \in [Programs -> ProgramRecs] /\ programs'["codex"] = y
          /\ \A c \in Programs : ToldOrRead(programs'[c])
      BY <1>1, <2>1, <3>1, CodexIsProgram
    <3> QED BY <1>1, <2>1, <2>3, <3>1, <3>2 DEF CliIInv, Runs
  <2> QED BY <2>2, <2>3
<1>6. CASE Watchdog
  <2>1. /\ programs' = [programs EXCEPT !["codex"] = Terminated(x)]
        /\ UNCHANGED <<awaitedId, askedIds, heard, codexFound>> /\ x.life = "running"
    BY <1>6 DEF Watchdog, Runs
  <2>2. /\ Terminated(x) \in ProgramRecs /\ ToldOrRead(Terminated(x))
        /\ Terminated(x).life = x.life /\ Terminated(x).read = x.read
    BY <1>1, <2>1, GivenUpOK DEF ToldOrRead
  <2> QED BY <2>1, <2>2, CodexIsProgram, PrinterStepOK
<1> QED BY <1>2, <1>3, <1>4, <1>5, <1>6

LEMMA CliStepOK == CliIInv /\ [CliNext]_cliVars => CliIInv'
<1> SUFFICES ASSUME CliIInv, [CliNext]_cliVars PROVE CliIInv'
  OBVIOUS
<1>1. CASE UNCHANGED cliVars \/ ResolveCopy
  BY <1>1 DEF cliVars, ResolveCopy, CliIInv, Runs
<1>2. CASE CliNext
  <2>1. ASSUME NEW c \in CopySet \cup {"bl"},
               \/ \E works \in BOOLEAN : StartPrinter(c, works)
               \/ \E v \in 0 .. MaxVersion : PrinterCloses(c, v) \/ PrinterGivenUp(c, v)
        PROVE  CliIInv'
    BY <2>1, PrintersOK, Zenon
  <2>2. ASSUME NEW c \in Programs, KilledAfterTerm(c) PROVE CliIInv'
    BY <2>2, KilledOK
  <2> QED BY <1>1, <1>2, <2>1, <2>2, CodexStepsOK, Zenon DEF CliNext
<1> QED BY <1>1, <1>2

LEMMA CliIsSound == CliIInv => ProgramsEnd
<1> SUFFICES ASSUME CliIInv PROVE ProgramsEnd
  OBVIOUS
<1>1. \A c \in Programs : Runs(c) /\ ~programs[c].read => programs[c].told # "no"
  BY DEF CliIInv, ToldOrRead, Runs
<1> QED BY <1>1 DEF CliIInv, ProgramsEnd, IsRead

\* No program of a refresh is left behind, and what is reported of codex was answered to
\* the read it is reported for (terminateChild, queryCodex).
THEOREM ProgramsAlwaysEnd == CliSpec => []ProgramsEnd
BY CliInitOK, CliStepOK, CliIsSound, PTL DEF CliSpec
=============================================================================
