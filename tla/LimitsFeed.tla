----------------------------- MODULE LimitsFeed -----------------------------
(***************************************************************************)
(* tui/lib/limits-helper.js: the shared feed of provider limits.  Views    *)
(* own it by reference counting: the first owner starts the refresh timer  *)
(* and the ticker, the last release stops both.  One refresh at a time     *)
(* asks both provider programs; a provider that is unusable is left alone  *)
(* for a while (loadWithBackoff).                                          *)
(***************************************************************************)
EXTENDS Naturals, Sequences, FiniteSets

CONSTANTS LimitViews,  \* views that own the feed while mounted
          Providers    \* provider programs asked by a refresh

VARIABLES feedOwners,      \* views that hold the feed
          refreshTimer,\* the interval of refreshes is armed
          tickers,     \* timers of the ticker that are armed
          ticks,       \* ticks awaiting refreshGemini
          pending,     \* refreshPending
          refreshes,   \* refreshes under way: what each still does per provider
          backoff,     \* providerStates: what was found, and whether it may be asked
          cacheFresh   \* cache younger than CACHE_TTL

feedVars == <<feedOwners, refreshTimer, tickers, ticks, pending, refreshes, backoff,
              cacheFresh>>

Unasked == [found |-> "nothing", closed |-> FALSE]

-----------------------------------------------------------------------------
(* requestRefresh, refresh, loadWithBackoff *)

\* A provider in its backoff answers from what was found before; so does one
\* that is switched off.
AskedNow == [p \in Providers |-> IF backoff[p].closed THEN "done" ELSE "asked"]

\* Faulty variant: a forced refresh does not join the one under way.
JoinsNever(force) == FALSE
\* refreshPending
Joins(force) == pending

RequestRefresh(force) ==
  IF (~force /\ cacheFresh) \/ Joins(force) THEN UNCHANGED <<pending, refreshes>>
  ELSE /\ pending' = TRUE
       /\ refreshes' = Append(refreshes, AskedNow)

\* refreshLimits and getLimits of a view or a command.
AskForLimits(force) ==
  /\ Len(refreshes) < 2
  /\ RequestRefresh(force)
  /\ UNCHANGED <<feedOwners, refreshTimer, tickers, ticks, backoff, cacheFresh>>

RefreshTimerFires ==
  /\ refreshTimer /\ Len(refreshes) < 2
  /\ RequestRefresh(TRUE)
  /\ UNCHANGED <<feedOwners, refreshTimer, tickers, ticks, backoff, cacheFresh>>

\* queryCodex: the rate limits are read; only a read that failed without a
\* timeout refreshes the token, and what follows is one more read.
ReadFailed(i, p) ==
  /\ refreshes[i][p] = "asked"
  /\ refreshes' = [refreshes EXCEPT ![i][p] = "again"]
  /\ UNCHANGED <<feedOwners, refreshTimer, tickers, ticks, pending, backoff,
                 cacheFresh>>

\* usable; setup: no program, no login, an expired session; error: backs off for
\* Alibaba only; the result of a provider closes or opens it.
ProviderAnswers(i, p, found) ==
  /\ refreshes[i][p] \in {"asked", "again"}
  /\ refreshes' = [refreshes EXCEPT ![i][p] = "done"]
  /\ \E closed \in IF found = "error" THEN BOOLEAN ELSE {found = "setup"} :
       backoff' = [backoff EXCEPT ![p] = [found |-> found, closed |-> closed]]
  /\ UNCHANGED <<feedOwners, refreshTimer, tickers, ticks, pending, cacheFresh>>

\* retryAt has passed, or the environment changed and with it the key.
BackoffOver(p) ==
  /\ backoff[p].closed
  /\ backoff' = [backoff EXCEPT ![p].closed = FALSE]
  /\ UNCHANGED <<feedOwners, refreshTimer, tickers, ticks, pending, refreshes,
                 cacheFresh>>

RefreshDone(i) ==
  /\ \A p \in Providers : refreshes[i][p] = "done"
  /\ refreshes' = [j \in 1 .. Len(refreshes) - 1 |->
                     IF j < i THEN refreshes[j] ELSE refreshes[j + 1]]
  /\ pending' = FALSE /\ cacheFresh' = TRUE
  /\ UNCHANGED <<feedOwners, refreshTimer, tickers, ticks, backoff>>

CacheAges ==
  /\ cacheFresh
  /\ cacheFresh' = FALSE
  /\ UNCHANGED <<feedOwners, refreshTimer, tickers, ticks, pending, refreshes, backoff>>

-----------------------------------------------------------------------------
(* acquireLimits, startFeed, stopFeed *)

\* Faulty variant: every caller arms a ticker of its own.
MayTickAlways(held) == held # {}
\* scheduleTick
MayTick(held) == held # {} /\ tickers = 0

Acquire(v) ==
  /\ v \notin feedOwners /\ Len(refreshes) < 2
  /\ feedOwners' = feedOwners \cup {v}
  /\ IF feedOwners = {}
     THEN /\ refreshTimer' = TRUE
          /\ tickers' = IF MayTick(feedOwners') THEN tickers + 1 ELSE tickers
          /\ RequestRefresh(FALSE)
     ELSE UNCHANGED <<refreshTimer, tickers, pending, refreshes>>
  /\ UNCHANGED <<ticks, backoff, cacheFresh>>

\* Stopping clears the timer in tickTimer; a tick or a refresh under way goes on.
Release(v) ==
  /\ v \in feedOwners
  /\ feedOwners' = feedOwners \ {v}
  /\ IF feedOwners' = {}
     THEN refreshTimer' = FALSE /\ tickers' = IF tickers = 0 THEN 0 ELSE tickers - 1
     ELSE UNCHANGED <<refreshTimer, tickers>>
  /\ UNCHANGED <<ticks, pending, refreshes, backoff, cacheFresh>>

\* The ticker fires and reads the state of Gemini.
TickFires ==
  /\ tickers > 0 /\ ticks < 2
  /\ tickers' = tickers - 1
  /\ ticks' = IF feedOwners = {} THEN ticks ELSE ticks + 1
  /\ UNCHANGED <<feedOwners, refreshTimer, pending, refreshes, backoff, cacheFresh>>

TickEnds ==
  /\ ticks > 0
  /\ ticks' = ticks - 1
  /\ tickers' = IF MayTick(feedOwners) THEN tickers + 1 ELSE tickers
  /\ UNCHANGED <<feedOwners, refreshTimer, pending, refreshes, backoff, cacheFresh>>

-----------------------------------------------------------------------------
FeedInit ==
  /\ feedOwners = {} /\ refreshTimer = FALSE /\ tickers = 0 /\ ticks = 0
  /\ pending = FALSE /\ refreshes = <<>> /\ cacheFresh = FALSE
  /\ backoff = [p \in Providers |-> Unasked]

FeedNext ==
  \/ \E force \in BOOLEAN : AskForLimits(force)
  \/ RefreshTimerFires \/ CacheAges \/ TickFires \/ TickEnds
  \/ \E i \in DOMAIN refreshes : RefreshDone(i)
  \/ \E i \in DOMAIN refreshes, p \in Providers :
       \/ ReadFailed(i, p)
       \/ \E found \in {"usable", "setup", "error"} : ProviderAnswers(i, p, found)
  \/ \E p \in Providers : BackoffOver(p)
  \/ \E v \in LimitViews : Acquire(v) \/ Release(v)

FeedSpec == FeedInit /\ [][FeedNext]_feedVars

\* The feed keeps values of their types.
FeedTypeOK ==
  /\ feedOwners \subseteq LimitViews /\ refreshTimer \in BOOLEAN
  /\ tickers \in Nat /\ ticks \in Nat
  /\ pending \in BOOLEAN /\ cacheFresh \in BOOLEAN
  /\ refreshes \in Seq([Providers -> {"asked", "again", "done"}])
  /\ backoff \in [Providers -> [found : {"nothing", "usable", "setup", "error"},
                                closed : BOOLEAN]]

\* The timers run exactly while a view owns the feed, whatever ticks were under
\* way when it was released and taken again.
FeedOwned ==
  /\ refreshTimer <=> feedOwners # {}
  /\ tickers \in {0, 1}
  /\ feedOwners # {} => tickers = 1 \/ ticks > 0
  /\ feedOwners = {} => tickers = 0

\* A provider program is asked by one refresh at a time, and never in its backoff.
OneQuery ==
  /\ pending <=> refreshes # <<>>
  /\ \A i \in DOMAIN refreshes, p \in Providers :
       refreshes[i][p] # "done" => ~backoff[p].closed /\ Len(refreshes) = 1

\* The limits cost what their owners pay for.
FeedSound == FeedOwned /\ OneQuery

-----------------------------------------------------------------------------
(***************************************************************************)
(* plugins/gemini-rate-limit.js and its readers: the countdown to a retry  *)
(* that the host scheduled.  Each loaded instance of the plugin renders    *)
(* its newest countdown to one state file, once a second; the terminal     *)
(* (watchRateLimit) and the web page (pollRateLimitNow) show the file.     *)
(***************************************************************************)
CONSTANTS Instances,  \* locations, each with its instance of the plugin
          MaxClock,   \* bound: seconds
          MaxDelay    \* bound: seconds until a retry

VARIABLES clock,
          limitFile,   \* rate-limit.json: active and until
          loaded,      \* instances that are loaded
          countdowns,  \* until of the countdown an instance renders, 0 for none
          rendered,    \* instances that rendered in this second
          newest,      \* until of the newest scheduled retry
          crowded,     \* two instances had countdowns at once
          watchedUntil,     \* until shown by the terminal, 0 for none
          chatsRun,    \* the page: state.running is not empty
          pageRead,    \* the page: the file a read brings, and whether it counts
          pageShows    \* the page: rateLimitActiveState

countdownVars == <<clock, limitFile, loaded, countdowns, rendered, newest, crowded,
                   watchedUntil, chatsRun, pageRead, pageShows>>

Written(until) == [active |-> until > clock, until |-> until]
Inactive == [active |-> FALSE, until |-> 0]
NoPageRead == [stage |-> "none", active |-> FALSE, current |-> TRUE]
Live(i) == countdowns[i] > clock

-----------------------------------------------------------------------------
(* The plugin *)

\* The next second begins once every countdown was rendered.
SecondPasses ==
  /\ clock < MaxClock
  /\ \A i \in Instances : countdowns[i] # 0 => i \in rendered
  /\ clock' = clock + 1 /\ rendered' = {}
  /\ UNCHANGED <<limitFile, loaded, countdowns, newest, crowded, watchedUntil, chatsRun,
                 pageRead, pageShows>>

\* The retry hook of a 429: a later attempt is not retried and shows nothing.
ScheduleRetry(i, delay) ==
  /\ i \in loaded
  /\ countdowns' = [countdowns EXCEPT ![i] = clock + delay]
  /\ limitFile' = Written(clock + delay)
  /\ newest' = clock + delay
  /\ rendered' = rendered \cup {i}
  /\ crowded' = \E j \in Instances \ {i} : countdowns[j] # 0
  /\ UNCHANGED <<clock, loaded, watchedUntil, chatsRun, pageRead, pageShows>>

\* The interval of a countdown; its last rendering clears the file and itself.
Render(i) ==
  /\ countdowns[i] # 0 /\ i \notin rendered
  /\ limitFile' = Written(countdowns[i])
  /\ countdowns' = IF Live(i) THEN countdowns ELSE [countdowns EXCEPT ![i] = 0]
  /\ rendered' = rendered \cup {i}
  /\ UNCHANGED <<clock, loaded, newest, crowded, watchedUntil, chatsRun, pageRead,
                 pageShows>>

\* Faulty variant: a load starts from a clean state.
ResumedNever(i) == 0
\* A live countdown is taken over from the file; a stale flag is cleared.
Resumed(i) == IF limitFile.active /\ limitFile.until > clock THEN limitFile.until ELSE 0

LoadInstance(i) ==
  /\ i \notin loaded
  /\ loaded' = loaded \cup {i}
  /\ countdowns' = [countdowns EXCEPT ![i] = Resumed(i)]
  /\ limitFile' = IF Resumed(i) # 0 THEN Written(Resumed(i))
                  ELSE IF limitFile.active THEN Inactive ELSE limitFile
  /\ crowded' = (crowded \/ \E j \in Instances \ {i} : countdowns[j] # 0)
  /\ rendered' = rendered \cup {i}
  /\ UNCHANGED <<clock, newest, watchedUntil, chatsRun, pageRead, pageShows>>

\* The host still retries after an unload: only an expired flag is cleared.
UnloadInstance(i) ==
  /\ i \in loaded
  /\ loaded' = loaded \ {i}
  /\ countdowns' = [countdowns EXCEPT ![i] = 0]
  /\ limitFile' = IF limitFile.active /\ limitFile.until <= clock THEN Inactive ELSE limitFile
  /\ UNCHANGED <<clock, rendered, newest, crowded, watchedUntil, chatsRun, pageRead,
                 pageShows>>

-----------------------------------------------------------------------------
(* watchRateLimit: a poll derives the seconds from until (normalizeRateLimit) *)

WatchPolls ==
  /\ watchedUntil' = IF limitFile.active /\ limitFile.until > clock THEN limitFile.until ELSE 0
  /\ watchedUntil' # watchedUntil
  /\ UNCHANGED <<clock, limitFile, loaded, countdowns, rendered, newest, crowded,
                 chatsRun, pageRead, pageShows>>

-----------------------------------------------------------------------------
(* The page: pollRateLimit, pollRateLimitNow, renderRunControls *)

\* When the last run ends, renderRunControls takes the countdown away.
RunsChange ==
  /\ chatsRun' = ~chatsRun
  /\ pageShows' = (pageShows /\ ~chatsRun)
  /\ UNCHANGED <<clock, limitFile, loaded, countdowns, rendered, newest, crowded,
                 watchedUntil, pageRead>>

\* A forced poll makes the read under way void.
PagePolls ==
  /\ chatsRun
  /\ pageRead' = IF pageRead.stage = "none"
                 THEN [stage |-> "read", active |-> limitFile.active, current |-> TRUE]
                 ELSE [pageRead EXCEPT !.current = FALSE]
  /\ UNCHANGED <<clock, limitFile, loaded, countdowns, rendered, newest, crowded,
                 watchedUntil, chatsRun, pageShows>>

\* Faulty variant: an answer counts although nothing runs any more.
CountsAnyway(x) == TRUE
\* The answer counts for the newest poll and while something runs.
PageCounts(x) == x.current /\ chatsRun

PollAnswered ==
  /\ pageRead.stage = "read"
  /\ pageRead' = NoPageRead
  /\ pageShows' = IF PageCounts(pageRead) THEN pageRead.active ELSE pageShows
  /\ UNCHANGED <<clock, limitFile, loaded, countdowns, rendered, newest, crowded,
                 watchedUntil, chatsRun>>

-----------------------------------------------------------------------------
CountdownInit ==
  /\ clock = 0 /\ limitFile = Inactive /\ loaded = {} /\ rendered = {}
  /\ countdowns = [i \in Instances |-> 0] /\ newest = 0 /\ crowded = FALSE
  /\ watchedUntil = 0 /\ chatsRun = FALSE /\ pageRead = NoPageRead /\ pageShows = FALSE

CountdownNext ==
  \/ SecondPasses \/ WatchPolls \/ RunsChange \/ PagePolls \/ PollAnswered
  \/ \E i \in Instances : \/ Render(i) \/ LoadInstance(i) \/ UnloadInstance(i)
                          \/ \E delay \in 1 .. MaxDelay : ScheduleRetry(i, delay)

CountdownSpec == CountdownInit /\ [][CountdownNext]_countdownVars

\* The countdown keeps values of their types.
CountdownTypeOK ==
  /\ clock \in Nat /\ newest \in Nat /\ watchedUntil \in Nat
  /\ loaded \subseteq Instances /\ rendered \subseteq Instances
  /\ limitFile \in [active : BOOLEAN, until : Nat]
  /\ countdowns \in [Instances -> Nat]
  /\ crowded \in BOOLEAN /\ chatsRun \in BOOLEAN /\ pageShows \in BOOLEAN
  /\ pageRead \in [stage : {"none", "read"}, active : BOOLEAN, current : BOOLEAN]

\* The newest scheduled retry stays on display through reloads of the plugin as
\* long as one instance has countdowns; and a page on which nothing runs shows no
\* countdown.
CountdownKept ==
  /\ newest > clock /\ ~crowded => limitFile = [active |-> TRUE, until |-> newest]
  /\ pageShows => chatsRun

-----------------------------------------------------------------------------
(***************************************************************************)
(* limits-helper.js: the programs a refresh runs (resolveBinary,           *)
(* queryCodex, queryBailian).  The installed copies of codex print their   *)
(* versions, the newest one answers a JSON-RPC dialogue, bl prints once.   *)
(* A program is told to end when its read is given up (terminateChild); it *)
(* stands for its process group.                                           *)
(***************************************************************************)
CONSTANTS Copies,     \* copies of codex, in the order of PATH
          MaxVersion  \* bound: versions a copy prints

VARIABLES programs,   \* of each program: its life, what it was told, whether it is read
          versions,   \* versions read, 0 for an unknown one
          chosenCopy, \* resolvedBinaries: position of the copy that serves, 0 for none
          awaitedId,  \* id of the answer that queryCodex reads, 0 for none
          askedIds,   \* ids the app-server has been asked
          heard,      \* what the app-server answered to each id
          codexFound  \* result of queryCodex

cliVars == <<programs, versions, chosenCopy, awaitedId, askedIds, heard, codexFound>>

CopySet == {Copies[i] : i \in DOMAIN Copies}
Programs == CopySet \cup {"codex", "bl"}

ASSUME CliAssumption == CopySet \cap {"codex", "bl"} = {}

Runs(c) == programs[c].life = "running"
IsRead(c) == Runs(c) /\ programs[c].read

\* terminateChild: a program that has ended, or never began, gets no signal.
Terminated(x) ==
  IF x.life = "running" /\ x.told = "no" THEN [x EXCEPT !.told = "term"] ELSE x

\* Faulty variant: a read that is given up leaves its program running.
LeftRunning(x) == [x EXCEPT !.read = FALSE]
\* finish, after terminateChild
ReadGivenUp(x) == [Terminated(x) EXCEPT !.read = FALSE]

\* spawnCli; a spawn that throws and the error event of one end the read alike.
Spawned(c, works) ==
  [programs EXCEPT ![c] = IF works THEN [life |-> "running", told |-> "no", read |-> TRUE]
                          ELSE [life |-> "failed", told |-> "no", read |-> FALSE]]

-----------------------------------------------------------------------------
(* Programs that print once: binaryVersion and queryBailian *)

\* Copies are asked together and only when there are several and none was chosen in the
\* last ten minutes; bl serves without.
StartPrinter(c, works) ==
  /\ programs[c].life = "none"
  /\ c \in CopySet => chosenCopy = 0 /\ Len(Copies) > 1
  /\ programs' = Spawned(c, works)
  /\ UNCHANGED <<versions, chosenCopy, awaitedId, askedIds, heard, codexFound>>

\* The close event; what was printed may not be a version.
PrinterCloses(c, v) ==
  /\ Runs(c) /\ c # "codex"
  /\ programs' = [programs EXCEPT ![c].life = "closed", ![c].read = FALSE]
  /\ versions' = IF c \in CopySet /\ IsRead(c) THEN [versions EXCEPT ![c] = v] ELSE versions
  /\ UNCHANGED <<chosenCopy, awaitedId, askedIds, heard, codexFound>>

\* The timeout (nothing is known then), or more than 4096 or MAX_STDOUT_BYTES of output.
PrinterGivenUp(c, v) ==
  /\ IsRead(c) /\ c # "codex"
  /\ programs' = [programs EXCEPT ![c] = ReadGivenUp(@)]
  /\ versions' = IF c \in CopySet THEN [versions EXCEPT ![c] = v] ELSE versions
  /\ UNCHANGED <<chosenCopy, awaitedId, askedIds, heard, codexFound>>

\* resolveBinary: the highest version, ties in the order of PATH.
NewestCopy(i) ==
  \A j \in DOMAIN Copies : \/ versions[Copies[j]] < versions[Copies[i]]
                           \/ versions[Copies[j]] = versions[Copies[i]] /\ i <= j

ResolveCopy ==
  /\ chosenCopy = 0
  /\ Len(Copies) > 1 =>
       \A c \in CopySet : programs[c].life \in {"running", "failed", "closed"} /\ ~IsRead(c)
  /\ chosenCopy' = IF Len(Copies) > 1 THEN CHOOSE i \in DOMAIN Copies : NewestCopy(i) ELSE 1
  /\ versions' = [c \in CopySet |-> 0] \* not read again
  /\ UNCHANGED <<programs, awaitedId, askedIds, heard, codexFound>>

\* The timer of terminateChild.
KilledAfterTerm(c) ==
  /\ Runs(c) /\ programs[c].told = "term"
  /\ programs' = [programs EXCEPT ![c].told = "kill"]
  /\ UNCHANGED <<versions, chosenCopy, awaitedId, askedIds, heard, codexFound>>

-----------------------------------------------------------------------------
(* queryCodex: initialize is 1, the rate limits 2 and 4, account/read 3 *)

\* A closed program is asked in vain.
AskingRpc(id, x) ==
  /\ awaitedId' = id /\ programs' = [programs EXCEPT !["codex"] = x]
  /\ askedIds' = IF x.life = "running" THEN askedIds \cup {id} ELSE askedIds
  /\ UNCHANGED codexFound

FoundCodex(found, x) ==
  /\ codexFound' = found /\ awaitedId' = 0
  /\ programs' = [programs EXCEPT !["codex"] = ReadGivenUp(x)]
  /\ UNCHANGED askedIds

StartCodex(works) ==
  /\ programs["codex"].life = "none" /\ chosenCopy # 0
  /\ programs' = Spawned("codex", works)
  /\ IF works THEN awaitedId' = 1 /\ askedIds' = {1} /\ UNCHANGED codexFound
     ELSE codexFound' = "unavailable" /\ UNCHANGED <<awaitedId, askedIds>>
  /\ UNCHANGED <<versions, chosenCopy, heard>>

\* What follows a read that ends so: the token is refreshed after limits that were
\* refused, not late, and then they are read once more.
AfterRpc(what, x) ==
  CASE awaitedId = 1 /\ what = "other" -> AskingRpc(2, x)
    [] awaitedId \in {1, 2} /\ what = "timeout" -> FoundCodex("timeout", x)
    [] awaitedId \in {2, 4} /\ what = "limits" -> FoundCodex("limits", x)
    [] awaitedId = 2 -> AskingRpc(3, x)
    [] awaitedId = 3 /\ what = "auth" -> FoundCodex("auth", x)
    [] awaitedId = 3 -> AskingRpc(4, x)
    [] OTHER -> FoundCodex("unavailable", x)

AnswersTo(id) == {"error", "other"} \cup CASE id = 1 -> {} [] id = 3 -> {"auth"}
                                           [] OTHER -> {"limits"}

\* processBuffer: an answer whose id is not the expected one is skipped.
RpcAnswers(id, what) ==
  /\ Runs("codex") /\ id \in askedIds /\ heard[id] = "nothing" /\ what \in AnswersTo(id)
  /\ heard' = [heard EXCEPT ![id] = what]
  /\ IF id = awaitedId THEN AfterRpc(what, programs["codex"])
     ELSE UNCHANGED <<programs, awaitedId, askedIds, codexFound>>
  /\ UNCHANGED <<versions, chosenCopy>>

\* The read fails: no answer in time, or a response too large.
RpcFails(what) ==
  /\ awaitedId # 0
  /\ what = "error" => Runs("codex")
  /\ AfterRpc(what, programs["codex"])
  /\ UNCHANGED <<versions, chosenCopy, heard>>

CodexCloses ==
  /\ Runs("codex")
  /\ IF awaitedId # 0 THEN AfterRpc("error", [programs["codex"] EXCEPT !.life = "closed"])
     ELSE /\ programs' = [programs EXCEPT !["codex"].life = "closed"]
          /\ UNCHANGED <<awaitedId, askedIds, codexFound>>
  /\ UNCHANGED <<versions, chosenCopy, heard>>

\* The watchdog outlasts all reads but the fourth.
Watchdog ==
  /\ awaitedId = 4 /\ Runs("codex") /\ programs["codex"].told = "no"
  /\ programs' = [programs EXCEPT !["codex"] = Terminated(@)]
  /\ UNCHANGED <<versions, chosenCopy, awaitedId, askedIds, heard, codexFound>>

-----------------------------------------------------------------------------
\* One provider is asked: the other is in its backoff (their programs share nothing).
\* A copy chosen in the last ten minutes serves again.
CliInit ==
  /\ \E due \in {"codex", "bl"} :
       programs = [c \in Programs |->
                     [life |-> IF (due = "bl") <=> (c = "bl") THEN "none" ELSE "spared",
                      told |-> "no", read |-> FALSE]]
  /\ versions = [c \in CopySet |-> 0] /\ chosenCopy \in {0, Len(Copies)}
  /\ awaitedId = 0 /\ askedIds = {} /\ heard = [id \in 1 .. 4 |-> "nothing"]
  /\ codexFound = "nothing"

CliNext ==
  \/ \E c \in CopySet \cup {"bl"} :
       \/ \E works \in BOOLEAN : StartPrinter(c, works)
       \/ \E v \in 0 .. MaxVersion : PrinterCloses(c, v) \/ PrinterGivenUp(c, v)
  \/ \E c \in Programs : KilledAfterTerm(c)
  \/ \E works \in BOOLEAN : StartCodex(works)
  \/ \E id \in 1 .. 4, what \in {"limits", "auth", "other", "error"} : RpcAnswers(id, what)
  \/ \E what \in {"timeout", "error"} : RpcFails(what)
  \/ ResolveCopy \/ CodexCloses \/ Watchdog

CliSpec == CliInit /\ [][CliNext]_cliVars

\* The programs keep values of their types.
CliTypeOK ==
  /\ programs \in [Programs -> [life : {"none", "spared", "running", "failed", "closed"},
                                told : {"no", "term", "kill"}, read : BOOLEAN]]
  /\ versions \in [CopySet -> 0 .. MaxVersion] /\ chosenCopy \in 0 .. Len(Copies)
  /\ awaitedId \in 0 .. 4 /\ askedIds \subseteq 1 .. 4
  /\ heard \in [1 .. 4 -> {"nothing", "limits", "auth", "other", "error"}]
  /\ codexFound \in {"nothing", "limits", "auth", "timeout", "unavailable"}

\* No program that a refresh ran is left behind: one that nobody reads any more has ended
\* or was told to, whichever read was given up and in whatever order answers came
\* (terminateChild).  What is reported was answered to the read it is reported for, and
\* a token refresh is asked only of an app-server that was asked for the limits first.
ProgramsEnd ==
  /\ \A c \in Programs : Runs(c) /\ ~programs[c].read => programs[c].told # "no"
  /\ codexFound # "nothing" => ~IsRead("codex")
  /\ codexFound = "limits" => \E id \in {2, 4} : heard[id] = "limits"
  /\ codexFound = "auth" => heard[3] = "auth"
  /\ 3 \in askedIds => 2 \in askedIds /\ (codexFound = "limits" => heard[4] = "limits")
=============================================================================
