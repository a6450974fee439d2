-------------------------- MODULE LocationRecovery --------------------------
(***************************************************************************)
(* config/plugins/tui/lib/location-recovery.js: the TUI's sync of an       *)
(* unavailable directory.  The first failure starts a run that checks it   *)
(* again every fifteen seconds and tells the session how far it is; going  *)
(* to another session, or moving this one, drops the run.                  *)
(***************************************************************************)
EXTENDS Naturals, FiniteSets

CONSTANTS Locations,  \* the locations of the sessions on screen
          NoPlace,    \* no session is on screen
          MaxRuns,    \* bound: runs started
          MaxRechecks \* checks of one run: 5

ASSUME LocationAssumption ==
  NoPlace \notin Locations /\ MaxRuns \in Nat /\ MaxRechecks \in Nat \ {0}

VARIABLES at,      \* the location of the session on screen
          runs,    \* runs[n]: the n-th run
          active,  \* the number of the active run, or 0
          started, \* runs started
          banner,  \* what the session shows
          moving,  \* the location a /move dialog is open for
          disposed \* the plugin is disposed

locationVars == <<at, runs, active, started, banner, moving, disposed>>

NoRecheck == [place |-> NoPlace, stage |-> "none", attempt |-> 0]
NoBanner == [place |-> NoPlace, attempt |-> 0, checking |-> FALSE, exhausted |-> FALSE]

\* onChange
Banner(n, attempt, checking, exhausted) ==
  [place |-> runs[n].place, attempt |-> attempt, checking |-> checking, exhausted |-> exhausted]

\* A waiting run is woken, finds that it is not active and rejects.
Woken(rs, n) ==
  IF n # 0 /\ rs[n].stage = "wait" THEN [rs EXCEPT ![n].stage = "done"] ELSE rs

Cancel == active' = 0 /\ banner' = NoBanner /\ runs' = Woken(runs, active)

\* Faulty variant: a run goes on as long as its session is on screen.
LiveForPlace(n) == ~disposed /\ runs[n].place = at
LiveRun(n) == ~disposed /\ active = n /\ runs[n].place = at

-----------------------------------------------------------------------------
(* sync *)

\* A sync of the location on screen joins its run, unless that one gave up.
SyncLocation ==
  /\ ~disposed /\ at # NoPlace /\ started < MaxRuns
  /\ ~(active # 0 /\ runs[active].place = at /\ runs[active].stage # "exhausted")
  /\ started' = started + 1 /\ active' = started + 1
  /\ runs' = [Woken(runs, active) EXCEPT ![started + 1] =
                [place |-> at, stage |-> "first", attempt |-> 0]]
  /\ banner' = NoBanner
  /\ UNCHANGED <<at, moving, disposed>>

\* The native sync of run n succeeds; only the active run clears the banner.
LocationSynced(n) ==
  /\ runs[n].stage \in {"first", "check"}
  /\ runs' = [runs EXCEPT ![n].stage = "done"]
  /\ IF active = n THEN active' = 0 /\ banner' = NoBanner ELSE UNCHANGED <<active,
                                                                           banner>>
  /\ UNCHANGED <<at, started, moving, disposed>>

\* It fails: the live run waits for its next check, or has had all of them.
SyncFails(n) ==
  /\ runs[n].stage \in {"first", "check"}
  /\ IF ~LiveRun(n)
     THEN /\ runs' = [runs EXCEPT ![n].stage = "done"]
          /\ IF active = n THEN active' = 0 /\ banner' = NoBanner
             ELSE UNCHANGED <<active, banner>>
     ELSE /\ IF runs[n].attempt < MaxRechecks
             THEN /\ runs' = [runs EXCEPT ![n].stage = "wait", ![n].attempt = @ + 1]
                  /\ banner' = Banner(n, runs[n].attempt + 1, FALSE, FALSE)
             ELSE /\ runs' = [runs EXCEPT ![n].stage = "exhausted"]
                  /\ banner' = Banner(n, MaxRechecks, FALSE, TRUE)
          /\ UNCHANGED active
  /\ UNCHANGED <<at, started, moving, disposed>>

\* Fifteen seconds later
Recheck(n) ==
  /\ runs[n].stage = "wait"
  /\ IF LiveRun(n)
     THEN /\ runs' = [runs EXCEPT ![n].stage = "check"]
          /\ banner' = Banner(n, runs[n].attempt, TRUE, FALSE)
          /\ UNCHANGED active
     ELSE /\ runs' = [runs EXCEPT ![n].stage = "done"]
          /\ IF active = n THEN active' = 0 /\ banner' = NoBanner
             ELSE UNCHANGED <<active, banner>>
  /\ UNCHANGED <<at, started, moving, disposed>>

-----------------------------------------------------------------------------
(* The screen *)

\* The route or the session's location changes; cancelStale follows it.
AtPlace(p) ==
  /\ at' = p
  /\ IF active # 0 /\ runs[active].place # p THEN Cancel ELSE UNCHANGED <<active,
                                                                          banner, runs>>

GoTo(p) == p # at /\ AtPlace(p) /\ UNCHANGED <<started, moving, disposed>>

\* chooseDirectory
AskDirectory ==
  /\ ~disposed /\ at # NoPlace /\ moving = NoPlace
  /\ moving' = at
  /\ UNCHANGED <<at, runs, active, started, banner, disposed>>

\* The answer moves the session only if it is still the one on screen.
DirectoryGiven(p) ==
  /\ moving # NoPlace
  /\ moving' = NoPlace
  /\ IF ~disposed /\ moving = at /\ p # NoPlace THEN AtPlace(p) ELSE UNCHANGED <<at,
                                                                                 runs,
                                                                                 active,
                                                                                 banner>>
  /\ UNCHANGED <<started, disposed>>

Dispose ==
  /\ ~disposed
  /\ disposed' = TRUE
  /\ IF active # 0 THEN Cancel ELSE UNCHANGED <<active, banner, runs>>
  /\ UNCHANGED <<at, started, moving>>

-----------------------------------------------------------------------------
LocationInit ==
  /\ at = NoPlace /\ runs = [n \in 1..MaxRuns |-> NoRecheck] /\ active = 0 /\ started = 0
  /\ banner = NoBanner /\ moving = NoPlace /\ disposed = FALSE

LocationNext ==
  \/ SyncLocation \/ AskDirectory \/ Dispose
  \/ \E n \in 1..MaxRuns : LocationSynced(n) \/ SyncFails(n) \/ Recheck(n)
  \/ \E p \in Locations \cup {NoPlace} : GoTo(p) \/ DirectoryGiven(p)

LocationSpec == LocationInit /\ [][LocationNext]_locationVars

\* The recovery keeps values of their types.
LocationTypeOK ==
  /\ at \in Locations \cup {NoPlace} /\ moving \in Locations \cup {NoPlace} /\ disposed \in BOOLEAN
  /\ active \in 0..MaxRuns /\ started \in 0..MaxRuns
  /\ runs \in [1..MaxRuns -> [place : Locations \cup {NoPlace}, attempt : 0..MaxRechecks,
                 stage : {"none", "first", "wait", "check", "exhausted", "done"}]]

\* The banner belongs to the location on screen and to the active run, says how
\* far that run is, and no other run waits to check again: a run that was
\* dropped while its check was under way does not come back.
BannerIsLive ==
  /\ banner # NoBanner =>
       /\ ~disposed /\ active # 0 /\ banner.place = at
       /\ runs[active].place = at /\ banner.attempt = runs[active].attempt
       /\ banner.checking <=> runs[active].stage = "check"
       /\ banner.exhausted <=> runs[active].stage = "exhausted"
  /\ \A n \in 1..MaxRuns : runs[n].stage = "wait" => n = active
=============================================================================
