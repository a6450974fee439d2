---------------------------- MODULE McpRecovery ----------------------------
(***************************************************************************)
(* config/plugins/mcp-reconnect.js: a scan every two seconds reconnects    *)
(* MCP servers that failed with a transient error, at most once per delay  *)
(* and DELAYS.length times until the server has been healthy for a minute. *)
(* A scan awaits the list, then for each server in parallel a second list, *)
(* the connect call and a third list.                                      *)
(***************************************************************************)
EXTENDS Naturals, FiniteSets

CONSTANTS Servers,   \* MCP servers
          MaxDelays, \* DELAYS.length
          MaxScans   \* bound: scans that run at once if nothing forbids it

ASSUME RecoveryAssumption == MaxDelays \in Nat \ {0} /\ MaxScans \in Nat \ {0}

VARIABLES native,     \* the state of each server in the host
          retries,    \* retries: attempts and health of a server that has an entry
          servedOnce,      \* connectedOnce
          scans,      \* the scans that run: the servers each still works on
          watch,      \* since when every scan found the server connected
          connects    \* connects since the last reason to start over

recoveryVars == <<native, retries, servedOnce, scans, watch, connects>>

\* "other": disabled, or failed with an error that is not transient.
NativeStates == {"connected", "failed", "unavailable", "other", "removed"}
\* Transient errors; an empty HTTP failure is one also before the first connection.
TransientState(state) == state \in {"failed", "unavailable"}
NoRetry == [attempts |-> 0, healthy |-> "no", kept |-> FALSE]

\* A scan is over when every server is done.
OverWhenDone(open) == open \ {[s \in Servers |-> "done"]}
ScanStep(scan, s, next) ==
  scans' = OverWhenDone((scans \ {scan}) \cup {[scan EXCEPT ![s] = next]})

-----------------------------------------------------------------------------
(* The host and the clock *)

ServerBecomes(s, state) ==
  /\ native[s] # state
  /\ native' = [native EXCEPT ![s] = state]
  /\ UNCHANGED <<retries, servedOnce, scans, watch, connects>>

\* Sixty seconds after the first list that saw the server healthy.
MinutePasses(s) ==
  /\ retries[s].healthy = "since" \/ watch[s] = "since"
  /\ retries' = IF retries[s].healthy # "since" THEN retries
                ELSE [retries EXCEPT ![s].healthy = "minute"]
  /\ watch' = IF watch[s] # "since" THEN watch ELSE [watch EXCEPT ![s] = "minute"]
  /\ UNCHANGED <<native, servedOnce, scans, connects>>

-----------------------------------------------------------------------------
(* A scan *)

\* Faulty variant: a scan starts whether or not another one runs.
MayScanAnyway == Cardinality(scans) < MaxScans
\* scanning: one scan at a time.
MayScan == scans = {}

\* A transient failure of a server that was connected once; an empty HTTP failure may
\* be the first.
Recoverable(s) ==
  TransientState(native[s]) /\ (s \in servedOnce \/ native[s] = "unavailable")

\* Faulty variant: a server found connected is forgotten at once, not after a minute.
ScanRowForgets(s, due) ==
  LET retry == retries[s] IN
  IF native[s] = "connected" \/ ~Recoverable(s) THEN [retry |-> NoRetry, next |-> "done"]
  ELSE [retry |-> [retry EXCEPT !.kept = TRUE, !.healthy = "no"],
        next |-> IF retry.kept /\ s \in due /\ retry.attempts < MaxDelays
                 THEN "look" ELSE "done"]
\* The first list: servers that are gone are forgotten, healthy ones remembered,
\* and a transient failure whose delay is over is looked at again.
ScanRow(s, due) ==
  LET retry == retries[s] IN
  IF native[s] = "connected"
  THEN [retry |-> IF retry.healthy = "minute" THEN NoRetry
                  ELSE IF retry.kept THEN [retry EXCEPT !.healthy = "since"] ELSE retry,
        next |-> "done"]
  ELSE IF ~Recoverable(s) THEN [retry |-> NoRetry, next |-> "done"]
  ELSE [retry |-> [retry EXCEPT !.kept = TRUE, !.healthy = "no"],
        next |-> IF retry.kept /\ s \in due /\ retry.attempts < MaxDelays
                 THEN "look" ELSE "done"]

\* A reason to start over: every scan of a minute found the server connected, or this
\* one finds it in a state the recovery is not for.
StartsOver(s) ==
  IF native[s] = "connected" THEN watch[s] = "minute" ELSE ~Recoverable(s)

\* due: the servers whose delay is over by now.
ScanStarts(due) ==
  /\ MayScan
  /\ scans' = OverWhenDone(scans \cup {[s \in Servers |-> ScanRow(s, due).next]})
  /\ retries' = [s \in Servers |-> ScanRow(s, due).retry]
  /\ watch' = [s \in Servers |-> IF native[s] # "connected" THEN "no"
                               ELSE IF watch[s] = "no" THEN "since" ELSE watch[s]]
  /\ connects' = [s \in Servers |-> IF StartsOver(s) THEN 0 ELSE connects[s]]
  /\ servedOnce' = {s \in servedOnce : native[s] # "removed"}
              \cup {s \in Servers : native[s] = "connected"}
  /\ UNCHANGED native

\* The second list respects a manual disconnect during the backoff.
LooksAgain(scan, s) ==
  /\ scan[s] = "look"
  /\ IF TransientState(native[s])
     THEN /\ retries' = [retries EXCEPT ![s].attempts = @ + 1]
          /\ connects' = [connects EXCEPT ![s] = @ + 1]
          /\ ScanStep(scan, s, "connect")
     ELSE ScanStep(scan, s, "done") /\ UNCHANGED <<retries, connects>>
  /\ UNCHANGED <<native, servedOnce, watch>>

\* The connect call ends, well or badly.
ConnectEnds(scan, s) ==
  /\ scan[s] = "connect"
  /\ ScanStep(scan, s, "done")
  /\ native' \in {native, [native EXCEPT ![s] = "connected"]}
  /\ UNCHANGED <<retries, servedOnce, watch, connects>>

RecoveryInit ==
  /\ native \in [Servers -> {"connected", "failed", "unavailable"}]
  /\ retries = [s \in Servers |-> NoRetry] /\ servedOnce = {} /\ scans = {}
  /\ watch = [s \in Servers |-> "no"] /\ connects = [s \in Servers |-> 0]

RecoveryNext ==
  \/ \E s \in Servers :
       \/ \E state \in NativeStates : ServerBecomes(s, state)
       \/ MinutePasses(s)
       \/ \E scan \in scans : LooksAgain(scan, s) \/ ConnectEnds(scan, s)
  \/ \E due \in SUBSET Servers : ScanStarts(due)

RecoverySpec == RecoveryInit /\ [][RecoveryNext]_recoveryVars

-----------------------------------------------------------------------------
(* Properties *)

\* The recovery's maps hold values of their types.
RecoveryTypeOK ==
  /\ native \in [Servers -> NativeStates] /\ servedOnce \subseteq Servers
  /\ retries \in [Servers -> [attempts : 0 .. MaxDelays, kept : BOOLEAN,
                              healthy : {"no", "since", "minute"}]]
  /\ \A scan \in scans : scan \in [Servers -> {"look", "connect", "done"}]
  /\ connects \in [Servers -> Nat] /\ watch \in [Servers -> {"no", "since", "minute"}]

\* A server that keeps failing, or that flaps, is connected at most MaxDelays times
\* until every scan of a minute found it connected, or one found it gone, disabled,
\* broken for good or down before it was ever connected.
ReconnectBudget == \A s \in Servers : connects[s] <= MaxDelays
=============================================================================
