----------------------------- MODULE RootAccount -----------------------------
(***************************************************************************)
(* What a root budget promises, whoever spends it: no sessions, bindings,  *)
(* forms, deadlines or counters, only the requests a root has answered for *)
(* and the extensions it was granted.  ExecutionLedger implements it.      *)
(***************************************************************************)
EXTENDS Integers, FiniteSetsExt

CONSTANTS Roots, None,
          Requests,  \* request ids
          Outputs,   \* outputs a provider may report
          Base,      \* what a root may spend: calls, tools, output
          Step,      \* what a grant adds to each
          Kept       \* output kept back for the completion request

VARIABLES account,   \* account[q]: root, kind, hold and charge of request q
          used,      \* used[r]: tools run
          grants,    \* grants[r]: extensions granted
          spare      \* spare[r]: the completion request is unused

accountVars == <<account, used, grants, spare>>

\* The requests of a root, what a table of requests is charged, and what is left.
Of(r) == {q \in Requests : account[q].root = r}
Charged(rows, T) == MapThenSumSet(LAMBDA q : rows[q].charge, T)
Left(r) == (Base.output + grants[r] * Step.output) - Charged(account, Of(r))

\* A request is entered once.
Enter(r, q, finish, n) ==
  /\ account[q].root = None
  /\ account' = [account EXCEPT ![q] = [root |-> r, finish |-> finish, held |-> n,
                                        charge |-> n, done |-> FALSE]]
  /\ UNCHANGED <<used, grants>>

\* A request is served under the limits, and leaves the reserve alone.
Serve(r) ==
  /\ Cardinality(Of(r)) < Base.calls + grants[r] * Step.calls
  /\ \E n \in 1 .. Left(r) - Kept, q \in Requests : Enter(r, q, FALSE, n)
  /\ UNCHANGED spare

\* A completion request is served from the reserve, once for each grant.
Complete(r) ==
  /\ spare[r]
  /\ \E n \in 1 .. Min({Kept, Left(r)}), q \in Requests : Enter(r, q, TRUE, n)
  /\ spare' = [spare EXCEPT ![r] = FALSE]

\* An outcome is entered once, and may exceed what was kept for it.
Settle(q) ==
  /\ account[q].root # None /\ ~account[q].done
  /\ \E n \in Outputs \cup {account[q].charge} :
       account' = [account EXCEPT ![q].charge = n, ![q].done = TRUE]
  /\ UNCHANGED <<used, grants, spare>>

UseTool(r) ==
  /\ spare[r]
  /\ used[r] < Base.tools + grants[r] * Step.tools
  /\ used' = [used EXCEPT ![r] = @ + 1]
  /\ UNCHANGED <<account, grants, spare>>

\* A grant raises every limit and frees the completion request.
Grant(r) ==
  /\ grants' = [grants EXCEPT ![r] = @ + 1]
  /\ spare' = [spare EXCEPT ![r] = TRUE]
  /\ UNCHANGED <<account, used>>

Init ==
  /\ account = [q \in Requests |-> [root |-> None, finish |-> FALSE, held |-> 0,
                                    charge |-> 0, done |-> FALSE]]
  /\ used = [r \in Roots |-> 0]
  /\ grants = [r \in Roots |-> 0]
  /\ spare = [r \in Roots |-> TRUE]

\* A request over a limit, a replayed one and a repeated outcome change nothing.
Refuse == UNCHANGED accountVars

Next ==
  \/ Refuse
  \/ \E r \in Roots : Serve(r) \/ Complete(r) \/ UseTool(r) \/ Grant(r)
  \/ \E q \in Requests : Settle(q)

Spec == Init /\ [][Next]_accountVars
=============================================================================
