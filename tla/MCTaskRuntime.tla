---------------------------- MODULE MCTaskRuntime ----------------------------
(* Tasks of one session, the request threads and one lease holder at a time. *)
EXTENDS TaskRuntime, TLC

CONSTANTS s1

MCSessions == {s1}
MCSessionOf == [t \in Tasks |-> s1]

\* Tasks of one session are interchangeable, and so are request threads.
MCSymmetry == Permutations(Tasks) \cup Permutations(Handlers)
=============================================================================
