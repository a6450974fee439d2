----------------------------- MODULE MCTaskStore -----------------------------
(* Three tasks of one session and one path. *)
EXTENDS TaskStore, TLC

CONSTANTS s1

MCSessions == {s1}
MCSessionOf == [t \in Tasks |-> s1]

\* Tasks of one session are interchangeable.
MCSymmetry == Permutations(Tasks)
=============================================================================
