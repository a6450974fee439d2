------------------------- MODULE MCExecutionLedger -------------------------
(* A session p and its child c.  A native root is named by its turn; k is  *)
(* the root of a durable task.                                             *)
EXTENDS ExecutionLedger, TLC

CONSTANTS p, c, t1, t2, r0, r1, r2, k

MCParentOf == [s \in Sessions |-> IF s = c THEN p ELSE None]
MCNativeRoot == [x \in Sessions \X (Turns \cup {NoTurn}) |->
                   IF x[2] = t1 THEN r1 ELSE IF x[2] = t2 THEN r2 ELSE r0]
\* One normal call, three units of output of which one is for completion.
MCLimits == [calls |-> 1, tools |-> 1, output |-> 3]
MCIncrement == [calls |-> 1, tools |-> 1, output |-> 1]

\* Request ids are interchangeable.
MCSymmetry == Permutations(Requests)
=============================================================================
