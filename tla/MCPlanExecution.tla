--------------------------- MODULE MCPlanExecution --------------------------
(***************************************************************************)
(* Small instances of PlanExecution.                                       *)
(***************************************************************************)
EXTENDS PlanExecution, TLC

CONSTANTS p1, p2, w1, w2, fa, fb, fc, t, u, q1, q2, z

Quarantine(s) == [kind |-> "QUARANTINE", src |-> s, dst |-> None]
Move(s, d) == [kind |-> "MOVE", src |-> s, dst |-> d]
Copy(s, d) == [kind |-> "COPY", src |-> s, dst |-> d]
Keep(s) == [kind |-> "KEEP", src |-> s, dst |-> None]

\* All kinds of action in one plan; the other plan contends for file fb and
\* for destination t.
MCActions == (p1 :> <<Quarantine(fa), Copy(fb, t), Move(fc, u)>>) @@
             (p2 :> <<Keep(fa), Move(fb, t), Keep(fc)>>)

\* One plan of two file actions, for the temporal properties
MCOnePlan == p1 :> <<Quarantine(fa), Copy(fb, t)>>

\* Source files of the same name get the same candidate names.
MCCandidates == [s \in Source |-> <<q1, q2>>]

\* fa, fb and fc are duplicates; what another program writes is not.
MCSha == [s \in Source |-> 1] @@ (z :> 2)

Symmetry == Permutations(Worker)
=============================================================================
