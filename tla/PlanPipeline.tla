---------------------------- MODULE PlanPipeline ----------------------------
(***************************************************************************)
(* What the plan pipeline promises, with the file system, the journal, the *)
(* worker processes and every fault hidden.  A plan is reserved by at most *)
(* one execution at a time; the actions of a reserved plan become applied  *)
(* in order; once one has been undone nothing more is applied; a plan ends *)
(* VERIFIED only with all of its actions applied and none undone, and      *)
(* ROLLED_BACK only with none of them left applied; both ends are final.   *)
(***************************************************************************)
EXTENDS Naturals

CONSTANTS Plan,      \* plan identifiers
          Index,     \* positions of actions in a plan, natural numbers
          FileWork,      \* FileWork[p]: the positions whose action touches files
          Critical   \* plans of critical risk, never approved in the store

VARIABLES state,     \* state[p]: the durable state of plan p
          applied,   \* applied[p]: actions durably done and not undone
          undone     \* undone[p]: actions durably undone

vars == <<state, applied, undone>>

Reserved == {p \in Plan : state[p] \in {"STALE_CHECKED", "EXECUTING"}}

Init == /\ state = [p \in Plan |-> "NONE"]
        /\ applied = [p \in Plan |-> {}]
        /\ undone = [p \in Plan |-> {}]

Become(p, s) == /\ state' = [state EXCEPT ![p] = s]
                /\ UNCHANGED <<applied, undone>>

Submit(ps) == /\ \A p \in ps : state[p] = "NONE"
              /\ \E s \in {"DRAFT", "APPROVED"} :
                    state' = [p \in Plan |-> IF p \in ps THEN s ELSE state[p]]
              /\ UNCHANGED <<applied, undone>>

Approve(p) == state[p] = "DRAFT" /\ p \notin Critical /\ Become(p, "APPROVED")

Invalidate(p) == state[p] = "APPROVED" /\ Become(p, "DRAFT")

Reserve(p) == /\ state[p] = "APPROVED"
              /\ Reserved = {}
              /\ Become(p, "STALE_CHECKED")

\* A reservation that touched no file may be given back or sent to review.
Release(p) == \/ /\ state[p] = "STALE_CHECKED"
                 /\ \E s \in {"APPROVED", "DRAFT"} : Become(p, s)
              \/ /\ state[p] = "EXECUTING"
                 /\ FileWork[p] = {}
                 /\ Become(p, "DRAFT")

Begin(p) == state[p] = "STALE_CHECKED" /\ Become(p, "EXECUTING")

Apply(p, i) == /\ state[p] = "EXECUTING"
               /\ undone[p] = {}
               /\ i \in FileWork[p] \ applied[p]
               /\ {k \in FileWork[p] : k < i} \subseteq applied[p]
               /\ applied' = [applied EXCEPT ![p] = @ \cup {i}]
               /\ UNCHANGED <<state, undone>>

Undo(p, i) == /\ state[p] = "EXECUTING"
              /\ i \in FileWork[p]
              /\ applied' = [applied EXCEPT ![p] = @ \ {i}]
              /\ undone' = [undone EXCEPT ![p] = @ \cup {i}]
              /\ UNCHANGED state

Commit(p) == /\ state[p] = "EXECUTING"
             /\ applied[p] = FileWork[p]
             /\ undone[p] = {}
             /\ Become(p, "VERIFIED")

Abort(p) == /\ state[p] = "EXECUTING"
            /\ applied[p] = {}
            /\ Become(p, "ROLLED_BACK")

Next == \/ \E ps \in SUBSET Plan : Submit(ps)
        \/ \E p \in Plan :
              \/ Approve(p) \/ Invalidate(p) \/ Reserve(p) \/ Release(p)
              \/ Begin(p) \/ Commit(p) \/ Abort(p)
              \/ \E i \in Index : Apply(p, i) \/ Undo(p, i)

Spec == Init /\ [][Next]_vars
=============================================================================
