--------------------------- MODULE DecisionLedger ---------------------------
(***************************************************************************)
(* What recording review decisions promises: every change of a group's     *)
(* decision is one new revision; a request names for each of its groups    *)
(* the revision it saw, is answered once for each of them, saves only over *)
(* that revision and in the same step, and closes when all are answered.   *)
(***************************************************************************)
EXTENDS Naturals

CONSTANTS
  Group,     \* groups of duplicates
  Decision,  \* decisions with their reasons
  Request,   \* idempotency keys
  Undecided

VARIABLES
  revision,  \* how often a decision was recorded for a group
  decided,   \* its decision
  seen,      \* per request: the revisions it saw, <<>> before it opens
  answer,    \* per request and group, FAILED as long as there is none
  closed     \* requests that are complete

Answers == {"SAVED", "UNCHANGED", "CONFLICT", "BLOCKED"}

Init ==
  /\ revision = [g \in Group |-> 0]
  /\ decided = [g \in Group |-> Undecided]
  /\ seen = [r \in Request |-> <<>>]
  /\ answer = [r \in Request |-> [g \in Group |-> "FAILED"]]
  /\ closed = {}

Decide(g) ==
  /\ revision' = [revision EXCEPT ![g] = @ + 1]
  /\ \E d \in Decision : decided' = [decided EXCEPT ![g] = d]

(* A decision for one group, outside of a batch.                            *)
Record(g) == Decide(g) /\ UNCHANGED <<seen, answer, closed>>

Open(r) ==
  /\ seen[r] = <<>>
  /\ seen'[r] # <<>> /\ DOMAIN seen'[r] \subseteq Group
  /\ \A g \in DOMAIN seen'[r] : seen'[r][g] \in 0..revision[g]
  /\ seen' = [seen EXCEPT ![r] = seen'[r]]
  /\ UNCHANGED <<revision, decided, answer, closed>>

Save(r, g) ==
  /\ g \in DOMAIN seen[r] /\ answer[r][g] = "FAILED"
  /\ revision[g] = seen[r][g]
  /\ Decide(g)
  /\ answer' = [answer EXCEPT ![r][g] = "SAVED"]
  /\ UNCHANGED <<seen, closed>>

Refuse(r, g) ==
  /\ g \in DOMAIN seen[r] /\ answer[r][g] = "FAILED"
  /\ \E a \in Answers \ {"SAVED"} : answer' = [answer EXCEPT ![r][g] = a]
  /\ UNCHANGED <<revision, decided, seen, closed>>

Close(r) ==
  /\ seen[r] # <<>> /\ \A g \in DOMAIN seen[r] : answer[r][g] # "FAILED"
  /\ closed' = closed \cup {r}
  /\ UNCHANGED <<revision, decided, seen, answer>>

Next ==
  \/ \E g \in Group : Record(g)
  \/ \E r \in Request : \/ Open(r) \/ Close(r)
                        \/ \E g \in Group : Save(r, g) \/ Refuse(r, g)

vars == <<revision, decided, seen, answer, closed>>

Spec == Init /\ [][Next]_vars
=============================================================================
