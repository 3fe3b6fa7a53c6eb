------------------------ MODULE GovernanceBatch_proofs ------------------------
(***************************************************************************)
(* Proofs about GovernanceBatch, for every set of groups, requests, keys,  *)
(* tokens, callers and versions, and every bound.                          *)
(***************************************************************************)
EXTENDS GovernanceBatch, FiniteSetTheorems, TLAPS

Saved(g) == {a \in audit : a.group = g}

(* A stored preview names groups, and saw no revision of the future.        *)
PreviewOK(t) ==
  /\ preview[t] = [state |-> preview[t].state, dec |-> preview[t].dec,
                   items |-> preview[t].items]
  /\ preview[t].state # "none" =>
       /\ preview[t].dec \in Decisions /\ DOMAIN preview[t].items # {}
       /\ \A g \in DOMAIN preview[t].items : preview[t].items[g].rev \in 0..decision[g].rev

(* The record of a call with the items it has.                              *)
CallRec(items) ==
  [pc : {"idle", "evaluated", "recheck", "insert", "items"}, token : Tokens \cup {Nobody},
   key : Keys \cup {Nobody}, dec : Decisions \cup {Undecided}, items : {items},
   todo : SUBSET Groups, sourced : BOOLEAN]

(* A call that prepares a preview, and one that holds the lock: before the  *)
(* insert its key has no batch, afterwards the batch is the one of its      *)
(* token.                                                                   *)
CallOK(c) ==
  LET r == call[c] IN
  /\ r \in CallRec(r.items)
  /\ r.pc \in {"evaluated", "recheck"} =>
       /\ r.dec \in Decisions /\ DOMAIN r.items # {} /\ DOMAIN r.items \subseteq Groups
       /\ \A g \in DOMAIN r.items : r.items[g] \in Item /\ r.items[g].rev <= decision[g].rev
  /\ r.pc \in {"insert", "items"} =>
       /\ r.token \in Tokens /\ r.key \in Keys /\ preview[r.token].state # "none"
       /\ r.todo \subseteq DOMAIN preview[r.token].items
  /\ r.pc = "insert" => batch[r.key].state = "none"
  /\ r.pc = "items" => batch[r.key] = [state |-> "IN_PROGRESS", token |-> r.token]

(* A batch has a stored preview, and answers for the groups of that only.   *)
BatchOK(k) ==
  LET items == preview[batch[k].token].items IN
  /\ batch[k].state # "none" => batch[k].token \in Tokens /\ preview[batch[k].token].state # "none"
  /\ \A g \in Groups : outcome[k][g] # "none" => batch[k].state # "none" /\ g \in DOMAIN items
  /\ batch[k].state = "COMPLETE" => \A g \in DOMAIN items : outcome[k][g] # "none"

(* The audit rows of a group.                                               *)
TrailOK(g) ==
  /\ IsFiniteSet(Saved(g)) /\ Cardinality(Saved(g)) = decision[g].rev
  /\ {a.rev : a \in Saved(g)} = 1..decision[g].rev
  /\ \A a \in Saved(g) : a.rev = decision[g].rev => a.dec = decision[g].dec
  /\ \A k \in Keys : outcome[k][g] = "SAVED" <=> \E a \in Saved(g) : a.key = k

(* A row of a batch is what its preview saw and asked for.                  *)
RowOK(a) ==
  a.key # Nobody =>
    LET p == preview[batch[a.key].token] IN
    /\ a.key \in Keys /\ batch[a.key].state # "none"
    /\ a.group \in Eligible(p.items) /\ a.dec = p.dec
    /\ a.rev = p.items[a.group].rev + 1

IInv ==
  /\ TypeOK
  /\ DOMAIN call = Callers
  /\ \A t \in Tokens : PreviewOK(t)
  /\ \A c \in Callers : CallOK(c)
  /\ \A k \in Keys : BatchOK(k)
  /\ \A g \in Groups : TrailOK(g)
  /\ \A a \in audit : RowOK(a)

-----------------------------------------------------------------------------
(* What most steps leave alone.                                             *)

(* Revisions only grow ...                                                  *)
Grows == \A g \in Groups : decision[g].rev <= decision'[g].rev

(* ... and a stored preview keeps its items.                                *)
Keeps ==
  \A t \in Tokens : preview[t].state # "none" =>
    /\ preview'[t].state # "none" /\ preview'[t].dec = preview[t].dec
    /\ preview'[t].items = preview[t].items

\* Entering a point replaces the record of one call and no other.
LEMMA CallSet ==
  ASSUME IInv, NEW c \in Callers, NEW r, Enter(c, r)
  PROVE  /\ DOMAIN call' = Callers /\ call'[c] = r
         /\ \A d \in Callers \ {c} : call'[d] = call[d]
  BY DEF IInv, Enter

\* The record of an idle caller.
LEMMA IdleRec == Idle \in CallRec(Idle.items) /\ Idle.pc = "idle"
  BY DEF Idle, CallRec

\* An idle caller relies on nothing.
LEMMA IdleOK ==
  ASSUME NEW c \in Callers, call'[c] = Idle
  PROVE  CallOK(c)'
  BY IdleRec DEF CallOK

\* Previews stay sound while they are left alone and revisions only grow.
LEMMA PreviewsKept ==
  ASSUME IInv, UNCHANGED preview, Grows, TypeOK'
  PROVE  \A t \in Tokens : PreviewOK(t)'
  <1> SUFFICES ASSUME NEW t \in Tokens, preview[t].state # "none",
                      NEW g \in DOMAIN preview[t].items
               PROVE  preview[t].items[g].rev \in 0..decision'[g].rev
    BY DEF IInv, PreviewOK
  <1>1. g \in Groups /\ preview[t].items[g].rev \in 0..decision[g].rev
    BY DEF IInv, TypeOK, PreviewOK
  <1>2. decision[g].rev \in Nat /\ decision'[g].rev \in Nat /\ decision[g].rev <= decision'[g].rev
    BY <1>1 DEF IInv, TypeOK, Grows
  <1> QED  BY <1>1, <1>2

\* A call that does not move keeps what it knows while revisions only grow and batches stand.
LEMMA CallKept ==
  ASSUME IInv, TypeOK', Grows, Keeps, NEW d \in Callers, call'[d] = call[d],
         call[d].pc \in {"insert", "items"} => batch' = batch
  PROVE  CallOK(d)'
  <1>1. CallOK(d)
    BY DEF IInv
  <1>2. ASSUME call[d].pc \in {"evaluated", "recheck"}, NEW g \in DOMAIN call[d].items
        PROVE  call[d].items[g].rev <= decision'[g].rev
    <2>1. g \in Groups /\ call[d].items[g].rev <= decision[g].rev /\ call[d].items[g].rev \in Nat
      BY <1>1, <1>2 DEF CallOK, Item
    <2>2. decision[g].rev \in Nat /\ decision'[g].rev \in Nat /\ decision[g].rev <= decision'[g].rev
      BY <2>1 DEF IInv, TypeOK, Grows
    <2> QED  BY <2>1, <2>2
  <1> QED  BY <1>1, <1>2 DEF CallOK, Keeps

\* A batch that is not written keeps its counts.
LEMMA BatchKept ==
  ASSUME IInv, Keeps, NEW k \in Keys, batch'[k] = batch[k], outcome'[k] = outcome[k]
  PROVE  BatchOK(k)'
  <1>1. BatchOK(k) /\ batch[k].state # "none" => batch[k].token \in Tokens
    BY DEF IInv, BatchOK
  <1> QED  BY <1>1 DEF IInv, BatchOK, Keeps

\* A group that is not decided keeps its trail of revisions.
LEMMA TrailsKept ==
  ASSUME IInv, NEW g \in Groups, decision'[g] = decision[g], Saved(g)' = Saved(g),
         \A k \in Keys : outcome'[k][g] = "SAVED" <=> outcome[k][g] = "SAVED"
  PROVE  TrailOK(g)'
  BY DEF IInv, TrailOK

\* An audit row stands as long as the batch it names does.
LEMMA RowKept ==
  ASSUME IInv, Keeps, NEW a \in audit, a.key # Nobody => batch'[a.key].token = batch[a.key].token
                                            /\ batch'[a.key].state # "none"
  PROVE  RowOK(a)'
  <1>1. RowOK(a) /\ (a.key # Nobody => BatchOK(a.key))
    BY DEF IInv, RowOK
  <1>2. a.key # Nobody => batch[a.key].token \in Tokens /\ preview[batch[a.key].token].state # "none"
    BY <1>1 DEF RowOK, BatchOK
  <1> QED  BY <1>1, <1>2 DEF RowOK, Keeps, Eligible

(* Steps that write no batch, outcome, decision or audit row.               *)
LEMMA Elsewhere ==
  ASSUME IInv, TypeOK', Keeps, UNCHANGED <<decision, batch, outcome, audit>>,
         DOMAIN call' = Callers,
         \A t \in Tokens : PreviewOK(t)',
         \A d \in Callers : call'[d] = call[d] \/ CallOK(d)'
  PROVE  IInv'
  <1>0. Grows
    BY DEF IInv, TypeOK, Grows
  <1>1. \A d \in Callers : CallOK(d)'
    BY <1>0, CallKept
  <1>2. \A k \in Keys : BatchOK(k)'
    BY BatchKept
  <1>3. \A g \in Groups : TrailOK(g)'
    BY TrailsKept DEF Saved
  <1>4. ASSUME NEW a \in audit PROVE RowOK(a)'
    BY RowKept DEF IInv, RowOK
  <1> QED  BY <1>1, <1>2, <1>3, <1>4 DEF IInv

-----------------------------------------------------------------------------
(* Every action preserves the invariant.                                    *)

(* The lock.                                                                *)
Holds(c) == call[c].pc \in {"insert", "items"}

\* governanceMu has one holder, so a call within a commit is alone there.
LEMMA OneHolder ==
  ASSUME IInv, NEW c \in Callers, Holds(c)
  PROVE  mu = c /\ mu # Nobody /\ \A d \in Callers \ {c} : ~Holds(d)
  BY ConstantsAssumption DEF IInv, TypeOK, Holds

\* Evaluating a preview leaves the revisions it saw with its call; nothing durable changes.
LEMMA EvaluateStep ==
  ASSUME IInv, NEW c \in Callers, NEW d \in Batched, EvaluateGovernancePreview(c, d)
  PROVE  IInv'
  <1>1. PICK gs \in Requests, stale \in SUBSET Groups :
          Enter(c, [Idle EXCEPT !.pc = "evaluated", !.dec = d, !.items = [g \in gs |->
            IF subject[g] = Gone THEN Refused("BLOCKED")
            ELSE IF g \in stale THEN Refused("CONFLICT")
            ELSE [elig |-> "ELIGIBLE", version |-> subject[g], rev |-> decision[g].rev]]])
    BY ConstantsAssumption DEF EvaluateGovernancePreview
  <1>2. UNCHANGED <<subject, unsafe, decision, preview, batch, outcome, audit, mu>>
    BY DEF EvaluateGovernancePreview
  <1>3. gs # {} /\ gs \subseteq Groups /\ d \in Decisions
    BY ConstantsAssumption
  <1>4. PICK items : items = [g \in gs |->
            IF subject[g] = Gone THEN Refused("BLOCKED")
            ELSE IF g \in stale THEN Refused("CONFLICT")
            ELSE [elig |-> "ELIGIBLE", version |-> subject[g], rev |-> decision[g].rev]]
    OBVIOUS
  <1>5. /\ call'[c] = [Idle EXCEPT !.pc = "evaluated", !.dec = d, !.items = items]
        /\ DOMAIN call' = Callers /\ \A e \in Callers \ {c} : call'[e] = call[e]
    BY <1>1, <1>4, CallSet
  <1>6. /\ call'[c] = [pc |-> "evaluated", token |-> Nobody, key |-> Nobody, dec |-> d,
                       items |-> items, todo |-> {}, sourced |-> FALSE]
        /\ call'[c].pc = "evaluated" /\ call'[c].dec = d /\ call'[c].items = items
    BY <1>5 DEF Idle
  <1>7. TypeOK'
    <2>1. mu # c
      BY DEF IInv, TypeOK, EvaluateGovernancePreview, At
    <2>2. \A e \in Callers : mu' = e <=> call'[e].pc \in {"insert", "items"}
      <3>1. \A e \in Callers : mu = e <=> call[e].pc \in {"insert", "items"}
        BY DEF IInv, TypeOK
      <3> QED  BY ZenonT(30), <1>2, <1>5, <1>6, <2>1, <3>1
    <2> QED  BY <1>2, <2>2 DEF IInv, TypeOK
  <1>8. ASSUME NEW g \in gs PROVE items[g] \in Item /\ items[g].rev <= decision[g].rev
    <2>1. decision[g].rev \in Nat /\ subject[g] \in Versions \cup {Gone}
      BY <1>3 DEF IInv, TypeOK
    <2> QED  BY <1>4, <2>1 DEF Item, Refused, Eligibility
  <1>9. CallOK(c)'
    <2>1. call'[c] \in CallRec(items)
      BY <1>3, <1>6 DEF CallRec
    <2>2. DOMAIN items = gs
      BY <1>4
    <2> QED  BY <1>2, <1>3, <1>6, <1>8, <2>1, <2>2 DEF CallOK
  <1>10. Keeps /\ \A t \in Tokens : PreviewOK(t)'
    BY <1>2, <1>7, PreviewsKept DEF Keeps, Grows, IInv, TypeOK
  <1> QED  BY <1>2, <1>5, <1>7, <1>9, <1>10, Elsewhere

\* A call that goes on with its preview, with items that saw no revision of the future.
LEMMA PreparingStep ==
  ASSUME IInv, NEW c \in Callers, NEW r, NEW items, Enter(c, r),
         UNCHANGED <<subject, unsafe, decision, preview, batch, outcome, audit, mu>>,
         call[c].pc \in {"evaluated", "recheck"}, r.pc = "recheck", r \in CallRec(items),
         r.items = items, r.dec = call[c].dec, DOMAIN items = DOMAIN call[c].items,
         \A g \in DOMAIN items : items[g] \in Item /\ items[g].rev <= decision[g].rev
  PROVE  IInv'
  <1>1. /\ DOMAIN call' = Callers /\ call'[c] = r
        /\ \A d \in Callers \ {c} : call'[d] = call[d]
    BY CallSet
  <1>2. \A d \in Callers : mu' = d <=> call'[d].pc \in {"insert", "items"}
    BY <1>1 DEF IInv, TypeOK
  <1>3. TypeOK'
    BY <1>2 DEF IInv, TypeOK
  <1>4. call[c].dec \in Decisions /\ DOMAIN items # {} /\ DOMAIN items \subseteq Groups
    BY DEF IInv, CallOK
  <1>5. CallOK(c)'
    BY <1>1, <1>4 DEF CallOK
  <1>6. Keeps /\ \A t \in Tokens : PreviewOK(t)'
    BY <1>3, PreviewsKept DEF Keeps, Grows, IInv, TypeOK
  <1> QED  BY <1>1, <1>3, <1>5, <1>6, Elsewhere

\* Looking at the capabilities leaves the items as they are ...
LEMMA BeginPersistStep ==
  ASSUME IInv, NEW c \in Callers, BeginPersist(c)
  PROVE  IInv'
  <1> DEFINE items == call[c].items
             r == [call[c] EXCEPT !.pc = "recheck", !.todo = DOMAIN items,
                                  !.sourced = Eligible(items) # {}]
  <1>1. /\ UNCHANGED <<subject, unsafe, decision, preview, batch, outcome, audit, mu>>
        /\ Enter(c, r) /\ call[c].pc = "evaluated"
    BY DEF BeginPersist, At
  <1>2. /\ call[c] \in CallRec(items) /\ DOMAIN items \subseteq Groups
        /\ \A g \in DOMAIN items : items[g] \in Item /\ items[g].rev <= decision[g].rev
    BY <1>1 DEF IInv, CallOK
  <1>3. r \in CallRec(items) /\ r.pc = "recheck" /\ r.items = items /\ r.dec = call[c].dec
    BY <1>2 DEF CallRec
  <1> HIDE DEF r
  <1> QED  BY <1>1, <1>2, <1>3, PreparingStep

\* ... and looking at a subject again leaves an item as it is or refuses it.
LEMMA RecheckStep ==
  ASSUME IInv, NEW c \in Callers, NEW g \in Groups, RecheckSubject(c, g)
  PROVE  IInv'
  <1> DEFINE was == call[c].items
  <1>1. PICK match \in Verified :
          Enter(c, [call[c] EXCEPT !.todo = @ \ {g},
                                   !.items[g] = Rechecked(g, call[c].items[g], match)])
    BY DEF RecheckSubject
  <1> DEFINE items == [was EXCEPT ![g] = Rechecked(g, was[g], match)]
             r == [call[c] EXCEPT !.todo = call[c].todo \ {g}, !.items = items]
  <1>2. /\ UNCHANGED <<subject, unsafe, decision, preview, batch, outcome, audit, mu>>
        /\ Enter(c, r) /\ call[c].pc = "recheck"
    BY <1>1 DEF RecheckSubject, At
  <1>3. /\ call[c] \in CallRec(was) /\ DOMAIN was \subseteq Groups
        /\ \A h \in DOMAIN was : was[h] \in Item /\ was[h].rev <= decision[h].rev
    BY <1>2 DEF IInv, CallOK
  <1>4. ASSUME NEW h \in DOMAIN items PROVE items[h] \in Item /\ items[h].rev <= decision[h].rev
    <2>1. h \in Groups /\ was[h] \in Item /\ was[h].rev <= decision[h].rev
          /\ decision[h].rev \in Nat
      BY <1>3 DEF IInv, TypeOK
    <2> QED  BY <2>1 DEF Rechecked, Refused, Item, Eligibility
  <1>5. /\ r \in CallRec(items) /\ r.pc = "recheck" /\ r.items = items /\ r.dec = call[c].dec
        /\ DOMAIN items = DOMAIN was
    BY <1>2, <1>3 DEF CallRec
  <1> HIDE DEF r, items
  <1> QED  BY <1>2, <1>4, <1>5, PreparingStep

\* A stored preview carries the revisions its call has read.
LEMMA PersistStep ==
  ASSUME IInv, NEW c \in Callers, NEW t \in Tokens, PersistGovernancePreview(c, t)
  PROVE  IInv'
  <1> DEFINE r == call[c]
  <1>1. /\ preview' = [preview EXCEPT ![t] = [state |-> "live", dec |-> r.dec, items |-> r.items]]
        /\ preview[t].state = "none" /\ r.pc = "recheck" /\ Enter(c, Idle)
        /\ UNCHANGED <<subject, unsafe, decision, batch, outcome, audit, mu>>
    BY DEF PersistGovernancePreview, Return, At
  <1>2. /\ r.dec \in Decisions /\ DOMAIN r.items # {} /\ DOMAIN r.items \subseteq Groups
        /\ \A g \in DOMAIN r.items : r.items[g] \in Item /\ r.items[g].rev <= decision[g].rev
    BY <1>1 DEF IInv, CallOK
  <1>3. /\ DOMAIN call' = Callers /\ call'[c] = Idle
        /\ \A d \in Callers \ {c} : call'[d] = call[d]
    BY <1>1, CallSet
  <1>4. /\ DOMAIN preview' = Tokens
        /\ preview'[t] = [state |-> "live", dec |-> r.dec, items |-> r.items]
        /\ \A s \in Tokens \ {t} : preview'[s] = preview[s]
    BY <1>1 DEF IInv, TypeOK
  <1>5. ASSUME NEW g \in DOMAIN r.items PROVE r.items[g].rev \in 0..decision[g].rev
    <2>1. g \in Groups /\ r.items[g] \in Item /\ r.items[g].rev <= decision[g].rev
          /\ decision[g].rev \in Nat
      BY <1>2 DEF IInv, TypeOK
    <2> QED  BY <2>1 DEF Item
  <1>6. TypeOK'
    <2>1. mu # c /\ Idle.pc = "idle"
      BY <1>1 DEF IInv, TypeOK, Idle
    <2>2. /\ preview'[t].state = "live" /\ preview'[t].dec \in Decisions
          /\ DOMAIN preview'[t].items \subseteq Groups
          /\ \A g \in DOMAIN preview'[t].items : preview'[t].items[g] \in Item
      BY <1>2, <1>4
    <2> QED  BY <1>1, <1>3, <1>4, <2>1, <2>2 DEF IInv, TypeOK
  <1>7. ASSUME NEW s \in Tokens PROVE PreviewOK(s)'
    <2>1. CASE s = t
      BY <1>1, <1>2, <1>4, <1>5, <2>1 DEF PreviewOK
    <2>2. CASE s # t
      BY <1>1, <1>4, <2>2 DEF IInv, PreviewOK
    <2> QED  BY <2>1, <2>2
  <1>8. Keeps
    BY <1>1, <1>4 DEF Keeps
  <1>9. CallOK(c)'
    BY <1>3, IdleOK
  <1> QED  BY <1>1, <1>3, <1>6, <1>7, <1>8, <1>9, Elsewhere

\* A refused preview and a stopped commit release what they hold and change nothing durable.
LEMMA ReturnStep ==
  ASSUME IInv, NEW c \in Callers, PreviewRejected(c) \/ CommitStops(c)
  PROVE  IInv'
  <1>1. UNCHANGED <<subject, unsafe, decision, preview, batch, outcome, audit>> /\ Enter(c, Idle)
    BY DEF PreviewRejected, CommitStops, Return
  <1>2. /\ DOMAIN call' = Callers /\ call'[c] = Idle /\ call'[c].pc = "idle"
        /\ \A d \in Callers \ {c} : call'[d] = call[d]
    BY <1>1, CallSet DEF Idle
  <1>3. \A d \in Callers : mu' = d <=> call'[d].pc \in {"insert", "items"}
    <2>1. CASE PreviewRejected(c)
      BY <1>2, <2>1 DEF PreviewRejected, At, IInv, TypeOK
    <2>2. CASE CommitStops(c)
      BY <1>2, <2>2, OneHolder, ConstantsAssumption DEF CommitStops, Holds
    <2> QED  BY <2>1, <2>2
  <1>4. TypeOK'
    BY <1>1, <1>3 DEF IInv, TypeOK
  <1>5. Keeps /\ \A t \in Tokens : PreviewOK(t)'
    BY <1>1, <1>4, PreviewsKept DEF Keeps, Grows, IInv, TypeOK
  <1>6. CallOK(c)'
    BY <1>2, IdleOK
  <1> QED  BY <1>1, <1>2, <1>4, <1>5, <1>6, Elsewhere

\* A commit takes governanceMu, with a new batch or one of its own preview.
LEMMA CommitBegins ==
  ASSUME IInv, NEW c \in Callers, NEW t \in Tokens, NEW k \in Keys, Commit(c, t, k)
  PROVE  IInv'
  <1>1. /\ UNCHANGED <<subject, unsafe, decision, preview, batch, outcome, audit>>
        /\ mu = Nobody /\ mu' = c /\ preview[t].state = "live"
    BY DEF Commit
  <1>2. PICK pc \in {"insert", "items"} :
          /\ Enter(c, [Idle EXCEPT !.pc = pc, !.token = t, !.key = k, !.todo = DOMAIN preview[t].items])
          /\ pc = "insert" => batch[k].state = "none"
          /\ pc = "items" => batch[k] = [state |-> "IN_PROGRESS", token |-> t]
    BY DEF Commit
  <1>3. /\ DOMAIN call' = Callers /\ \A d \in Callers \ {c} : call'[d] = call[d]
        /\ call'[c] \in CallRec(call'[c].items)
        /\ call'[c].pc = pc /\ call'[c].token = t /\ call'[c].key = k
        /\ call'[c].todo = DOMAIN preview[t].items
    <2>1. DOMAIN preview[t].items \in SUBSET Groups
      BY DEF IInv, TypeOK
    <2>0. PICK gs \in SUBSET Groups : gs = DOMAIN preview[t].items
      BY <2>1
    <2>2. PICK r : r = [Idle EXCEPT !.pc = pc, !.token = t, !.key = k, !.todo = gs]
      OBVIOUS
    <2>3. r \in CallRec(r.items) /\ r.pc = pc /\ r.token = t /\ r.key = k
          /\ r.todo = DOMAIN preview[t].items
      <3>1. r \in CallRec(Idle.items)
        BY <2>2, IdleRec DEF CallRec
      <3> QED  BY <2>0, <2>2, <3>1, IdleRec DEF CallRec
    <2>4. Enter(c, r)
      BY <1>2, <2>0, <2>2
    <2> QED  BY <2>3, <2>4, CallSet
  <1>4. \A d \in Callers : mu' = d <=> call'[d].pc \in {"insert", "items"}
    BY <1>1, <1>3, ConstantsAssumption DEF IInv, TypeOK
  <1>5. TypeOK'
    BY <1>1, <1>4 DEF IInv, TypeOK
  <1>6. Keeps /\ \A s \in Tokens : PreviewOK(s)'
    BY <1>1, <1>5, PreviewsKept DEF Keeps, Grows, IInv, TypeOK
  <1>7. CallOK(c)'
    BY <1>1, <1>2, <1>3 DEF CallOK, CallRec
  <1> QED  BY <1>1, <1>3, <1>5, <1>6, <1>7, Elsewhere

(* Steps of the surroundings.                                               *)
LEMMA AroundStep ==
  ASSUME IInv, \/ \E g \in Groups : SubjectChanges(g)
               \/ SafetyChanges
  PROVE  IInv'
  <1>1. UNCHANGED <<decision, preview, batch, outcome, audit, mu, call>>
    BY DEF SubjectChanges, SafetyChanges
  <1>2. TypeOK'
    <2>1. subject' \in [Groups -> Versions \cup {Gone}] /\ unsafe' \in BOOLEAN
      <3>1. ASSUME NEW g \in Groups, SubjectChanges(g)
            PROVE  subject' \in [Groups -> Versions \cup {Gone}] /\ unsafe' = unsafe
        BY <3>1 DEF SubjectChanges, IInv, TypeOK
      <3>2. ASSUME SafetyChanges PROVE subject' = subject /\ unsafe' \in BOOLEAN
        BY <3>2 DEF SafetyChanges
      <3> QED  BY <3>1, <3>2 DEF IInv, TypeOK
    <2> QED  BY <1>1, <2>1 DEF IInv, TypeOK
  <1>3. Keeps /\ \A t \in Tokens : PreviewOK(t)'
    BY <1>1, <1>2, PreviewsKept DEF Keeps, Grows, IInv, TypeOK
  <1>4. DOMAIN call' = Callers
    BY <1>1 DEF IInv
  <1> QED  BY <1>1, <1>2, <1>3, <1>4, Elsewhere

\* An expired preview is refused from then on; what was saved over it stands.
LEMMA ExpireStep ==
  ASSUME IInv, NEW t \in Tokens, PreviewExpires(t)
  PROVE  IInv'
  <1>1. /\ UNCHANGED <<subject, unsafe, decision, batch, outcome, audit, mu, call>>
        /\ preview[t].state = "live"
    BY DEF PreviewExpires
  <1>2. /\ DOMAIN preview' = Tokens /\ \A s \in Tokens \ {t} : preview'[s] = preview[s]
        /\ preview'[t] = [state |-> "expired", dec |-> preview[t].dec, items |-> preview[t].items]
    <2>1. preview[t] = [state |-> preview[t].state, dec |-> preview[t].dec,
                        items |-> preview[t].items]
      BY DEF IInv, PreviewOK
    <2>2. preview' = [preview EXCEPT ![t] = [preview[t] EXCEPT !.state = "expired"]]
      BY DEF PreviewExpires
    <2>3. [preview[t] EXCEPT !.state = "expired"]
            = [state |-> "expired", dec |-> preview[t].dec, items |-> preview[t].items]
      BY <2>1
    <2> QED  BY <2>2, <2>3 DEF IInv, TypeOK
  <1>3. TypeOK'
    BY <1>1, <1>2 DEF IInv, TypeOK
  <1>4. Keeps
    BY <1>2 DEF Keeps
  <1>5. ASSUME NEW s \in Tokens PROVE PreviewOK(s)'
    <2>1. PreviewOK(s)
      BY DEF IInv
    <2>2. CASE s = t
      BY <1>1, <1>2, <2>1, <2>2 DEF PreviewOK
    <2>3. CASE s # t
      BY <1>1, <1>2, <2>1, <2>3 DEF PreviewOK
    <2> QED  BY <2>2, <2>3
  <1>6. DOMAIN call' = Callers
    BY <1>1 DEF IInv
  <1> QED  BY <1>1, <1>3, <1>4, <1>5, <1>6, Elsewhere

\* A crash forgets the calls and the lock; the transactions that committed stand.
LEMMA CrashStep ==
  ASSUME IInv, Crash
  PROVE  IInv'
  <1>1. /\ UNCHANGED <<subject, unsafe, decision, preview, batch, outcome, audit>>
        /\ mu' = Nobody /\ call' = [c \in Callers |-> Idle]
    BY DEF Crash
  <1>2. \A d \in Callers : mu' = d <=> call'[d].pc \in {"insert", "items"}
    BY <1>1, ConstantsAssumption DEF Idle
  <1>3. TypeOK'
    BY <1>1, <1>2 DEF IInv, TypeOK
  <1>4. Keeps /\ \A t \in Tokens : PreviewOK(t)'
    BY <1>1, <1>3, PreviewsKept DEF Keeps, Grows, IInv, TypeOK
  <1>5. \A d \in Callers : CallOK(d)'
    BY <1>1, IdleOK
  <1> QED  BY <1>1, <1>3, <1>4, <1>5, Elsewhere

-----------------------------------------------------------------------------
(* A decision is recorded: the trail of the group gets one more row.        *)
LEMMA RecordFacts ==
  ASSUME IInv, NEW k \in Keys \cup {Nobody}, NEW g \in Groups, NEW d \in Decisions,
         Record(k, g, d),
         NEW n, n = decision[g].rev + 1,
         NEW a, a = [key |-> k, group |-> g, dec |-> d, rev |-> n]
  PROVE  /\ n \in Nat /\ a \in [key : Keys \cup {Nobody}, group : Groups, dec : Decisions, rev : Nat]
         /\ decision' \in [Groups -> [dec : Decisions \cup {Undecided}, rev : Nat]]
         /\ decision'[g].dec = d /\ decision'[g].rev = n
         /\ \A h \in Groups \ {g} : decision'[h] = decision[h]
         /\ audit' = audit \cup {a}
         /\ Saved(g)' = Saved(g) \cup {a} /\ a \notin Saved(g)
         /\ \A h \in Groups \ {g} : Saved(h)' = Saved(h)
         /\ Grows
  <1>1. decision \in [Groups -> [dec : Decisions \cup {Undecided}, rev : Nat]]
    BY DEF IInv, TypeOK
  <1>2. n \in Nat /\ a.group = g /\ a.rev = n
    BY <1>1
  <1>3. a \in [key : Keys \cup {Nobody}, group : Groups, dec : Decisions, rev : Nat]
    BY <1>2
  <1>4. decision' = [decision EXCEPT ![g] = [dec |-> d, rev |-> n]] /\ audit' = audit \cup {a}
    BY DEF Record
  <1>5. /\ decision' \in [Groups -> [dec : Decisions \cup {Undecided}, rev : Nat]]
        /\ decision'[g] = [dec |-> d, rev |-> n]
        /\ \A h \in Groups \ {g} : decision'[h] = decision[h]
    BY <1>1, <1>2, <1>4
  <1>6. Saved(g)' = Saved(g) \cup {a} /\ \A h \in Groups \ {g} : Saved(h)' = Saved(h)
    BY <1>2, <1>4 DEF Saved
  <1>7. a \notin Saved(g)
    <2>1. SUFFICES ASSUME a \in Saved(g) PROVE FALSE
      OBVIOUS
    <2>2. n \in {b.rev : b \in Saved(g)}
      BY <1>2, <2>1
    <2>3. n \in 1..decision[g].rev
      BY <2>2 DEF IInv, TrailOK
    <2> QED  BY <1>1, <2>3
  <1>8. Grows
    BY <1>1, <1>5 DEF Grows
  <1> QED  BY <1>2, <1>3, <1>4, <1>5, <1>6, <1>7, <1>8

\* A decision with its audit row extends the trail of its group by the next revision.
LEMMA TrailRecorded ==
  ASSUME IInv, NEW k \in Keys \cup {Nobody}, NEW g \in Groups, NEW d \in Decisions,
         Record(k, g, d),
         \A l \in Keys : outcome'[l][g] = "SAVED" <=> outcome[l][g] = "SAVED" \/ l = k
  PROVE  TrailOK(g)'
  <1> DEFINE n == decision[g].rev + 1
             a == [key |-> k, group |-> g, dec |-> d, rev |-> n]
  <1>1. /\ n \in Nat /\ decision'[g].dec = d /\ decision'[g].rev = n
        /\ Saved(g)' = Saved(g) \cup {a} /\ a \notin Saved(g)
    BY RecordFacts
  <1>2. TrailOK(g) /\ decision[g].rev \in Nat
    BY DEF IInv, TypeOK
  <1>3. IsFiniteSet(Saved(g)') /\ Cardinality(Saved(g)') = n
    BY <1>1, <1>2, FS_AddElement DEF TrailOK
  <1>4. {b.rev : b \in Saved(g)'} = 1..n
    <2>1. \A m : m \in {b.rev : b \in Saved(g)'} <=> m \in {b.rev : b \in Saved(g)} \/ m = a.rev
      BY <1>1
    <2>2. \A m : m \in 1..n <=> m \in 1..decision[g].rev \/ m = n
      BY <1>2
    <2>3. {b.rev : b \in Saved(g)} = 1..decision[g].rev /\ a.rev = n
      BY <1>2 DEF TrailOK
    <2> QED  BY <2>1, <2>2, <2>3
  <1>5. ASSUME NEW b \in Saved(g)', b.rev = n PROVE b.dec = d
    <2>1. ASSUME b \in Saved(g) PROVE FALSE
      <3>1. b.rev \in 1..decision[g].rev
        BY <1>2, <2>1 DEF TrailOK
      <3> QED  BY <1>2, <1>5, <3>1
    <2> QED  BY <1>1, <2>1
  <1>6. ASSUME NEW l \in Keys
        PROVE  outcome'[l][g] = "SAVED" <=> \E b \in Saved(g)' : b.key = l
    BY <1>1, <1>2 DEF TrailOK
  <1> QED  BY <1>1, <1>3, <1>4, <1>5, <1>6 DEF TrailOK

\* A single decision is saved outside any batch, with its audit row in one transaction.
LEMMA SaveStep ==
  ASSUME IInv, NEW g \in Groups, NEW d \in Decisions, SaveGroupDecision(g, d)
  PROVE  IInv'
  <1>n. PICK n : n = decision[g].rev + 1
    OBVIOUS
  <1>k. PICK k \in Keys \cup {Nobody} : k = Nobody
    OBVIOUS
  <1>a. PICK a : a = [key |-> k, group |-> g, dec |-> d, rev |-> n]
    OBVIOUS
  <1>1. UNCHANGED <<subject, unsafe, preview, batch, outcome, mu, call>> /\ Record(k, g, d)
    BY <1>k DEF SaveGroupDecision
  <1>2. /\ a \in [key : Keys \cup {Nobody}, group : Groups, dec : Decisions, rev : Nat]
        /\ decision' \in [Groups -> [dec : Decisions \cup {Undecided}, rev : Nat]]
        /\ \A h \in Groups \ {g} : decision'[h] = decision[h]
        /\ audit' = audit \cup {a}
        /\ \A h \in Groups \ {g} : Saved(h)' = Saved(h)
        /\ Grows
    BY <1>n, <1>a, <1>1, RecordFacts
  <1>3. TypeOK'
    BY <1>1, <1>2 DEF IInv, TypeOK
  <1>4. Keeps
    BY <1>1 DEF Keeps
  <1>5. \A t \in Tokens : PreviewOK(t)'
    BY <1>1, <1>2, <1>3, PreviewsKept
  <1>6. \A c \in Callers : CallOK(c)'
    BY <1>1, <1>2, <1>3, <1>4, CallKept
  <1>7. \A l \in Keys : BatchOK(l)'
    BY <1>1, <1>4, BatchKept
  <1>8. ASSUME NEW h \in Groups PROVE TrailOK(h)'
    <2>1. CASE h = g
      BY <1>1, <1>k, <2>1, TrailRecorded, ConstantsAssumption
    <2>2. CASE h # g
      BY <1>1, <1>2, <2>2, TrailsKept
    <2> QED  BY <2>1, <2>2
  <1>9. ASSUME NEW b \in audit' PROVE RowOK(b)'
    <2>1. CASE b \in audit
      BY <1>1, <1>4, <2>1, RowKept DEF IInv, RowOK
    <2>2. CASE b = a
      BY <1>k, <1>a, <2>2 DEF RowOK
    <2> QED  BY <1>2, <2>1, <2>2
  <1>10. DOMAIN call' = Callers
    BY <1>1 DEF IInv
  <1> QED  BY <1>3, <1>5, <1>6, <1>7, <1>8, <1>9, <1>10 DEF IInv

\* A batch is inserted with no group answered.
LEMMA InsertStep ==
  ASSUME IInv, NEW c \in Callers, InsertBatch(c)
  PROVE  IInv'
  <1>0. /\ UNCHANGED <<subject, unsafe, decision, preview, outcome, audit, mu>>
        /\ call[c].pc = "insert" /\ CallOK(c) /\ Holds(c)
    BY DEF InsertBatch, At, Holds, IInv
  <1>1. PICK k \in Keys, t \in Tokens : k = call[c].key /\ t = call[c].token
    BY <1>0 DEF CallOK
  <1>2. /\ preview[t].state # "none" /\ call[c].todo \subseteq DOMAIN preview[t].items
        /\ batch[k].state = "none"
    BY <1>0, <1>1 DEF CallOK
  <1>3. PICK b : b = [state |-> "IN_PROGRESS", token |-> t]
    OBVIOUS
  <1>4. /\ batch' \in [Keys -> [state : {"none", "IN_PROGRESS", "COMPLETE"},
                         token : Tokens \cup {Nobody}]]
        /\ batch'[k] = b /\ \A l \in Keys \ {k} : batch'[l] = batch[l]
    BY <1>1, <1>3 DEF InsertBatch, IInv, TypeOK
  <1>5. PICK r : r = [call[c] EXCEPT !.pc = "items"]
    OBVIOUS
  <1>6. /\ DOMAIN call' = Callers /\ call'[c] = r
        /\ \A d \in Callers \ {c} : call'[d] = call[d]
    BY <1>5, CallSet DEF InsertBatch
  <1>7. /\ r \in CallRec(r.items) /\ r.pc = "items" /\ r.token = t /\ r.key = k
        /\ r.todo = call[c].todo
    <2>1. call[c] \in CallRec(call[c].items)
      BY <1>0 DEF CallOK
    <2>2. r \in CallRec(call[c].items)
      BY <1>5, <2>1 DEF CallRec
    <2> QED  BY <1>1, <1>5, <2>1, <2>2 DEF CallRec
  <1>8. TypeOK'
    <2>1. \A d \in Callers : mu' = d <=> call'[d].pc \in {"insert", "items"}
      BY <1>0, <1>6, <1>7 DEF IInv, TypeOK
    <2> QED  BY <1>0, <1>4, <2>1 DEF IInv, TypeOK
  <1>9. Keeps /\ Grows
    BY <1>0 DEF Keeps, Grows, IInv, TypeOK
  <1>10. \A s \in Tokens : PreviewOK(s)'
    BY <1>0, <1>8, <1>9, PreviewsKept
  <1>11. ASSUME NEW d \in Callers PROVE CallOK(d)'
    <2>1. CASE d = c
      BY <1>0, <1>2, <1>3, <1>4, <1>6, <1>7, <2>1 DEF CallOK, CallRec
    <2>2. CASE d # c
      BY <1>0, <1>6, <1>8, <1>9, <2>2, OneHolder, CallKept DEF Holds
    <2> QED  BY <2>1, <2>2
  <1>12. ASSUME NEW l \in Keys PROVE BatchOK(l)'
    <2>1. CASE l = k
      <3>1. \A g \in Groups : outcome[k][g] = "none"
        BY <1>2 DEF IInv, BatchOK
      <3> QED  BY <1>0, <1>2, <1>3, <1>4, <2>1, <3>1 DEF BatchOK
    <2>2. CASE l # k
      BY <1>0, <1>4, <1>9, <2>2, BatchKept
    <2> QED  BY <2>1, <2>2
  <1>13. \A g \in Groups : TrailOK(g)'
    BY <1>0, TrailsKept DEF Saved
  <1>14. ASSUME NEW a \in audit PROVE RowOK(a)'
    <2>1. a.key # Nobody => a.key \in Keys \ {k} /\ batch[a.key].state # "none"
      BY <1>2 DEF IInv, RowOK
    <2> QED  BY <1>4, <1>9, <2>1, RowKept
  <1> QED  BY <1>0, <1>6, <1>8, <1>10, <1>11, <1>12, <1>13, <1>14 DEF IInv

\* A batch is completed when each of its groups has its answer.
LEMMA CompleteStep ==
  ASSUME IInv, NEW c \in Callers, CompleteBatch(c)
  PROVE  IInv'
  <1>0. /\ UNCHANGED <<subject, unsafe, decision, preview, outcome, audit>> /\ mu' = Nobody
        /\ call[c].pc = "items" /\ CallOK(c) /\ Holds(c) /\ Enter(c, Idle)
    BY DEF CompleteBatch, At, Holds, IInv, Return
  <1>1. PICK k \in Keys, t \in Tokens : k = call[c].key /\ t = call[c].token
    BY <1>0 DEF CallOK
  <1>2. batch[k] = [state |-> "IN_PROGRESS", token |-> t] /\ preview[t].state # "none"
    BY <1>0, <1>1 DEF CallOK
  <1>3. /\ batch' \in [Keys -> [state : {"none", "IN_PROGRESS", "COMPLETE"},
                         token : Tokens \cup {Nobody}]]
        /\ batch'[k].token = t /\ batch'[k].state # "none"
        /\ batch'[k].state = "COMPLETE" => \A g \in DOMAIN preview[t].items : outcome[k][g] # "none"
        /\ \A l \in Keys \ {k} : batch'[l] = batch[l]
    <2>1. batch \in [Keys -> [state : {"none", "IN_PROGRESS", "COMPLETE"},
                         token : Tokens \cup {Nobody}]]
      BY DEF IInv, TypeOK
    <2>2. CASE batch' = batch
      BY <1>2, <2>1, <2>2
    <2>3. CASE /\ batch' = [batch EXCEPT ![k].state = "COMPLETE"]
               /\ \A g \in DOMAIN preview[batch[k].token].items : outcome[k][g] # "none"
      BY <1>2, <2>1, <2>3
    <2> QED  BY <1>1, <2>2, <2>3 DEF CompleteBatch
  <1>4. /\ DOMAIN call' = Callers /\ call'[c] = Idle /\ call'[c].pc = "idle"
        /\ \A d \in Callers \ {c} : call'[d] = call[d]
    BY <1>0, CallSet, IdleRec
  <1>5. TypeOK'
    <2>1. \A d \in Callers : mu' = d <=> call'[d].pc \in {"insert", "items"}
      BY <1>0, <1>4, OneHolder, ConstantsAssumption DEF Holds
    <2> QED  BY <1>0, <1>3, <2>1 DEF IInv, TypeOK
  <1>6. Keeps /\ Grows
    BY <1>0 DEF Keeps, Grows, IInv, TypeOK
  <1>7. \A s \in Tokens : PreviewOK(s)'
    BY <1>0, <1>5, <1>6, PreviewsKept
  <1>8. ASSUME NEW d \in Callers PROVE CallOK(d)'
    <2>1. CASE d = c
      BY <1>4, <2>1, IdleOK
    <2>2. CASE d # c
      BY <1>0, <1>4, <1>5, <1>6, <2>2, OneHolder, CallKept DEF Holds
    <2> QED  BY <2>1, <2>2
  <1>9. ASSUME NEW l \in Keys PROVE BatchOK(l)'
    <2>1. CASE l = k
      BY <1>0, <1>2, <1>3, <2>1 DEF IInv, BatchOK
    <2>2. CASE l # k
      BY <1>0, <1>3, <1>6, <2>2, BatchKept
    <2> QED  BY <2>1, <2>2
  <1>10. \A g \in Groups : TrailOK(g)'
    BY <1>0, TrailsKept DEF Saved
  <1>11. ASSUME NEW a \in audit PROVE RowOK(a)'
    <2>1. a.key # Nobody => a.key \in Keys /\ batch[a.key].state # "none"
      BY DEF IInv, RowOK
    <2>2. a.key # Nobody => batch'[a.key].token = batch[a.key].token
                            /\ batch'[a.key].state # "none"
      BY <1>2, <1>3, <2>1
    <2> QED  BY <1>6, <2>2, RowKept
  <1> QED  BY <1>0, <1>4, <1>5, <1>7, <1>8, <1>9, <1>10, <1>11 DEF IInv

\* A group is answered SAVED only when it is safe, eligible and at the revision its preview saw.
LEMMA AnswerFacts ==
  ASSUME NEW g, NEW item \in Item, NEW fresh, NEW d
  PROVE  /\ Answer(g, item, fresh, d) \in Status
         /\ Answer(g, item, fresh, d) = "SAVED" =>
              ~unsafe /\ item.elig = "ELIGIBLE" /\ Unchanged(g, item)
  BY DEF Answer, Item, Eligibility, Status

(* An item is answered; when it is saved, over the revision its preview saw. *)
LEMMA ItemFacts ==
  ASSUME IInv, NEW c \in Callers, NEW g \in Groups, CommitDecisionItem(c, g)
  PROVE  \E k \in Keys, t \in Tokens :
           /\ k = call[c].key /\ t = call[c].token /\ g \in DOMAIN preview[t].items
           /\ batch[k] = [state |-> "IN_PROGRESS", token |-> t] /\ preview[t].state # "none"
           /\ \/ UNCHANGED <<decision, outcome, audit>>
              \/ \E answer \in Status :
                   /\ outcome[k][g] = "none"
                   /\ outcome' = [outcome EXCEPT ![k][g] = answer]
                   /\ \/ answer # "SAVED" /\ UNCHANGED <<decision, audit>>
                      \/ /\ answer = "SAVED" /\ Record(k, g, preview[t].dec) /\ ~unsafe
                         /\ preview[t].items[g].elig = "ELIGIBLE"
                         /\ Unchanged(g, preview[t].items[g])
  <1>1. call[c].pc = "items" /\ CallOK(c) /\ g \in call[c].todo
    BY DEF CommitDecisionItem, At, IInv
  <1>2. PICK k \in Keys, t \in Tokens : k = call[c].key /\ t = call[c].token
    BY <1>1 DEF CallOK
  <1>3. /\ batch[k] = [state |-> "IN_PROGRESS", token |-> t] /\ preview[t].state # "none"
        /\ g \in DOMAIN preview[t].items
    BY <1>1, <1>2 DEF CallOK
  <1>4. preview[t].items[g] \in Item
    BY <1>3 DEF IInv, TypeOK
  <1>5. CASE outcome[k][g] # "none"
    BY <1>2, <1>3, <1>5 DEF CommitDecisionItem
  <1>6. CASE outcome[k][g] = "none"
    <2>0. PICK fresh \in Verified :
            LET answer == Answer(g, preview[t].items[g], fresh, preview[t].dec) IN
            /\ outcome' = [outcome EXCEPT ![k][g] = answer]
            /\ IF answer = "SAVED" THEN Record(k, g, preview[t].dec)
                                   ELSE UNCHANGED <<decision, audit>>
      BY <1>2, <1>6 DEF CommitDecisionItem
    <2>1. PICK answer : answer = Answer(g, preview[t].items[g], fresh, preview[t].dec)
      OBVIOUS
    <2>2. /\ answer \in Status
          /\ answer = "SAVED" => /\ ~unsafe /\ preview[t].items[g].elig = "ELIGIBLE"
                                 /\ Unchanged(g, preview[t].items[g])
      BY <1>4, <2>1, AnswerFacts
    <2>3. /\ outcome' = [outcome EXCEPT ![k][g] = answer]
          /\ answer = "SAVED" => Record(k, g, preview[t].dec)
          /\ answer # "SAVED" => UNCHANGED <<decision, audit>>
      BY <2>0, <2>1
    <2> QED  BY <1>2, <1>3, <1>6, <2>2, <2>3
  <1> QED  BY <1>5, <1>6

\* One group of a batch is answered: its decision, audit row and outcome in one transaction.
LEMMA ItemStep ==
  ASSUME IInv, NEW c \in Callers, NEW g \in Groups, CommitDecisionItem(c, g)
  PROVE  IInv'
  <1>0. /\ UNCHANGED <<subject, unsafe, preview, batch, mu>>
        /\ call[c].pc = "items" /\ CallOK(c) /\ Holds(c)
        /\ Enter(c, [call[c] EXCEPT !.todo = @ \ {g}])
    BY DEF CommitDecisionItem, At, Holds, IInv
  <1>1. PICK k \in Keys, t \in Tokens :
           /\ k = call[c].key /\ t = call[c].token /\ g \in DOMAIN preview[t].items
           /\ batch[k] = [state |-> "IN_PROGRESS", token |-> t] /\ preview[t].state # "none"
           /\ \/ UNCHANGED <<decision, outcome, audit>>
              \/ \E answer \in Status :
                   /\ outcome[k][g] = "none"
                   /\ outcome' = [outcome EXCEPT ![k][g] = answer]
                   /\ \/ answer # "SAVED" /\ UNCHANGED <<decision, audit>>
                      \/ /\ answer = "SAVED" /\ Record(k, g, preview[t].dec) /\ ~unsafe
                         /\ preview[t].items[g].elig = "ELIGIBLE"
                         /\ Unchanged(g, preview[t].items[g])
    BY ItemFacts
  <1>2. PICK r : r = [call[c] EXCEPT !.todo = @ \ {g}]
    OBVIOUS
  <1>3. /\ DOMAIN call' = Callers /\ call'[c] = r
        /\ \A d \in Callers \ {c} : call'[d] = call[d]
    BY <1>0, <1>2, CallSet
  <1>4. /\ r \in CallRec(r.items) /\ r.pc = "items" /\ r.token = t /\ r.key = k
        /\ r.todo \subseteq call[c].todo
    <2>1. call[c] \in CallRec(call[c].items)
      BY <1>0 DEF CallOK
    <2>2. r \in CallRec(call[c].items)
      BY <1>2, <2>1 DEF CallRec
    <2> QED  BY <1>0, <1>1, <1>2, <2>1, <2>2 DEF CallRec
  <1>5. call[c].todo \subseteq DOMAIN preview[t].items
    BY <1>0, <1>1 DEF CallOK
  <1>6. \A d \in Callers : mu' = d <=> call'[d].pc \in {"insert", "items"}
    BY <1>0, <1>3, <1>4 DEF IInv, TypeOK
  <1>7. Keeps
    BY <1>0 DEF Keeps
  <1>8. ASSUME TypeOK', Grows, \A l \in Keys : BatchOK(l)', \A h \in Groups : TrailOK(h)',
               \A a \in audit' : RowOK(a)'
        PROVE  IInv'
    <2>1. \A s \in Tokens : PreviewOK(s)'
      BY <1>0, <1>8, PreviewsKept
    <2>2. ASSUME NEW d \in Callers PROVE CallOK(d)'
      <3>1. CASE d = c
        BY <1>0, <1>1, <1>3, <1>4, <1>5, <3>1 DEF CallOK
      <3>2. CASE d # c
        BY <1>0, <1>3, <1>7, <1>8, <3>2, OneHolder, CallKept DEF Holds
      <3> QED  BY <3>1, <3>2
    <2> QED  BY <1>3, <1>8, <2>1, <2>2 DEF IInv
  <1>9. CASE UNCHANGED <<decision, outcome, audit>>
    <2>1. TypeOK'
      BY <1>0, <1>6, <1>9 DEF IInv, TypeOK
    <2>2. Grows
      BY <1>9 DEF Grows, IInv, TypeOK
    <2>3. \A l \in Keys : BatchOK(l)'
      BY <1>0, <1>7, <1>9, BatchKept
    <2>4. \A h \in Groups : TrailOK(h)'
      BY <1>9, TrailsKept DEF Saved
    <2>5. \A a \in audit : RowOK(a)'
      BY <1>0, <1>7, RowKept DEF IInv, RowOK
    <2> QED  BY <1>8, <1>9, <2>1, <2>2, <2>3, <2>4, <2>5
  <1>10. ASSUME NEW answer \in Status, outcome[k][g] = "none",
                outcome' = [outcome EXCEPT ![k][g] = answer]
         PROVE  /\ outcome' \in [Keys -> [Groups -> Status \cup {"none"}]]
                /\ outcome'[k][g] = answer
                /\ \A h \in Groups \ {g} : outcome'[k][h] = outcome[k][h]
                /\ \A l \in Keys \ {k} : outcome'[l] = outcome[l]
                /\ \A l \in Keys : BatchOK(l)'
    <2>1. outcome \in [Keys -> [Groups -> Status \cup {"none"}]]
      BY DEF IInv, TypeOK
    <2>2. /\ outcome' \in [Keys -> [Groups -> Status \cup {"none"}]]
          /\ outcome'[k][g] = answer
          /\ \A h \in Groups \ {g} : outcome'[k][h] = outcome[k][h]
          /\ \A l \in Keys \ {k} : outcome'[l] = outcome[l]
      BY <1>10, <2>1
    <2>3. ASSUME NEW l \in Keys PROVE BatchOK(l)'
      <3>1. CASE l = k
        <4>1. BatchOK(k) /\ batch'[k] = batch[k] /\ batch[k].token = t /\ preview' = preview
          BY <1>0, <1>1 DEF IInv
        <4>2. batch[k].state = "IN_PROGRESS"
          BY <1>1
        <4>3. \A h \in Groups : outcome'[k][h] # "none" =>
                 batch[k].state # "none" /\ h \in DOMAIN preview[t].items
          <5>1. batch[k].state # "none" /\ g \in DOMAIN preview[t].items
            BY <1>1
          <5> QED  BY <2>2, <4>1, <5>1 DEF BatchOK
        <4> QED  BY <3>1, <4>1, <4>2, <4>3 DEF BatchOK
      <3>2. CASE l # k
        BY <1>0, <1>7, <2>2, <3>2, BatchKept
      <3> QED  BY <3>1, <3>2
    <2> QED  BY <2>2, <2>3
  <1>11. ASSUME NEW answer \in Status, outcome[k][g] = "none",
                outcome' = [outcome EXCEPT ![k][g] = answer],
                answer # "SAVED", UNCHANGED <<decision, audit>>
         PROVE  IInv'
    <2>1. TypeOK'
      BY <1>0, <1>6, <1>10, <1>11 DEF IInv, TypeOK
    <2>2. Grows
      BY <1>11 DEF Grows, IInv, TypeOK
    <2>3. ASSUME NEW h \in Groups PROVE TrailOK(h)'
      <3>1. \A l \in Keys : outcome'[l][h] = "SAVED" <=> outcome[l][h] = "SAVED"
        BY <1>10, <1>11
      <3> QED  BY <1>11, <3>1, TrailsKept DEF Saved
    <2>4. \A a \in audit : RowOK(a)'
      BY <1>0, <1>7, RowKept DEF IInv, RowOK
    <2> QED  BY <1>8, <1>10, <1>11, <2>1, <2>2, <2>3, <2>4
  <1>12. ASSUME outcome[k][g] = "none",
                outcome' = [outcome EXCEPT ![k][g] = "SAVED"],
                Record(k, g, preview[t].dec), preview[t].items[g].elig = "ELIGIBLE",
                Unchanged(g, preview[t].items[g])
         PROVE  IInv'
    <2>1. PICK d \in Decisions : d = preview[t].dec
      BY <1>1 DEF IInv, PreviewOK
    <2>2. PICK n : n = decision[g].rev + 1
      OBVIOUS
    <2>3. PICK a : a = [key |-> k, group |-> g, dec |-> d, rev |-> n]
      OBVIOUS
    <2>4. /\ a \in [key : Keys \cup {Nobody}, group : Groups, dec : Decisions, rev : Nat]
          /\ decision' \in [Groups -> [dec : Decisions \cup {Undecided}, rev : Nat]]
          /\ \A h \in Groups \ {g} : decision'[h] = decision[h]
          /\ audit' = audit \cup {a}
          /\ \A h \in Groups \ {g} : Saved(h)' = Saved(h)
          /\ Grows
      BY <1>12, <2>1, <2>2, <2>3, RecordFacts
    <2>5. "SAVED" \in Status
      BY DEF Status
    <2>6. TypeOK'
      BY <1>0, <1>6, <1>10, <1>12, <2>4, <2>5 DEF IInv, TypeOK
    <2>7. ASSUME NEW h \in Groups PROVE TrailOK(h)'
      <3>1. CASE h = g
        <4>1. \A l \in Keys : outcome'[l][g] = "SAVED" <=> outcome[l][g] = "SAVED" \/ l = k
          BY <1>10, <1>12, <2>5
        <4> QED  BY <1>12, <2>1, <3>1, <4>1, TrailRecorded
      <3>2. CASE h # g
        <4>1. \A l \in Keys : outcome'[l][h] = "SAVED" <=> outcome[l][h] = "SAVED"
          BY <1>10, <1>12, <2>5, <3>2
        <4> QED  BY <2>4, <3>2, <4>1, TrailsKept
      <3> QED  BY <3>1, <3>2
    <2>8. ASSUME NEW b \in audit' PROVE RowOK(b)'
      <3>1. CASE b \in audit
        BY <1>0, <1>7, <3>1, RowKept DEF IInv, RowOK
      <3>2. CASE b = a
        <4>1. a.key = k /\ a.group = g /\ a.dec = d /\ a.rev = n
          BY <2>3
        <4>2. batch'[k].token = t /\ batch'[k].state # "none" /\ preview'[t] = preview[t]
          BY <1>0, <1>1
        <4>3. g \in Eligible(preview[t].items) /\ n = preview[t].items[g].rev + 1
          BY <1>1, <1>12, <2>2 DEF Eligible, Unchanged
        <4> QED  BY <2>1, <3>2, <4>1, <4>2, <4>3 DEF RowOK
      <3> QED  BY <2>4, <3>1, <3>2
    <2> QED  BY <1>8, <1>10, <1>12, <2>4, <2>5, <2>6, <2>7, <2>8
  <1> QED  BY <1>1, <1>9, <1>11, <1>12

-----------------------------------------------------------------------------
(* The invariant is inductive.                                              *)

\* A preview without groups.
LEMMA NoItems == DOMAIN <<>> = {}
  OBVIOUS

\* The invariant holds initially.
LEMMA Initially == Init => IInv
  <1> SUFFICES ASSUME Init PROVE IInv
    OBVIOUS
  <1>1. TypeOK
    BY IdleRec, NoItems, ConstantsAssumption DEF Init, TypeOK, Status
  <1>2. ASSUME NEW t \in Tokens PROVE PreviewOK(t)
    BY DEF Init, PreviewOK
  <1>3. \A c \in Callers : CallOK(c)
    BY IdleRec DEF Init, CallOK
  <1>4. \A k \in Keys : BatchOK(k)
    BY DEF Init, BatchOK
  <1>5. ASSUME NEW g \in Groups PROVE TrailOK(g)
    <2>1. Saved(g) = {}
      BY DEF Init, Saved
    <2>2. decision[g].rev = 0
      BY DEF Init
    <2>3. {a.rev : a \in Saved(g)} = 1..0
      BY <2>1
    <2> QED  BY <2>1, <2>2, <2>3, FS_EmptySet DEF Init, TrailOK
  <1> QED  BY <1>1, <1>2, <1>3, <1>4, <1>5 DEF IInv, Init

\* Every step keeps the invariant.
LEMMA NextStep == IInv /\ [Next]_vars => IInv'
  <1> SUFFICES ASSUME IInv, [Next]_vars PROVE IInv'
    OBVIOUS
  <1>1. ASSUME NEW c \in Callers,
               \/ BeginPersist(c) \/ PreviewRejected(c) \/ \E g \in Groups : RecheckSubject(c, g)
               \/ CommitStep(c) \/ CommitStops(c)
               \/ \E d \in Batched : EvaluateGovernancePreview(c, d)
               \/ \E t \in Tokens : \/ PersistGovernancePreview(c, t)
                                    \/ \E k \in Keys : Commit(c, t, k)
        PROVE  IInv'
    BY <1>1, ReturnStep, InsertStep, CompleteStep, ItemStep, EvaluateStep, PersistStep,
       BeginPersistStep, RecheckStep, CommitBegins DEF CommitStep
  <1>2. ASSUME NEW g \in Groups, SubjectChanges(g) \/ \E d \in Decisions : SaveGroupDecision(g, d)
        PROVE  IInv'
    BY <1>2, AroundStep, SaveStep
  <1>3. CASE UNCHANGED vars
    <2>1. TypeOK'
      BY <1>3 DEF vars, IInv, TypeOK
    <2>2. Keeps /\ \A t \in Tokens : PreviewOK(t)'
      BY <1>3, <2>1, PreviewsKept DEF vars, Keeps, Grows, IInv, TypeOK
    <2> QED  BY <1>3, <2>1, <2>2, Elsewhere DEF vars, IInv
  <1> QED  BY <1>1, <1>2, <1>3, AroundStep, ExpireStep, CrashStep DEF Next

\* The invariant holds in every reachable state.
LEMMA Inductive == Spec => []IInv
  BY Initially, NextStep, PTL DEF Spec

(* Every variable has its sort, and governanceMu is held by the call that   *)
(* is between the start of a commit and its end, by one at most.            *)
THEOREM TypeCorrect == Spec => []TypeOK
  <1>1. IInv => TypeOK
    BY DEF IInv
  <1> QED  BY <1>1, Inductive, PTL

(* Decisions, audit rows, outcomes and batches tell one story: the rows of  *)
(* a group number its revisions, a batch has a row exactly for the groups   *)
(* it reports as saved and saved them over the revision its preview saw     *)
(* (commitDecisionItem), and the history page can always be shown.          *)
THEOREM RecordsTellOneStory == Spec => []RecordsAgree
  <1>1. ASSUME IInv PROVE RecordsAgree
    <2>1. ASSUME NEW g \in Groups
          PROVE  LET saved == {a \in audit : a.group = g} IN
                 /\ {a.rev : a \in saved} = 1..decision[g].rev
                 /\ Cardinality(saved) = decision[g].rev
                 /\ \A a \in saved : a.rev = decision[g].rev => a.dec = decision[g].dec
                 /\ {a.key : a \in saved} \ {Nobody} = {k \in Keys : Result(k)[g] = "SAVED"}
      <3>1. TrailOK(g)
        BY <1>1 DEF IInv
      <3>2. \A k \in Keys : Result(k)[g] = "SAVED" <=> outcome[k][g] = "SAVED"
        BY DEF Result
      <3>3. \A a \in Saved(g) : a.key \in Keys \cup {Nobody}
        BY <1>1 DEF IInv, TypeOK, Saved
      <3>4. {a.key : a \in Saved(g)} \ {Nobody} = {k \in Keys : Result(k)[g] = "SAVED"}
        BY <3>1, <3>2, <3>3, ConstantsAssumption DEF TrailOK
      <3> QED  BY <3>1, <3>4 DEF TrailOK, Saved
    <2>2. \A a \in audit : a.key # Nobody =>
            LET p == preview[batch[a.key].token] IN
            /\ a.group \in Eligible(p.items) /\ a.dec = p.dec
            /\ a.rev = p.items[a.group].rev + 1
      BY <1>1 DEF IInv, RowOK
    <2>3. ASSUME NEW k \in Keys PROVE Readable(k)
      <3>1. BatchOK(k)
        BY <1>1 DEF IInv
      <3> QED  BY <3>1 DEF BatchOK, Readable, Asked
    <2> QED  BY <2>1, <2>2, <2>3 DEF RecordsAgree
  <1> QED  BY <1>1, Inductive, PTL

(* No decision is recorded while a job is active or a recovery is pending,  *)
(* also when that begins in the middle of a batch: the safety state is read *)
(* in the transaction of each item.                                         *)
THEOREM NothingDecidedWhileUnsafe == Spec => DecidedWhenSafe
  <1>1. IInv /\ [Next]_vars => [decision' # decision => ~unsafe]_vars
    <2> SUFFICES ASSUME IInv, Next, decision' # decision PROVE ~unsafe
      OBVIOUS
    <2>1. ASSUME NEW c \in Callers, NEW g \in Groups, CommitDecisionItem(c, g) PROVE ~unsafe
      BY <2>1, ItemFacts
    <2>2. ASSUME NEW g \in Groups, NEW d \in Decisions, SaveGroupDecision(g, d) PROVE ~unsafe
      BY <2>2 DEF SaveGroupDecision
    <2>3. ASSUME NEW c \in Callers, NEW d, NEW t, NEW k,
                 \/ BeginPersist(c) \/ RecheckSubject(c, k) \/ PreviewRejected(c) \/ CommitStops(c) \/ InsertBatch(c) \/ CompleteBatch(c)
                 \/ EvaluateGovernancePreview(c, d) \/ PersistGovernancePreview(c, t)
                 \/ Commit(c, t, k)
          PROVE  FALSE
      BY <2>3 DEF BeginPersist, RecheckSubject, PreviewRejected, CommitStops, InsertBatch, CompleteBatch,
                  EvaluateGovernancePreview, PersistGovernancePreview, Commit
    <2>4. ASSUME NEW x, SubjectChanges(x) \/ PreviewExpires(x) \/ SafetyChanges \/ Crash
          PROVE  FALSE
      BY <2>4 DEF SubjectChanges, PreviewExpires, SafetyChanges, Crash
    <2> QED  BY <2>1, <2>2, <2>3, <2>4 DEF Next, CommitStep
  <1> QED  BY <1>1, Inductive, PTL DEF Spec, DecidedWhenSafe

-----------------------------------------------------------------------------
(* Recording implements the ledger.                                         *)

SeenBy(k) == [g \in Asked(k) |-> preview[batch[k].token].items[g].rev]

(* What the ledger shows: a request that is kept as it is ...               *)
LEMMA SeenKept ==
  ASSUME IInv, Keeps, NEW k \in Keys, batch'[k].token = batch[k].token,
         batch'[k].state = "none" <=> batch[k].state = "none"
  PROVE  SeenBy(k)' = SeenBy(k)
  <1>1. CASE batch[k].state = "none"
    BY <1>1 DEF SeenBy, Asked
  <1>2. CASE batch[k].state # "none"
    <2>1. preview'[batch[k].token].items = preview[batch[k].token].items
      BY <1>2 DEF IInv, BatchOK, Keeps
    <2> QED  BY <1>2, <2>1 DEF SeenBy, Asked
  <1> QED  BY <1>1, <1>2

(* ... and steps that it does not show.                                     *)
LEMMA LedgerStutters ==
  ASSUME IInv, Keeps, UNCHANGED <<decision, batch, outcome>>
  PROVE  UNCHANGED Ledger!vars
  <1>1. \A k \in Keys : SeenBy(k)' = SeenBy(k) /\ Result(k)' = Result(k)
    BY SeenKept DEF Result
  <1>2. [k \in Keys |-> SeenBy(k)]' = [k \in Keys |-> SeenBy(k)]
    BY <1>1
  <1>3. [k \in Keys |-> Result(k)]' = [k \in Keys |-> Result(k)]
    BY <1>1
  <1> QED  BY <1>2, <1>3 DEF Ledger!vars, SeenBy

\* The empty records are the empty ledger.
LEMMA LedgerBegins == Init => Ledger!Init
  <1> SUFFICES ASSUME Init PROVE Ledger!Init
    OBVIOUS
  <1>1. \A k \in Keys : Asked(k) = {}
    BY DEF Init, Asked
  <1>2. \A k \in Keys : SeenBy(k) = <<>>
    BY <1>1 DEF SeenBy
  <1>3. [k \in Keys |-> SeenBy(k)] = [k \in Keys |-> <<>>]
    BY <1>2
  <1>4. \A k \in Keys : Result(k) = [g \in Groups |-> "FAILED"]
    BY DEF Init, Result
  <1> QED  BY <1>3, <1>4 DEF Init, Ledger!Init, SeenBy

(* A recorded decision is one new revision.                                 *)
LEMMA LedgerDecides ==
  ASSUME IInv, NEW k \in Keys \cup {Nobody}, NEW g \in Groups, NEW d \in Decisions, Record(k, g, d)
  PROVE  Ledger!Decide(g)
  <1>1. PICK n : n = decision[g].rev + 1
    OBVIOUS
  <1>2. PICK a : a = [key |-> k, group |-> g, dec |-> d, rev |-> n]
    OBVIOUS
  <1>3. /\ decision'[g].dec = d /\ decision'[g].rev = n
        /\ \A h \in Groups \ {g} : decision'[h] = decision[h]
    BY <1>1, <1>2, RecordFacts
  <1>4. [h \in Groups |-> decision[h].rev]'
          = [[h \in Groups |-> decision[h].rev] EXCEPT ![g] = @ + 1]
    BY <1>1, <1>3
  <1>5. [h \in Groups |-> decision[h].dec]'
          = [[h \in Groups |-> decision[h].dec] EXCEPT ![g] = d]
    BY <1>3
  <1> QED  BY <1>4, <1>5 DEF Ledger!Decide

\* A single decision is one recording of the ledger.
LEMMA LedgerSaves ==
  ASSUME IInv, NEW g \in Groups, NEW d \in Decisions, SaveGroupDecision(g, d)
  PROVE  Ledger!Record(g)
  <1>1. UNCHANGED <<preview, batch, outcome>> /\ Record(Nobody, g, d)
    BY DEF SaveGroupDecision
  <1>2. PICK k \in Keys \cup {Nobody} : k = Nobody
    OBVIOUS
  <1>3. Ledger!Decide(g)
    BY <1>1, <1>2, LedgerDecides
  <1>4. UNCHANGED <<[k2 \in Keys |-> SeenBy(k2)], [k2 \in Keys |-> Result(k2)],
                    {k2 \in Keys : batch[k2].state = "COMPLETE"}>>
    BY <1>1 DEF SeenBy, Asked, Result
  <1> QED  BY <1>3, <1>4 DEF Ledger!Record, SeenBy

\* Inserting a batch opens it in the ledger.
LEMMA LedgerOpens ==
  ASSUME IInv, NEW c \in Callers, InsertBatch(c)
  PROVE  \E k \in Keys : Ledger!Open(k)
  <1>0. UNCHANGED <<decision, preview, outcome>> /\ call[c].pc = "insert" /\ CallOK(c)
    BY DEF InsertBatch, At, IInv
  <1>1. PICK k \in Keys, t \in Tokens : k = call[c].key /\ t = call[c].token
    BY <1>0 DEF CallOK
  <1>2. preview[t].state # "none" /\ batch[k].state = "none"
    BY <1>0, <1>1 DEF CallOK
  <1>3. /\ batch'[k] = [state |-> "IN_PROGRESS", token |-> t]
        /\ \A l \in Keys \ {k} : batch'[l] = batch[l]
    BY <1>1 DEF InsertBatch, IInv, TypeOK
  <1>4. SeenBy(k) = <<>>
    BY <1>2 DEF SeenBy, Asked
  <1>5. /\ SeenBy(k)' = [g \in DOMAIN preview[t].items |-> preview[t].items[g].rev]
        /\ DOMAIN preview[t].items \subseteq Groups /\ DOMAIN preview[t].items # {}
        /\ \A g \in DOMAIN preview[t].items : preview[t].items[g].rev \in 0..decision[g].rev
    BY <1>0, <1>2, <1>3 DEF IInv, TypeOK, PreviewOK, SeenBy, Asked
  <1>6. SeenBy(k)' # <<>> /\ DOMAIN (SeenBy(k)') \subseteq Groups
    BY <1>5, NoItems
  <1>7. Keeps
    BY <1>0 DEF Keeps
  <1>8. \A l \in Keys \ {k} : SeenBy(l)' = SeenBy(l)
    BY <1>3, <1>7, SeenKept
  <1>9. [l \in Keys |-> SeenBy(l)]' = [[l \in Keys |-> SeenBy(l)] EXCEPT ![k] = SeenBy(k)']
    BY <1>8
  <1>10. UNCHANGED <<[l \in Keys |-> Result(l)], {l \in Keys : batch[l].state = "COMPLETE"}>>
    BY <1>0, <1>2, <1>3 DEF Result
  <1>11. \A g \in DOMAIN (SeenBy(k)') :
           SeenBy(k)'[g] \in 0..[h \in Groups |-> decision[h].rev][g]
    BY <1>5
  <1>12. [l \in Keys |-> SeenBy(l)][k] = <<>> /\ [l \in Keys |-> SeenBy(l)]'[k] = SeenBy(k)'
    BY <1>4
  <1>13. UNCHANGED <<[h \in Groups |-> decision[h].rev], [h \in Groups |-> decision[h].dec]>>
    BY <1>0
  <1>14. Ledger!Open(k)
    BY <1>6, <1>9, <1>10, <1>11, <1>12, <1>13 DEF Ledger!Open, SeenBy
  <1> QED  BY <1>14

\* Answering a group is a save or a refusal of the ledger, or nothing for an answer already given.
LEMMA LedgerAnswers ==
  ASSUME IInv, NEW c \in Callers, NEW g \in Groups, CommitDecisionItem(c, g)
  PROVE  UNCHANGED Ledger!vars \/ \E k \in Keys : Ledger!Save(k, g) \/ Ledger!Refuse(k, g)
  <1>0. UNCHANGED <<preview, batch>> /\ Keeps
    BY DEF CommitDecisionItem, Keeps
  <1>1. PICK k \in Keys, t \in Tokens :
           /\ k = call[c].key /\ t = call[c].token /\ g \in DOMAIN preview[t].items
           /\ batch[k] = [state |-> "IN_PROGRESS", token |-> t] /\ preview[t].state # "none"
           /\ \/ UNCHANGED <<decision, outcome, audit>>
              \/ \E answer \in Status :
                   /\ outcome[k][g] = "none"
                   /\ outcome' = [outcome EXCEPT ![k][g] = answer]
                   /\ \/ answer # "SAVED" /\ UNCHANGED <<decision, audit>>
                      \/ /\ answer = "SAVED" /\ Record(k, g, preview[t].dec) /\ ~unsafe
                         /\ preview[t].items[g].elig = "ELIGIBLE"
                         /\ Unchanged(g, preview[t].items[g])
    BY ItemFacts
  <1>2. CASE UNCHANGED <<decision, outcome, audit>>
    BY <1>0, <1>2, LedgerStutters
  <1>3. ASSUME NEW answer \in Status, outcome[k][g] = "none",
               outcome' = [outcome EXCEPT ![k][g] = answer]
        PROVE  /\ [l \in Keys |-> Result(l)]'
                    = [[l \in Keys |-> Result(l)] EXCEPT ![k][g] = answer]
               /\ [l \in Keys |-> Result(l)][k][g] = "FAILED"
               /\ g \in DOMAIN [l \in Keys |-> SeenBy(l)][k]
               /\ [l \in Keys |-> SeenBy(l)][k][g] = preview[t].items[g].rev
               /\ UNCHANGED <<[l \in Keys |-> SeenBy(l)],
                              {l \in Keys : batch[l].state = "COMPLETE"}>>
    <2>1. outcome \in [Keys -> [Groups -> Status \cup {"none"}]] /\ answer # "none"
      BY DEF IInv, TypeOK, Status
    <2>2. Result(k)[g] = "FAILED" /\ Result(k)' = [Result(k) EXCEPT ![g] = answer]
      BY <1>3, <2>1 DEF Result
    <2>3. \A l \in Keys \ {k} : Result(l)' = Result(l)
      BY <1>3, <2>1 DEF Result
    <2>4. [l \in Keys |-> Result(l)]' = [[l \in Keys |-> Result(l)] EXCEPT ![k][g] = answer]
      BY <2>2, <2>3
    <2>5. g \in DOMAIN SeenBy(k) /\ SeenBy(k)[g] = preview[t].items[g].rev
      <3>1. /\ batch[k].token = t /\ batch[k].state # "none"
            /\ g \in DOMAIN preview[t].items
        BY <1>1
      <3> QED  BY <3>1 DEF SeenBy, Asked
    <2>6. [l \in Keys |-> SeenBy(l)]' = [l \in Keys |-> SeenBy(l)]
      BY <1>0 DEF SeenBy, Asked
    <2> QED  BY <1>0, <2>2, <2>4, <2>5, <2>6
  <1>4. ASSUME NEW answer \in Status, outcome[k][g] = "none", answer # "SAVED",
               outcome' = [outcome EXCEPT ![k][g] = answer], UNCHANGED decision
        PROVE  Ledger!Refuse(k, g)
    <2>1. answer \in Ledger!Answers \ {"SAVED"}
      BY <1>4 DEF Ledger!Answers, Status
    <2>2. UNCHANGED <<[h \in Groups |-> decision[h].rev], [h \in Groups |-> decision[h].dec]>>
      BY <1>4
    <2> QED  BY <1>3, <1>4, <2>1, <2>2 DEF Ledger!Refuse, SeenBy
  <1>5. ASSUME outcome[k][g] = "none", outcome' = [outcome EXCEPT ![k][g] = "SAVED"],
               Record(k, g, preview[t].dec), Unchanged(g, preview[t].items[g])
        PROVE  Ledger!Save(k, g)
    <2>1. "SAVED" \in Status /\ preview[t].dec \in Decisions
      BY <1>1 DEF Status, IInv, PreviewOK
    <2>2. Ledger!Decide(g)
      BY <1>5, <2>1, LedgerDecides
    <2>3. [h \in Groups |-> decision[h].rev][g] = preview[t].items[g].rev
      BY <1>5 DEF Unchanged
    <2> QED  BY <1>3, <1>5, <2>1, <2>2, <2>3 DEF Ledger!Save, SeenBy
  <1> QED  BY <1>1, <1>2, <1>4, <1>5

\* Completing a batch closes it in the ledger, or nothing if it was closed.
LEMMA LedgerCloses ==
  ASSUME IInv, NEW c \in Callers, CompleteBatch(c)
  PROVE  UNCHANGED Ledger!vars \/ \E k \in Keys : Ledger!Close(k)
  <1>0. UNCHANGED <<decision, preview, outcome>> /\ call[c].pc = "items" /\ CallOK(c) /\ Keeps
    BY DEF CompleteBatch, At, IInv, Keeps
  <1>1. PICK k \in Keys, t \in Tokens : k = call[c].key /\ t = call[c].token
    BY <1>0 DEF CallOK
  <1>2. batch[k] = [state |-> "IN_PROGRESS", token |-> t] /\ preview[t].state # "none"
    BY <1>0, <1>1 DEF CallOK
  <1>3. CASE batch' = batch
    BY <1>0, <1>3, LedgerStutters
  <1>4. CASE /\ batch' = [batch EXCEPT ![k].state = "COMPLETE"]
             /\ \A g \in DOMAIN preview[batch[k].token].items : outcome[k][g] # "none"
    <2>1. /\ batch'[k].token = t /\ batch'[k].state = "COMPLETE"
          /\ \A l \in Keys \ {k} : batch'[l] = batch[l]
      BY <1>2, <1>4 DEF IInv, TypeOK
    <2>2. \A l \in Keys : SeenBy(l)' = SeenBy(l)
      BY <1>0, <1>2, <2>1, SeenKept
    <2>3. [l \in Keys |-> SeenBy(l)]' = [l \in Keys |-> SeenBy(l)]
      BY <2>2
    <2>4. {l \in Keys : batch[l].state = "COMPLETE"}'
            = {l \in Keys : batch[l].state = "COMPLETE"} \cup {k}
      BY <2>1
    <2>5. DOMAIN SeenBy(k) = DOMAIN preview[t].items /\ DOMAIN SeenBy(k) # {}
          /\ DOMAIN SeenBy(k) \subseteq Groups
      BY <1>2 DEF SeenBy, Asked, IInv, PreviewOK, TypeOK
    <2>6. SeenBy(k) # <<>> /\ \A g \in DOMAIN SeenBy(k) : Result(k)[g] # "FAILED"
      <3>1. \A g \in DOMAIN SeenBy(k) : outcome[k][g] \in Status
        BY <1>2, <1>4, <2>5 DEF IInv, TypeOK
      <3> QED  BY <2>5, <3>1, NoItems DEF Result, Status
    <2>7. UNCHANGED <<[h \in Groups |-> decision[h].rev], [h \in Groups |-> decision[h].dec],
                      [l \in Keys |-> Result(l)]>>
      BY <1>0 DEF Result
    <2>8. [l \in Keys |-> SeenBy(l)][k] = SeenBy(k) /\ [l \in Keys |-> Result(l)][k] = Result(k)
      OBVIOUS
    <2>9. Ledger!Close(k)
      BY <2>3, <2>4, <2>6, <2>7, <2>8 DEF Ledger!Close, SeenBy
    <2> QED  BY <2>9
  <1> QED  BY <1>1, <1>3, <1>4 DEF CompleteBatch

(* Recording implements the ledger: every change of a decision is one new   *)
(* revision, a batch answers each of its groups once and saves only over    *)
(* the revision its preview saw, in the same step, and is complete when all *)
(* are answered; what else the service does is not seen there.              *)
THEOREM RecordingImplementsLedger == Spec => LedgerSpec
  <1>1. ASSUME IInv, [Next]_vars PROVE Ledger!Next \/ UNCHANGED Ledger!vars
    <2>1. ASSUME NEW c \in Callers, CommitStep(c) PROVE Ledger!Next \/ UNCHANGED Ledger!vars
      BY <1>1, <2>1, LedgerOpens, LedgerAnswers, LedgerCloses DEF CommitStep, Ledger!Next
    <2>2. ASSUME NEW g \in Groups, NEW d \in Decisions, SaveGroupDecision(g, d)
          PROVE  Ledger!Next
      BY <1>1, <2>2, LedgerSaves DEF Ledger!Next
    <2>3. ASSUME NEW c \in Callers, NEW t \in Tokens, PersistGovernancePreview(c, t)
          PROVE  Keeps /\ UNCHANGED <<decision, batch, outcome>>
      BY <1>1, <2>3 DEF PersistGovernancePreview, Keeps, IInv, TypeOK
    <2>4. ASSUME NEW t \in Tokens, PreviewExpires(t)
          PROVE  Keeps /\ UNCHANGED <<decision, batch, outcome>>
      <3>1. preview[t] = [state |-> preview[t].state, dec |-> preview[t].dec,
                          items |-> preview[t].items]
        BY <1>1 DEF IInv, PreviewOK
      <3>2. preview' = [preview EXCEPT ![t] = [preview[t] EXCEPT !.state = "expired"]]
        BY <2>4 DEF PreviewExpires
      <3>3. [preview[t] EXCEPT !.state = "expired"]
              = [state |-> "expired", dec |-> preview[t].dec, items |-> preview[t].items]
        BY <3>1
      <3>4. Keeps
        BY <1>1, <3>2, <3>3 DEF Keeps, IInv, TypeOK
      <3> QED  BY <2>4, <3>4 DEF PreviewExpires
    <2>5. ASSUME NEW c \in Callers, NEW t \in Tokens, NEW k \in Keys, Commit(c, t, k)
          PROVE  Keeps /\ UNCHANGED <<decision, batch, outcome>>
      BY <2>5 DEF Commit, Keeps
    <2>6. ASSUME (\E g \in Groups : SubjectChanges(g)) \/ SafetyChanges \/ Crash
                   \/ UNCHANGED vars
          PROVE  Keeps /\ UNCHANGED <<decision, batch, outcome>>
      BY <2>6 DEF SubjectChanges, SafetyChanges, Crash, vars, Keeps
    <2>7. ASSUME NEW c \in Callers,
                 \/ BeginPersist(c) \/ PreviewRejected(c) \/ CommitStops(c)
                 \/ \E g \in Groups : RecheckSubject(c, g)
          PROVE  Keeps /\ UNCHANGED <<decision, batch, outcome>>
      BY <2>7 DEF BeginPersist, RecheckSubject, PreviewRejected, CommitStops, Keeps
    <2>8. ASSUME NEW c \in Callers, NEW d \in Batched, EvaluateGovernancePreview(c, d)
          PROVE  Keeps /\ UNCHANGED <<decision, batch, outcome>>
      BY <2>8 DEF EvaluateGovernancePreview, Keeps
    <2>9. ASSUME Keeps, UNCHANGED <<decision, batch, outcome>> PROVE UNCHANGED Ledger!vars
      BY <1>1, <2>9, LedgerStutters
    <2>10. CASE \E c \in Callers :
                  \/ BeginPersist(c) \/ PreviewRejected(c) \/ \E g \in Groups : RecheckSubject(c, g)
                  \/ CommitStep(c) \/ CommitStops(c)
                  \/ \E d \in Batched : EvaluateGovernancePreview(c, d)
                  \/ \E t \in Tokens : \/ PersistGovernancePreview(c, t)
                                       \/ \E k \in Keys : Commit(c, t, k)
      BY <2>1, <2>3, <2>5, <2>7, <2>8, <2>9, <2>10
    <2>11. CASE \/ \E g \in Groups : SubjectChanges(g) \/ \E d \in Decisions : SaveGroupDecision(g, d)
                \/ \E t \in Tokens : PreviewExpires(t)
                \/ SafetyChanges \/ Crash \/ UNCHANGED vars
      BY <2>2, <2>4, <2>6, <2>9, <2>11
    <2> QED  BY <1>1, <2>10, <2>11 DEF Next
  <1> QED  BY <1>1, Inductive, LedgerBegins, PTL DEF Spec, LedgerSpec, Ledger!Spec
===============================================================================
