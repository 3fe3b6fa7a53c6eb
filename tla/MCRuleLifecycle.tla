-------------------------- MODULE MCRuleLifecycle ---------------------------
(***************************************************************************)
(* A small instance of RuleLifecycle: two names a and b to learn, eight    *)
(* directories of every kind, indexes in which a name is a convention or   *)
(* not, duplicates in one kind of directory or across kinds, hard links,   *)
(* files without identity and digests that are missing or too short.       *)
(***************************************************************************)
EXTENDS RuleLifecycle

CONSTANTS a, b, u, proj

tmp1 == "tmp1"
tmp2 == "tmp2"
onlyA == "onlyA"
onlyB == "onlyB"
rawA == "rawA"
secretB == "secretB"
workA == "workA"
sideT == "sideT"

MCPath == {tmp1, tmp2, onlyA, onlyB, rawA, secretB, workA, sideT}
MCDependent == {sideT}

MCSegments == [p \in MCPath |->
    CASE p = tmp1 -> {"temporary", a} [] p \in {tmp2, sideT} -> {"temporary"}
      [] p = onlyA -> {a} [] p = onlyB -> {b}
      [] p = rawA -> {"raw_source", "cache_derived", a} [] p = secretB -> {SensitiveTerm, b}
      [] OTHER -> {"project_work", "temporary", a}]

MCAnchor == [p \in MCPath |-> IF p = workA THEN proj ELSE None]
MCDepth == [p \in MCPath |-> IF p \in {tmp1, onlyA} THEN 2 ELSE 1]
MCStorage == [p \in MCPath |-> 1]
MCRank == [p \in MCPath |->
    CASE p = tmp1 -> 1 [] p = tmp2 -> 2 [] p = onlyA -> 3 [] p = onlyB -> 4
      [] p = rawA -> 5 [] p = secretB -> 6 [] p = workA -> 7 [] OTHER -> 8]
MCParent == [p \in MCPath |-> p]
MCTermRank == [r \in RuleId |-> IF r = a THEN 1 ELSE IF r = b THEN 2 ELSE 3]
MCCorpusRole == [t \in Term |-> IF t = a THEN "temporary" ELSE "project_work"]

File(object, age, sha) == [object |-> object, age |-> age, sha |-> sha]

\* Copies in directories of one kind and of several, with hard links.
Linked(ps) == [p \in ps |-> File(IF p \in {tmp1, tmp2} THEN 1 ELSE MCRank[p], 1, "full")]
Aged(ps, old) == [p \in ps |-> File(MCRank[p], IF p = old THEN 8 ELSE 1, "full")]
MCIndexes ==
    {Linked({tmp1, tmp2, onlyA}), Aged({tmp1, tmp2, rawA}, tmp2), Aged({onlyA, onlyB, workA}, onlyA),
     Aged({onlyA, onlyB}, onlyB), [p \in {onlyB, tmp1, secretB} |-> File(u, 1, "full")],
     [p \in {tmp1, tmp2} |-> File(MCRank[p], 1, "short")], Aged({tmp2, sideT, onlyA}, tmp2)}

Plans(rolledBack, kept) == [terms |-> {a}, rolledBack |-> rolledBack, kept |-> kept, others |-> <<60>>]
MCHistories == {<< >>, <<Plans(TRUE, 10), Plans(FALSE, 10)>>}
=============================================================================
