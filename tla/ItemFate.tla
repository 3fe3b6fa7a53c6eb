------------------------------ MODULE ItemFate ------------------------------
(***************************************************************************)
(* What the quarantine promises of its items, with plans, journals, files  *)
(* and processes hidden.  A registered item is kept until it is restored   *)
(* or purged, and either of these is final.  At most one item at a time is *)
(* between two fates.  A restore that did not happen gives its item back;  *)
(* a purge that began is never taken back.                                 *)
(***************************************************************************)
CONSTANT Item

VARIABLE fate

InFlight == {i \in Item : fate[i] \in {"restoring", "purging"}}

Init == fate = [i \in Item |-> "none"]

Become(i, f) == fate' = [fate EXCEPT ![i] = f]

Register(i) == fate[i] = "none" /\ InFlight = {} /\ Become(i, "kept")

Reserve(i) == /\ fate[i] = "kept"
              /\ InFlight = {}
              /\ \E f \in {"restoring", "purging"} : Become(i, f)

GiveBack(i) == fate[i] = "restoring" /\ Become(i, "kept")

Settle(i) == \/ fate[i] = "restoring" /\ Become(i, "restored")
             \/ fate[i] = "purging" /\ Become(i, "purged")

Next == \E i \in Item : Register(i) \/ Reserve(i) \/ GiveBack(i) \/ Settle(i)

Spec == Init /\ [][Next]_fate
=============================================================================
