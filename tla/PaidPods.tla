------------------------------ MODULE PaidPods ------------------------------
(***************************************************************************)
(* What the pod controllers promise about money, without saying how: every *)
(* paid pod belongs to an account entry opened before it can exist, at     *)
(* most one entry is open at a time, an entry is settled only after its    *)
(* pod is gone, and a settled entry never changes again.                   *)
(***************************************************************************)
EXTENDS Naturals

CONSTANT Leases

VARIABLES
    entry,      \* entry[l]: "unused", "open" or "settled"
    paid        \* paid[l]: "none", "live" or "gone": what is being billed

vars == <<entry, paid>>

NoneOpen == \A m \in Leases : entry[m] # "open"

Init ==
    /\ entry = [l \in Leases |-> "unused"]
    /\ paid = [l \in Leases |-> "none"]

Open(l) ==
    /\ entry[l] = "unused"
    /\ NoneOpen
    /\ entry' = [entry EXCEPT ![l] = "open"]
    /\ UNCHANGED paid

\* A running pod is taken over: its entry opens with the pod already billing.
OpenLive(l) ==
    /\ entry[l] = "unused"
    /\ NoneOpen
    /\ entry' = [entry EXCEPT ![l] = "open"]
    /\ paid' = [paid EXCEPT ![l] = "live"]

Appear(l) ==
    /\ entry[l] = "open"
    /\ paid[l] = "none"
    /\ paid' = [paid EXCEPT ![l] = "live"]
    /\ UNCHANGED entry

Vanish(l) ==
    /\ paid[l] = "live"
    /\ paid' = [paid EXCEPT ![l] = "gone"]
    /\ UNCHANGED entry

Settle(l) ==
    /\ entry[l] = "open"
    /\ paid[l] = "gone"
    /\ entry' = [entry EXCEPT ![l] = "settled"]
    /\ UNCHANGED paid

Next ==
    \E l \in Leases : Open(l) \/ OpenLive(l) \/ Appear(l) \/ Vanish(l) \/ Settle(l)

Spec == Init /\ [][Next]_vars
=============================================================================
