----------------------------- MODULE MCPodLease -----------------------------
(***************************************************************************)
(* The instance of PodLease with several leases.                           *)
(***************************************************************************)
EXTENDS PodLease, TLC

\* Leases are interchangeable.
Symmetry == Permutations(Leases)

Quiet(l) == LockFree(l) /\ op[l] = 0 /\ \A c \in Closers : shut[l][c] = "no"

\* Bound for several leases: leases meet only in the spend gate and in the
\* open-lease check, so the processes of one lease at a time are interleaved.
\* A second launch comes while nobody is at work on the first lease; a refused
\* one, which changes nothing, is not followed, and one after a verified close,
\* which is like the first, is followed until its pod is there.
OneBusyLease ==
    \A l, m \in Leases : l # m /\ launch[l] # "idle" /\ launch[m] # "idle" =>
        \E q \in {l, m} :
            /\ launch[q] = "over" /\ lease[q].phase # "none" /\ Quiet(q)
            /\ \A p \in {l, m} \ {q} :
                  launch[p] \in {"gated", "clear", "post", "posting", "bind", "check"} /\ Quiet(p)
=============================================================================
