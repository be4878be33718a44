------------------------------ MODULE PodLease ------------------------------
(***************************************************************************)
(* One rented pod per lease, and everybody who may end it.                 *)
(*                                                                         *)
(*   launch   PodRuntime.create / adopt and the controller armer           *)
(*   watch    whoever holds the lease's kernel lock: run_supervisor, or an *)
(*            operator's close_lease_now                                   *)
(*   timer    the dead-man timer inside the pod's own container            *)
(*                                                                         *)
(* They share the durable lease record (LeaseStore: every method is one    *)
(* step, taken under the store's file lock), the supervisor identity file  *)
(* and the provider.  Each of the three may run VerifiedShutdown.close,    *)
(* whose provider calls interleave with everything else.                   *)
(*                                                                         *)
(* Time is abstracted to the two facts the code compares: whether the hard *)
(* deadline has passed, and whether the lease's heartbeat is stale.  Both  *)
(* may change between any two steps, so every process may be arbitrarily   *)
(* slow.                                                                   *)
(***************************************************************************)
EXTENDS Naturals

CONSTANTS
    Leases,         \* lease ids, one per launch
    LyingViews,     \* the provider views that may call a living pod absent
    MaxStarts,      \* bound: supervisor starts and operator closes per lease
    MaxRecovery,    \* MAX_PENDING_RECOVERY_ATTEMPTS
    CloseAttempts,  \* the pod timer's _CLOSE_ATTEMPTS
    TimerBuilds     \* FALSE: no pod's timer factory ever succeeds

ASSUME LeaseAssumption ==
    /\ MaxStarts \in Nat
    /\ MaxRecovery \in Nat
    /\ CloseAttempts \in Nat
    /\ TimerBuilds \in BOOLEAN
    /\ "no-one" \notin Leases

\* The two views of absence are independent: no fault corrupts both.
ASSUME ViewAssumption == LyingViews # {"get", "list"} /\ LyingViews \subseteq {"get", "list"}

VARIABLES
    lease,      \* lease[l]: the durable record
    pod,        \* pod[l]: what the provider really has
    dying,      \* dying[l]: the provider accepted a termination of it
    expired,    \* expired[l]: the hard deadline has passed
    gate,       \* the spend gate's holder
    launch,     \* launch[l]: the launcher's place
    child,      \* child[l]: the launcher waits on its own supervisor process
    watch,      \* watch[l]: the place of the kernel lock's holder; "told" when
                \* the last one ended with exit 3, "go and look"
    token,      \* token[l]: the owner token that holder presents
    ident,      \* ident[l]: the token in the identity file, 0 when absent
    minted,     \* minted[l]: tokens minted so far
    starts,     \* starts[l]: supervisor starts and operator closes so far
    grace,      \* grace[l]: the previous tick ended past the start grace
    op,         \* op[l]: the owner token an operator's close read, 0 when none
    timer,      \* timer[l]: the place of the timer in the container
    tries,      \* tries[l]: closes the timer has tried
    report,     \* report[l]: the timer's acknowledged report is on the volume
    shut        \* shut[l][c]: the place of c in VerifiedShutdown.close

podVars == <<pod, dying>>
launchVars == <<gate, launch, child>>
watchVars == <<watch, token, ident, minted, starts, grace, op>>
timerVars == <<timer, tries, report>>
vars == <<lease, pod, dying, expired, gate, launch, child, watch, token, ident, minted,
          starts, grace, op, timer, tries, report, shut>>

Closers == {"launch", "watch", "timer"}
NoOne == "no-one"
Launcher == 1                       \* the owner token the launch mints
Tokens == 1 .. (MaxStarts + 1)

Phases == {"none", "pending-create", "active", "close-unverified", "closed-verified"}
Beats == {"fresh", "late", "stale"} \* "late": fresh, and written past the deadline
Pods == {"none", "posted", "starting", "running", "exited", "gone"}
LaunchPlaces == {"idle", "gated", "clear", "post", "posting", "bind", "check", "arm", "wait",
                 "observed", "closing", "over"}
WatchPlaces == {"down", "told", "crashed", "tick", "claim-pending", "claim-orphan", "note",
                "recover", "bind", "beat", "beating", "status-unarmed", "status-armed",
                "unfit", "probe", "closing"}
TimerPlaces == {"none", "waiting", "closing", "last", "reported", "dead"}
ShutPlaces == {"no", "terminate", "observe", "bill", "verified", "unverified", "failed",
               "refused"}

NoLease == [phase |-> "none", owner |-> 0, beat |-> "fresh", armed |-> FALSE, attempts |-> 0]

TypeOK ==
    /\ lease \in [Leases -> [phase : Phases, owner : Nat, beat : Beats,
                             armed : BOOLEAN, attempts : Nat]]
    /\ pod \in [Leases -> Pods]
    /\ dying \in [Leases -> BOOLEAN]
    /\ expired \in [Leases -> BOOLEAN]
    /\ gate \in Leases \cup {NoOne}
    /\ launch \in [Leases -> LaunchPlaces]
    /\ child \in [Leases -> BOOLEAN]
    /\ watch \in [Leases -> WatchPlaces]
    /\ token \in [Leases -> Nat]
    /\ ident \in [Leases -> Nat]
    /\ minted \in [Leases -> Nat]
    /\ starts \in [Leases -> Nat]
    /\ grace \in [Leases -> BOOLEAN]
    /\ op \in [Leases -> Nat]
    /\ timer \in [Leases -> TimerPlaces]
    /\ tries \in [Leases -> Nat]
    /\ report \in [Leases -> BOOLEAN]
    /\ shut \in [Leases -> [Closers -> ShutPlaces]]

Init ==
    /\ lease = [l \in Leases |-> NoLease]
    /\ pod = [l \in Leases |-> "none"]
    /\ dying = [l \in Leases |-> FALSE]
    /\ expired = [l \in Leases |-> FALSE]
    /\ gate = NoOne
    /\ launch = [l \in Leases |-> "idle"]
    /\ child = [l \in Leases |-> FALSE]
    /\ watch = [l \in Leases |-> "down"]
    /\ token = [l \in Leases |-> 0]
    /\ ident = [l \in Leases |-> 0]
    /\ minted = [l \in Leases |-> Launcher]
    /\ starts = [l \in Leases |-> 0]
    /\ grace = [l \in Leases |-> FALSE]
    /\ op = [l \in Leases |-> 0]
    /\ timer = [l \in Leases |-> "none"]
    /\ tries = [l \in Leases |-> 0]
    /\ report = [l \in Leases |-> FALSE]
    /\ shut = [l \in Leases |-> [c \in Closers |-> "no"]]

Live(l) == pod[l] \in {"starting", "running", "exited"}
Container(l) == pod[l] \in {"starting", "running"}
IsActive(l) == lease[l].phase \in {"pending-create", "active"}
IsOpen(l) == lease[l].phase \notin {"none", "closed-verified"}
LockFree(l) == watch[l] \in {"down", "told", "crashed"}
Ended(l, c) == shut[l][c] \in {"verified", "unverified", "failed", "refused"}

\* A heartbeat written now.
BeatNow(l) == IF expired[l] THEN "late" ELSE "fresh"

---------------------------------------------------------------------------
(* The lease store: one operator per method, over the record it rewrites.  *)

Owns(l, t) == lease[l].owner = t /\ lease[l].phase # "none"

BindPod(l) == [lease EXCEPT ![l].phase = "active", ![l].beat = BeatNow(l)]
RecordControllerArming(l) == [lease EXCEPT ![l].armed = TRUE, ![l].beat = BeatNow(l)]
NotePendingRecoveryAttempt(l) ==
    [lease EXCEPT ![l].attempts = @ + 1, ![l].beat = BeatNow(l)]
Heartbeat(l) == [lease EXCEPT ![l].beat = BeatNow(l)]
ClaimIfOrphan(l, t) == [lease EXCEPT ![l].owner = t, ![l].beat = BeatNow(l)]

\* Mutant: the claim trusts the staleness the caller saw.
MayClaimUnchecked(l, t) == lease[l].phase # "none" /\ t \in Nat

\* A stale lease, or one's own, may be claimed; a fresh foreign one may not.
MayClaim(l, t) == lease[l].owner = t \/ lease[l].beat = "stale"

\* Mutant: any close of the owner is recorded.
MayRecordAnyClose(l, t) == Owns(l, t)

\* Verified close evidence is never replaced; unverified evidence may be.
MayRecordClose(l, t) == Owns(l, t) /\ lease[l].phase # "closed-verified"
RecordClose(l, verified) ==
    [lease EXCEPT ![l].phase = IF verified THEN "closed-verified" ELSE "close-unverified",
                  ![l].beat = "fresh"]     \* no one reads a closed lease's heartbeat

---------------------------------------------------------------------------
(* VerifiedShutdown.close, run by closer c on the pod of lease l.          *)

SetShut(l, c, place) == shut' = [shut EXCEPT ![l][c] = place]
BeginClose(l, c) == SetShut(l, c, "terminate")

\* The DELETE is accepted, lost or answered too late (the loop cannot tell
\* these apart), or refused outright.
ShutTerminate(l, c) ==
    /\ shut[l][c] = "terminate"
    /\ \/ /\ SetShut(l, c, "observe")
          /\ \E accepted \in {dying[l], Live(l) \/ dying[l]} :
                dying' = [dying EXCEPT ![l] = accepted]
       \/ /\ Live(l)
          /\ SetShut(l, c, "refused")
          /\ UNCHANGED dying
    /\ UNCHANGED <<lease, pod, expired, launchVars, watchVars, timerVars>>

\* What one view may answer: an error, a stale presence, or absence.
Answers(l, view) ==
    {"unknown", "present"} \cup (IF ~Live(l) \/ view \in LyingViews THEN {"absent"} ELSE {})

\* Mutant: the GET alone.
ProvenAbsentByGet(get, list) == get = "absent"

\* Only the agreement of the exact GET-404 and the list is absence.
ProvenAbsent(get, list) == get = "absent" /\ list = "absent"

\* The two reads are one step: a pod can only disappear between them, and a
\* view may still call a pod present that is gone.
ShutObserve(l, c) ==
    /\ shut[l][c] = "observe"
    /\ \E get \in Answers(l, "get"), list \in Answers(l, "list") :
          SetShut(l, c, IF ProvenAbsent(get, list) THEN "bill" ELSE "terminate")
    /\ UNCHANGED <<lease, podVars, expired, launchVars, watchVars, timerVars>>

ShutDeadline(l, c) ==
    /\ shut[l][c] = "observe"
    /\ SetShut(l, c, "failed")
    /\ UNCHANGED <<lease, podVars, expired, launchVars, watchVars, timerVars>>

\* Billing after its retries: captured and covering exactly this pod's life,
\* captured for something else, still pending, or empty or failing.
Captures == {"proves", "other-window", "pending", "empty"}

ShutBill(l, c) ==
    /\ shut[l][c] = "bill"
    /\ \E capture \in Captures :
          SetShut(l, c, IF capture = "proves" THEN "verified" ELSE "unverified")
    /\ UNCHANGED <<lease, podVars, expired, launchVars, watchVars, timerVars>>

---------------------------------------------------------------------------
(* The launcher: PodRuntime.create and adopt, and the controller armer.    *)

LaunchTo(l, place) == launch' = [launch EXCEPT ![l] = place]

\* The spend gate is held from the assessment to the launch's result.
LaunchGate(l) ==
    /\ launch[l] = "idle"
    /\ gate = NoOne
    /\ gate' = l
    /\ LaunchTo(l, "gated")
    /\ UNCHANGED <<lease, podVars, expired, child, watchVars, timerVars, shut>>

\* Mutant: a lease whose close failed no longer counts.
ActiveLeaseRefusal == \E m \in Leases : IsActive(m)

\* At most one pod may be live: any lease without a verified close refuses.
OpenLeaseRefusal == \E m \in Leases : IsOpen(m)

LaunchRefused(l) ==
    /\ launch[l] = "gated"
    /\ OpenLeaseRefusal
    /\ gate' = NoOne
    /\ LaunchTo(l, "idle")
    /\ UNCHANGED <<lease, podVars, expired, child, watchVars, timerVars, shut>>

LaunchClear(l) ==
    /\ launch[l] = "gated"
    /\ ~OpenLeaseRefusal
    /\ LaunchTo(l, "clear")
    /\ UNCHANGED <<lease, podVars, expired, gate, child, watchVars, timerVars, shut>>

NewLease(phase) ==
    [phase |-> phase, owner |-> Launcher, beat |-> "fresh", armed |-> FALSE, attempts |-> 0]

\* create: the pending lease is durable before the provider is asked to bill.
LaunchReserve(l) ==
    /\ launch[l] = "clear"
    /\ lease' = [lease EXCEPT ![l] = NewLease("pending-create")]
    /\ LaunchTo(l, "post")
    /\ UNCHANGED <<podVars, expired, gate, child, watchVars, timerVars, shut>>

\* adopt: a pod that runs without a lease here is bound at once.
LaunchAdopt(l) ==
    /\ launch[l] = "clear"
    /\ lease' = [lease EXCEPT ![l] = NewLease("active")]
    /\ pod' = [pod EXCEPT ![l] = "running"]
    /\ LaunchTo(l, "arm")
    /\ UNCHANGED <<dying, expired, gate, child, watchVars, timerVars, shut>>

LaunchPost(l) ==
    /\ launch[l] = "post"
    /\ pod' = [pod EXCEPT ![l] = "posted"]
    /\ LaunchTo(l, "posting")
    /\ UNCHANGED <<lease, dying, expired, gate, child, watchVars, timerVars, shut>>

\* The create raised, whatever the provider made of it: the pending lease stays.
LaunchCreateFails(l) ==
    /\ launch[l] = "posting"
    /\ gate' = NoOne
    /\ LaunchTo(l, "over")
    /\ UNCHANGED <<lease, podVars, expired, child, watchVars, timerVars, shut>>

LaunchCreateReturns(l) ==
    /\ launch[l] = "posting"
    /\ pod[l] \notin {"none", "posted"}
    /\ LaunchTo(l, "bind")
    /\ UNCHANGED <<lease, podVars, expired, gate, child, watchVars, timerVars, shut>>

LaunchCloses(l) ==
    /\ BeginClose(l, "launch")
    /\ LaunchTo(l, "closing")

\* Binding fails when a recovering supervisor took the lease over meanwhile.
LaunchBind(l) ==
    /\ launch[l] = "bind"
    /\ IF Owns(l, Launcher) /\ lease[l].phase = "pending-create"
       THEN lease' = BindPod(l) /\ LaunchTo(l, "check") /\ UNCHANGED shut
       ELSE LaunchCloses(l) /\ UNCHANGED lease
    /\ UNCHANGED <<podVars, expired, gate, child, watchVars, timerVars>>

\* Runtime contract, lifecycle word and actual price: go on, or close.
LaunchCheck(l) ==
    /\ launch[l] = "check"
    /\ \/ LaunchTo(l, "arm") /\ UNCHANGED shut
       \/ LaunchCloses(l)
    /\ UNCHANGED <<lease, podVars, expired, gate, child, watchVars, timerVars>>

\* The supervisor is handed the launch's own token and started first.  The
\* started process ends at once when another holds the lease's lock.
LaunchArm(l) ==
    /\ launch[l] = "arm"
    /\ \/ /\ ident[l] \in {0, Launcher}
          /\ LockFree(l)
          /\ ident' = [ident EXCEPT ![l] = Launcher]
          /\ watch' = [watch EXCEPT ![l] = "tick"]
          /\ token' = [token EXCEPT ![l] = Launcher]
          /\ child' = [child EXCEPT ![l] = TRUE]
          /\ LaunchTo(l, "wait")
          /\ UNCHANGED <<minted, starts, grace, op, shut>>
       \/ /\ LaunchCloses(l)
          /\ ident' = [ident EXCEPT ![l] = IF @ = 0 THEN Launcher ELSE @]
          /\ UNCHANGED <<watch, token, minted, starts, grace, op, child>>
    /\ UNCHANGED <<lease, podVars, expired, gate, timerVars>>

\* Waiting for the container and then for the timer's report.
LaunchBeat(l) ==
    /\ launch[l] = "wait"
    /\ child[l]
    /\ Owns(l, Launcher) /\ IsActive(l)
    /\ lease' = Heartbeat(l)
    /\ UNCHANGED <<podVars, expired, launchVars, watchVars, timerVars, shut>>

LaunchObserve(l) ==
    /\ launch[l] = "wait"
    /\ child[l]
    /\ report[l]
    /\ LaunchTo(l, "observed")
    /\ child' = [child EXCEPT ![l] = FALSE]
    /\ UNCHANGED <<lease, podVars, expired, gate, watchVars, timerVars, shut>>

\* The supervisor exited, the bound passed, the channel or the lease failed,
\* or the lease has another owner.
LaunchArmingFails(l) ==
    /\ launch[l] \in {"wait", "observed"}
    /\ LaunchCloses(l)
    /\ child' = [child EXCEPT ![l] = FALSE]
    /\ UNCHANGED <<lease, podVars, expired, gate, watchVars, timerVars>>

\* The last look at the supervisor was before this write.
LaunchRecordArming(l) ==
    /\ launch[l] = "observed"
    /\ IF Owns(l, Launcher) /\ lease[l].phase = "active"
       THEN /\ lease' = RecordControllerArming(l)
            /\ LaunchTo(l, "over")
            /\ gate' = NoOne
            /\ UNCHANGED shut
       ELSE LaunchCloses(l) /\ UNCHANGED <<lease, gate>>
    /\ UNCHANGED <<podVars, expired, child, watchVars, timerVars>>

LaunchRecordClose(l) ==
    /\ launch[l] = "closing"
    /\ Ended(l, "launch")
    /\ lease' = IF MayRecordClose(l, Launcher)
                THEN RecordClose(l, shut[l]["launch"] = "verified")
                ELSE lease
    /\ LaunchTo(l, "over")
    /\ gate' = NoOne
    /\ SetShut(l, "launch", "no")
    /\ UNCHANGED <<podVars, expired, child, watchVars, timerVars>>

\* The launching process dies; the kernel releases the gate.
LaunchCrash(l) ==
    /\ launch[l] \notin {"idle", "over"}
    /\ LaunchTo(l, "over")
    /\ gate' = NoOne
    /\ child' = [child EXCEPT ![l] = FALSE]
    /\ SetShut(l, "launch", "no")
    /\ UNCHANGED <<lease, podVars, expired, watchVars, timerVars>>

---------------------------------------------------------------------------
(* The holder of the lease's lock: run_supervisor and close_lease_now.     *)

WatchTo(l, place) == watch' = [watch EXCEPT ![l] = place]

\* The process ends by itself; "tell" is exit 3 and its notification.
WatchEnds(l, tell) ==
    /\ WatchTo(l, IF tell THEN "told" ELSE "down")
    /\ child' = [child EXCEPT ![l] = FALSE]
    /\ grace' = [grace EXCEPT ![l] = FALSE]
    /\ token' = [token EXCEPT ![l] = 0]
    /\ UNCHANGED <<ident, minted, starts, op>>

WatchGoes(l, place) ==
    /\ WatchTo(l, place)
    /\ UNCHANGED <<child, grace, token, ident, minted, starts, op>>

\* The next tick; "past" when this one ended past the start grace.
WatchTicksOn(l, past) ==
    /\ WatchTo(l, "tick")
    /\ grace' = [grace EXCEPT ![l] = past]
    /\ UNCHANGED <<child, token, ident, minted, starts, op>>

\* A supervisor is started over a lease: it resumes the identity file's token,
\* or mints one when the file is gone.
WatchStart(l) ==
    /\ LockFree(l)
    /\ starts[l] < MaxStarts
    /\ lease[l].phase # "none"
    /\ starts' = [starts EXCEPT ![l] = @ + 1]
    /\ IF IsActive(l)
       THEN /\ WatchTo(l, "tick")
            /\ minted' = [minted EXCEPT ![l] = IF ident[l] = 0 THEN @ + 1 ELSE @]
            /\ ident' = [ident EXCEPT ![l] = IF @ = 0 THEN minted[l] + 1 ELSE @]
            /\ token' = [token EXCEPT ![l] = IF ident[l] = 0 THEN minted[l] + 1 ELSE ident[l]]
       ELSE /\ WatchTo(l, IF lease[l].phase = "close-unverified" THEN "told" ELSE "down")
            /\ UNCHANGED <<minted, ident, token>>
    /\ grace' = [grace EXCEPT ![l] = FALSE]
    /\ UNCHANGED <<lease, podVars, expired, launchVars, op, timerVars, shut>>

\* Mutant: only a verified close ends the loop.
TickTerminalVerified(l) ==
    /\ watch[l] = "tick"
    /\ lease[l].phase = "closed-verified"
    /\ WatchEnds(l, FALSE)
    /\ UNCHANGED <<lease, podVars, expired, gate, launch, timerVars, shut>>

TickTerminal(l) ==
    /\ watch[l] = "tick"
    /\ ~IsActive(l)
    /\ WatchEnds(l, lease[l].phase = "close-unverified")
    /\ UNCHANGED <<lease, podVars, expired, gate, launch, timerVars, shut>>

\* A fresh foreign owner is left alone, or given up on when it is alive past
\* the deadline and not closing.
WatchBusy(l) ==
    IF lease[l].beat = "late" THEN WatchEnds(l, TRUE) ELSE WatchTicksOn(l, FALSE)

TickBusy(l) ==
    /\ watch[l] = "tick"
    /\ IsActive(l)
    /\ lease[l].phase = "pending-create" => lease[l].attempts < MaxRecovery
    /\ ~MayClaim(l, token[l])
    /\ WatchBusy(l)
    /\ UNCHANGED <<lease, podVars, expired, gate, launch, timerVars, shut>>

TickPending(l) ==
    /\ watch[l] = "tick"
    /\ lease[l].phase = "pending-create"
    /\ IF lease[l].attempts >= MaxRecovery
       THEN WatchEnds(l, TRUE)
       ELSE MayClaim(l, token[l]) /\ WatchGoes(l, "claim-pending")
    /\ UNCHANGED <<lease, podVars, expired, gate, launch, timerVars, shut>>

TickOrphan(l) ==
    /\ watch[l] = "tick"
    /\ lease[l].phase = "active"
    /\ lease[l].owner # token[l] /\ lease[l].beat = "stale"
    /\ WatchGoes(l, "claim-orphan")
    /\ UNCHANGED <<lease, podVars, expired, gate, launch, timerVars, shut>>

\* Why a supervisor closes the lease it owns without asking the provider.
CloseDue(l) == expired[l] \/ lease[l].beat = "stale"

TickOwn(l) ==
    /\ watch[l] = "tick"
    /\ lease[l].phase = "active"
    /\ lease[l].owner = token[l]
    /\ \/ /\ CloseDue(l)
          /\ WatchGoes(l, "closing")
          /\ BeginClose(l, "watch")
       \/ /\ ~CloseDue(l)
          /\ WatchGoes(l, IF lease[l].armed THEN "beat" ELSE "status-unarmed")
          /\ UNCHANGED shut
    /\ UNCHANGED <<lease, podVars, expired, gate, launch, timerVars>>

\* claim_if_orphan decides again, under the store's lock.
WatchClaim(l) ==
    /\ watch[l] \in {"claim-pending", "claim-orphan"}
    /\ \/ /\ IsActive(l) /\ ~MayClaim(l, token[l])
          /\ WatchEnds(l, TRUE)
          /\ UNCHANGED <<lease, shut>>
       \/ /\ IsActive(l) => MayClaim(l, token[l])
          /\ lease' = IF IsActive(l) THEN ClaimIfOrphan(l, token[l]) ELSE lease
          /\ \/ /\ watch[l] = "claim-pending"
                /\ WatchGoes(l, "note")
                /\ UNCHANGED shut
             \/ /\ watch[l] = "claim-orphan"
                /\ WatchGoes(l, "closing")
                /\ BeginClose(l, "watch")
    /\ UNCHANGED <<podVars, expired, gate, launch, timerVars>>

WatchNote(l) ==
    /\ watch[l] = "note"
    /\ IF Owns(l, token[l]) /\ lease[l].phase = "pending-create"
       THEN lease' = NotePendingRecoveryAttempt(l) /\ WatchGoes(l, "recover")
       ELSE WatchEnds(l, TRUE) /\ UNCHANGED lease
    /\ UNCHANGED <<podVars, expired, gate, launch, timerVars, shut>>

\* The recovery-only create finds the launch's own pod or proves nothing.
WatchRecover(l) ==
    /\ watch[l] = "recover"
    /\ \/ Live(l) /\ WatchGoes(l, "bind")
       \/ WatchEnds(l, TRUE)
    /\ UNCHANGED <<lease, podVars, expired, gate, launch, timerVars, shut>>

WatchBind(l) ==
    /\ watch[l] = "bind"
    /\ IF Owns(l, token[l]) /\ lease[l].phase = "pending-create"
       THEN lease' = BindPod(l) /\ WatchGoes(l, "closing") /\ BeginClose(l, "watch")
       ELSE WatchEnds(l, TRUE) /\ UNCHANGED <<lease, shut>>
    /\ UNCHANGED <<podVars, expired, gate, launch, timerVars>>

\* LaptopSupervisor.heartbeat reads the lease first.
WatchBeat(l) ==
    /\ watch[l] = "beat"
    /\ IF ~IsActive(l) THEN WatchEnds(l, lease[l].phase = "close-unverified")
       ELSE IF lease[l].owner # token[l] THEN WatchBusy(l)
       ELSE WatchGoes(l, "beating")
    /\ UNCHANGED <<lease, podVars, expired, gate, launch, timerVars, shut>>

\* The store's heartbeat decides again, under its lock, and otherwise raises.
WatchHeartbeat(l) ==
    /\ watch[l] = "beating"
    /\ IF Owns(l, token[l]) /\ IsActive(l)
       THEN lease' = Heartbeat(l) /\ WatchGoes(l, "status-armed")
       ELSE WatchEnds(l, TRUE) /\ UNCHANGED lease
    /\ UNCHANGED <<podVars, expired, gate, launch, timerVars, shut>>

WatchCloses(l) == WatchGoes(l, "closing") /\ BeginClose(l, "watch")

\* One look at the provider per healthy tick: an error or RUNNING waits; a
\* pre-running word waits while unarmed, and for a grace and one tick when
\* armed; any other word closes.
WatchStatus(l) ==
    /\ watch[l] \in {"status-unarmed", "status-armed"}
    /\ \/ WatchTicksOn(l, FALSE)                       \* running, waited on or unanswered
       \/ /\ pod[l] = "starting" /\ watch[l] = "status-armed"
          /\ IF grace[l] THEN WatchGoes(l, "unfit") ELSE WatchTicksOn(l, TRUE)
       \/ pod[l] = "exited" /\ WatchGoes(l, "unfit")
    /\ UNCHANGED <<lease, podVars, expired, gate, launch, timerVars, shut>>

\* The close begins on the word that was read, whatever the pod is by now.
WatchUnfit(l) ==
    /\ watch[l] = "unfit"
    /\ WatchCloses(l)
    /\ UNCHANGED <<lease, podVars, expired, gate, launch, timerVars>>

WatchRecordClose(l) ==
    /\ watch[l] = "closing"
    /\ Ended(l, "watch")
    /\ LET recorded == MayRecordClose(l, token[l])
           verified == shut[l]["watch"] = "verified"
       IN  /\ lease' = IF recorded THEN RecordClose(l, verified) ELSE lease
           /\ WatchEnds(l, ~(recorded /\ verified))
    /\ SetShut(l, "watch", "no")
    /\ UNCHANGED <<podVars, expired, gate, launch, timerVars>>

WatchCrash(l) ==
    /\ ~LockFree(l)
    /\ WatchTo(l, "crashed")
    /\ child' = [child EXCEPT ![l] = FALSE]
    /\ grace' = [grace EXCEPT ![l] = FALSE]
    /\ token' = [token EXCEPT ![l] = 0]
    /\ SetShut(l, "watch", "no")
    /\ UNCHANGED <<lease, podVars, expired, gate, launch, ident, minted, starts, op,
                   timerVars>>

\* The identity file is lost while nobody runs.
LoseIdentity(l) ==
    /\ LockFree(l)
    /\ ident[l] # 0
    /\ starts[l] < MaxStarts /\ IsActive(l)
    /\ ident' = [ident EXCEPT ![l] = 0]
    /\ UNCHANGED <<lease, podVars, expired, launchVars, watch, token, minted, starts, grace,
                   op, timerVars, shut>>

\* close_lease_now reads the lease before it takes the lock.
OperatorLoad(l) ==
    /\ op[l] = 0
    /\ starts[l] < MaxStarts
    /\ lease[l].phase = "active"
    /\ op' = [op EXCEPT ![l] = lease[l].owner]
    /\ starts' = [starts EXCEPT ![l] = @ + 1]
    /\ UNCHANGED <<lease, podVars, expired, launchVars, watch, token, ident, minted, grace,
                   timerVars, shut>>

OperatorLock(l) ==
    /\ op[l] # 0
    /\ op' = [op EXCEPT ![l] = 0]
    /\ IF LockFree(l)
       THEN WatchTo(l, "probe") /\ token' = [token EXCEPT ![l] = op[l]]
       ELSE UNCHANGED <<watch, token>>
    /\ UNCHANGED <<lease, podVars, expired, launchVars, ident, minted, starts, grace,
                   timerVars, shut>>

\* An absence seen before any terminate refuses and leaves the lease guarded.
OperatorProbe(l) ==
    /\ watch[l] = "probe"
    /\ \/ /\ "absent" \in Answers(l, "get")
          /\ WatchEnds(l, TRUE)
          /\ UNCHANGED shut
       \/ WatchCloses(l)
    /\ UNCHANGED <<lease, podVars, expired, gate, launch, timerVars>>

---------------------------------------------------------------------------
(* The dead-man timer in the pod's container.                              *)

TimerTo(l, place) == timer' = [timer EXCEPT ![l] = place]

TimerStart(l) ==
    /\ Container(l) /\ timer[l] = "none"
    /\ \/ /\ TimerBuilds
          /\ TimerTo(l, "waiting")
          /\ report' = [report EXCEPT ![l] = TRUE]
          /\ UNCHANGED <<tries, shut>>
       \/ /\ TimerBuilds
          /\ TimerTo(l, "last")                 \* no child, or no report
          /\ tries' = [tries EXCEPT ![l] = 1]
          /\ BeginClose(l, "timer")
          /\ UNCHANGED report
       \/ TimerTo(l, "dead") /\ UNCHANGED <<tries, report, shut>>   \* no factory
    /\ UNCHANGED <<lease, podVars, expired, launchVars, watchVars>>

TimerCloses(l) ==
    /\ Container(l) /\ timer[l] = "waiting"
    /\ TimerTo(l, "closing")
    /\ tries' = [tries EXCEPT ![l] = 1]
    /\ BeginClose(l, "timer")
    /\ UNCHANGED <<lease, podVars, expired, launchVars, watchVars, report>>

\* Mutant: the deadline is only watched while the provider says running.
TimerExpiresRunning(l) == expired[l] /\ pod[l] = "running" /\ TimerCloses(l)

TimerExpires(l) == expired[l] /\ TimerCloses(l)
TimerChildExits(l) == ~expired[l] /\ TimerCloses(l)

MayRetry(l) == shut[l]["timer"] \in {"failed", "unverified"} /\ tries[l] < CloseAttempts

TimerRetry(l) ==
    /\ Container(l) /\ timer[l] = "closing"
    /\ MayRetry(l)
    /\ tries' = [tries EXCEPT ![l] = @ + 1]
    /\ BeginClose(l, "timer")
    /\ UNCHANGED <<lease, podVars, expired, launchVars, watchVars, timer, report>>

\* The close's report is filed; when that fails, one more close is spent.
TimerReports(l) ==
    /\ Container(l) /\ timer[l] \in {"closing", "last"}
    /\ Ended(l, "timer")
    /\ timer[l] = "closing" => ~MayRetry(l)
    /\ \/ /\ TimerTo(l, "reported")
          /\ report' = [report EXCEPT ![l] = TRUE]
          /\ SetShut(l, "timer", "no")
       \/ /\ timer[l] = "closing"
          /\ TimerTo(l, "last")
          /\ BeginClose(l, "timer")
          /\ UNCHANGED report
    /\ UNCHANGED <<lease, podVars, expired, launchVars, watchVars, tries>>

---------------------------------------------------------------------------
(* The provider and time.                                                  *)

ProviderCreates(l) ==
    /\ pod[l] = "posted"
    /\ pod' = [pod EXCEPT ![l] = "starting"]
    /\ UNCHANGED <<lease, dying, expired, launchVars, watchVars, timerVars, shut>>

ProviderDrops(l) ==
    /\ pod[l] = "posted"
    /\ pod' = [pod EXCEPT ![l] = "none"]
    /\ UNCHANGED <<lease, dying, expired, launchVars, watchVars, timerVars, shut>>

ProviderRuns(l) ==
    /\ pod[l] = "starting"
    /\ pod' = [pod EXCEPT ![l] = "running"]
    /\ UNCHANGED <<lease, dying, expired, launchVars, watchVars, timerVars, shut>>

\* The container ends, and the timer with it.
ContainerEnds(l, word) ==
    /\ pod' = [pod EXCEPT ![l] = word]
    /\ timer' = [timer EXCEPT ![l] = "none"]
    /\ tries' = [tries EXCEPT ![l] = 0]
    /\ SetShut(l, "timer", "no")
    /\ UNCHANGED <<lease, expired, launchVars, watchVars, report>>

ProviderExits(l) == Container(l) /\ ContainerEnds(l, "exited") /\ UNCHANGED dying
ProviderKills(l) ==
    /\ Live(l) /\ dying[l]
    /\ ContainerEnds(l, "gone")
    /\ dying' = [dying EXCEPT ![l] = FALSE]

Expire(l) ==
    /\ ~expired[l] /\ IsOpen(l)
    /\ expired' = [expired EXCEPT ![l] = TRUE]
    /\ UNCHANGED <<lease, podVars, launchVars, watchVars, timerVars, shut>>

GoStale(l) ==
    /\ IsActive(l) /\ lease[l].beat # "stale"
    /\ lease' = [lease EXCEPT ![l].beat = "stale"]
    /\ UNCHANGED <<podVars, expired, launchVars, watchVars, timerVars, shut>>

---------------------------------------------------------------------------
LaunchSteps(l) ==
    \/ LaunchRefused(l) \/ LaunchClear(l) \/ LaunchReserve(l) \/ LaunchAdopt(l) \/ LaunchPost(l)
    \/ LaunchCreateFails(l) \/ LaunchCreateReturns(l) \/ LaunchBind(l) \/ LaunchCheck(l)
    \/ LaunchArm(l) \/ LaunchBeat(l) \/ LaunchObserve(l) \/ LaunchArmingFails(l)
    \/ LaunchRecordArming(l) \/ LaunchRecordClose(l)

WatchSteps(l) ==
    \/ TickTerminal(l) \/ TickBusy(l) \/ TickPending(l) \/ TickOrphan(l) \/ TickOwn(l)
    \/ WatchClaim(l) \/ WatchNote(l) \/ WatchRecover(l) \/ WatchBind(l) \/ WatchBeat(l)
    \/ WatchHeartbeat(l) \/ WatchStatus(l) \/ WatchUnfit(l) \/ OperatorProbe(l) \/ WatchRecordClose(l)

TimerSteps(l) == TimerStart(l) \/ TimerExpires(l) \/ TimerRetry(l) \/ TimerReports(l)

ShutSteps(l, c) == ShutTerminate(l, c) \/ ShutObserve(l, c) \/ ShutBill(l, c)

Environment(l) ==
    \/ LaunchCrash(l) \/ WatchCrash(l) \/ LoseIdentity(l)
    \/ WatchStart(l) \/ OperatorLoad(l) \/ OperatorLock(l)
    \/ TimerChildExits(l)
    \/ ProviderCreates(l) \/ ProviderDrops(l) \/ ProviderRuns(l) \/ ProviderExits(l)
    \/ ProviderKills(l) \/ Expire(l) \/ GoStale(l)

Next ==
    \E l \in Leases :
        \/ LaunchGate(l) \/ LaunchSteps(l)
        \/ WatchSteps(l)
        \/ TimerSteps(l)
        \/ \E c \in Closers : ShutSteps(l, c) \/ ShutDeadline(l, c)
        \/ Environment(l)

Spec == Init /\ [][Next]_vars

\* What the scheduling gives: the lock's holder and the timer go on while they
\* live, their close loop ends by its own clock, and time passes.  Nothing is
\* asked of the launcher or of the provider: crashes, starts, lost or late
\* terminations and refusals may happen or not.
Fairness ==
    \A l \in Leases :
        /\ WF_vars(WatchSteps(l) \/ ShutSteps(l, "watch"))
        /\ SF_vars(ShutDeadline(l, "watch"))
        /\ WF_vars(TimerSteps(l) \/ ShutSteps(l, "timer"))
        /\ SF_vars(ShutDeadline(l, "timer"))
        /\ WF_vars(Expire(l))
        /\ WF_vars(GoStale(l))

FairSpec == Spec /\ Fairness

---------------------------------------------------------------------------
\* A verified close is never written over a pod that still bills, although
\* three processes may close it at once, terminations get lost or come late,
\* one of the provider's views may lie, and leases change hands.
ClosedMeansGone == \A l \in Leases : lease[l].phase = "closed-verified" => pod[l] = "gone"

\* At most one pod bills at a time: a launch that failed, died or was closed
\* without proof blocks the next one.
OnePodAtATime == \A l, m \in Leases : Live(l) /\ Live(m) => l = m

\* A supervisor never takes to closing a running pod whose owner is heartbeating
\* before the deadline, even when the heartbeat came after it read a stale
\* lease.  ("unfit" is where it has read that the pod is not running: that word
\* may be overtaken before the close begins.)
FreshOwnerIsLeftAlone ==
    [][\A l \in Leases :
          /\ watch[l] \notin {"probe", "unfit", "closing"}
          /\ watch'[l] \in {"unfit", "closing"}
          /\ lease[l].phase = "active" /\ pod[l] = "running" /\ ~expired[l]
          => lease[l].beat = "stale"]_vars

\* The account of paid pods is what the leases implement.
Account == INSTANCE PaidPods WITH
    entry <- [l \in Leases |-> IF lease[l].phase = "none" THEN "unused"
                               ELSE IF IsOpen(l) THEN "open" ELSE "settled"],
    paid <- [l \in Leases |-> IF Live(l) THEN "live"
                              ELSE IF pod[l] = "gone" THEN "gone" ELSE "none"]

\* Every step of the controllers keeps the account: no pod without an entry
\* opened first, one open entry at a time, none settled while its pod bills,
\* and none reopened.
AccountKept == Account!Spec

\* Whatever happens on the laptop, the timer in the pod ends: its container is
\* gone, or its attempts are spent and it has reported, as far as that could be
\* written.
DeadmanEnds ==
    \A l \in Leases : timer[l] = "waiting" ~> (timer[l] = "reported" \/ ~Container(l))

\* A supervisor does not wait for ever: unless it dies, it ends with a verified
\* close or by telling a person to go and look.
SupervisionEnds ==
    \A l \in Leases :
        watch[l] = "tick" ~> (watch[l] \in {"crashed", "told"} \/ lease[l].phase = "closed-verified")

=============================================================================
