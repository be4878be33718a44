--------------------------- MODULE CardResidency ---------------------------
(***************************************************************************)
(* One GPU card, shared by every process of a pod that serves a chair: the *)
(* stages of a run and the pod's own preflight.  Each process has one      *)
(* ServingManager.  The card's lease is an advisory lock on a file; the    *)
(* launched engine inherits the locked description, so the lock outlives a *)
(* manager that dies.  A service is left for the next stage by a record    *)
(* written beside the lease (hand_off), and a later start takes it over    *)
(* (_adopt) or stops it (_displace).  A stage may start its chair on a     *)
(* background thread and give up while the chair is still loading.         *)
(***************************************************************************)
EXTENDS Naturals, FiniteSets

CONSTANTS
    Perlectors,     \* processes of stage 4: may hand their chair over
    Coniectors,     \* processes of stage 4b: their row shares the Perlector's
    Attestatores,   \* processes of stage 3: one chair, started and stopped
    Preflights,     \* the pod's bootstrap: no hand-off path, any time
    Services        \* the engines that can be launched (bound)

Pipeline == Perlectors \cup Coniectors \cup Attestatores
Procs    == Pipeline \cup Preflights

None == "none"

ASSUME CardAssumption ==
    /\ Procs \cap Services = {}
    /\ {"none", "torn"} \cap (Procs \cup Services) = {}
    /\ Perlectors \cap Coniectors = {}
    /\ Preflights \cap Pipeline = {}

VARIABLES
    svc,        \* what is left of each engine: its server, its group, a stray
    holders,    \* who has the locked description of the lease open
    record,     \* the hand-off record: none, torn, or the engine it names
    main,       \* where each process's main thread is
    mgr,        \* where its ServingManager is
    own,        \* the engine its manager is starting, serving or stopping
    adopted,    \* ServingManager._adopted
    starting,   \* the chair object still knows its BackgroundStart
    thread,     \* BackgroundStart's thread
    abandoned,  \* BackgroundStart._abandoned
    err,        \* the stage will not seal
    forgot,     \* processes interrupted while they joined a start they had forgotten
    loose       \* history: engines left by a killed process, an unverified stop, or a
                \* process that forgot its start

vars == <<svc, holders, record, main, mgr, own, adopted, starting, thread,
          abandoned, err, forgot, loose>>

procVars == <<main, starting, thread, abandoned, err, forgot>>
mgrVars  == <<mgr, own, adopted>>
cardVars == <<svc, holders, record, loose>>

MainStates == {"idle", "preparing", "joining", "reading", "closing", "stopping",
               "reclaiming", "handing", "writing", "relinquishing", "sealing",
               "closed", "exited", "killed"}
MgrStates  == {"idle", "read", "adopt", "publish", "displace", "absent", "prove",
               "unrecord", "acquire", "probe", "launch", "await", "undo", "undone",
               "up", "failed", "stop", "stopped", "stuck"}

TypeOK ==
    /\ svc \in [Services -> {"unused", "loading", "up", "engine", "stray", "gone"}]
    /\ holders \subseteq Procs \cup Services
    /\ record \in Services \cup {None, "torn"}
    /\ main \in [Procs -> MainStates]
    /\ mgr \in [Procs -> MgrStates]
    /\ own \in [Procs -> Services \cup {None}]
    /\ adopted \in [Procs -> BOOLEAN]
    /\ starting \in [Procs -> BOOLEAN]
    /\ thread \in [Procs -> {"none", "running", "finished"}]
    /\ abandoned \in [Procs -> BOOLEAN]
    /\ err \in [Procs -> BOOLEAN]
    /\ forgot \subseteq Procs
    /\ loose \subseteq Services

Init ==
    /\ svc = [s \in Services |-> "unused"]
    /\ holders = {}
    /\ record = None
    /\ main = [p \in Procs |-> "idle"]
    /\ mgr = [p \in Procs |-> "idle"]
    /\ own = [p \in Procs |-> None]
    /\ adopted = [p \in Procs |-> FALSE]
    /\ starting = [p \in Procs |-> FALSE]
    /\ thread = [p \in Procs |-> "none"]
    /\ abandoned = [p \in Procs |-> FALSE]
    /\ err = [p \in Procs |-> FALSE]
    /\ forgot = {}
    /\ loose = {}

-----------------------------------------------------------------------------
(* Engines, the endpoint and the lease.                                    *)

\* The engine's process group still has a running member.
Running(s) == svc[s] \in {"loading", "up", "engine"}

\* The endpoint a manager probes is its own chair's: only a server that finished
\* loading listens, and one of another chair listens on another port.
Answers(p) == own[p] \in Services /\ svc[own[p]] = "up"

Over(p) == main[p] \in {"exited", "killed"}

\* What an engine can shrink to: its server may exit before the rest of its
\* group, and a process that left the group may outlive both.
Less(state) == CASE state \in {"loading", "up"} -> {"engine", "stray", "gone"}
                 [] state = "engine" -> {"stray", "gone"}
                 [] state = "stray" -> {"gone"}
                 [] OTHER -> {}

\* The kernel drops an engine's share of the lease with its last process.
SetSvc(s, state) ==
    /\ svc' = [svc EXCEPT ![s] = state]
    /\ holders' = IF state = "gone" THEN holders \ {s} ELSE holders

\* LOCK_UN unlocks the description for everyone who shares it.
Release == holders' = {}

\* Closing this manager's descriptor leaves the lock to the engine.
Relinquish(p) == holders' = holders \ {p}

Goes(p, state) == mgr' = [mgr EXCEPT ![p] = state]
MainTo(p, state) == main' = [main EXCEPT ![p] = state]
Owns(p, s) == own' = [own EXCEPT ![p] = s]

\* Inside ServingManager.start; and with no call of the manager under way.
InStart(p) == mgr[p] \in {"read", "adopt", "publish", "displace", "absent", "prove",
                          "unrecord", "acquire", "probe", "launch", "await",
                          "undo", "undone"}
AtRest(p)  == mgr[p] \in {"idle", "up", "failed", "stuck"}

\* _stop_process: TERM, then KILL, to the whole group.
StopsGroup(s) == \E state \in {"stray", "gone"} : SetSvc(s, state)

-----------------------------------------------------------------------------
(* ServingManager.start.                                                   *)

\* _take_over_or_clear: a torn record is discarded; a named engine is taken
\* over by a row that shares it and otherwise stopped.
ReadHandOff(p) ==
    /\ mgr[p] = "read"
    /\ CASE record = None -> Goes(p, "acquire") /\ UNCHANGED <<record, own>>
         [] record = "torn" -> Goes(p, "acquire") /\ record' = None /\ UNCHANGED own
         [] OTHER -> /\ Goes(p, IF p \in Coniectors THEN "adopt" ELSE "displace")
                     /\ Owns(p, record)
                     /\ UNCHANGED record
    /\ UNCHANGED <<svc, holders, loose, adopted, procVars>>

\* _adopt: the server answers and every check passes; the record is consumed
\* before anything is published.
AdoptChecks(p) ==
    /\ mgr[p] = "adopt"
    /\ svc[own[p]] = "up"
    /\ record' = None
    /\ Goes(p, "publish")
    /\ UNCHANGED <<svc, holders, loose, own, adopted, procVars>>

\* Another chair, scope, command or package set, or a server that is gone.
AdoptRefused(p) ==
    /\ mgr[p] = "adopt"
    /\ Goes(p, "displace")
    /\ UNCHANGED <<cardVars, own, adopted, procVars>>

\* The receipt is published; ChairClient.__enter__ then reads it back and keeps
\* the handle, or stops the service when it is not this chair's.
AdoptPublishes(p) ==
    /\ mgr[p] = "publish"
    /\ Goes(p, "up") \/ Goes(p, "undo")
    /\ adopted' = [adopted EXCEPT ![p] = TRUE]
    /\ UNCHANGED <<cardVars, own, procVars>>

\* The take-over could not be recorded: the service is stopped, its lease
\* shown free, and the start goes on with an engine of its own.
AdoptUnrecorded(p) ==
    /\ mgr[p] = "publish"
    /\ Goes(p, "displace")
    /\ UNCHANGED <<cardVars, own, adopted, procVars>>

\* A displaced engine that cannot be attached is already gone.
DisplaceAttachFails(p) ==
    /\ mgr[p] = "displace"
    /\ ~Running(own[p])
    /\ Goes(p, "prove")
    /\ UNCHANGED <<cardVars, own, adopted, procVars>>

DisplaceStops(p) ==
    /\ mgr[p] = "displace"
    /\ Running(own[p])
    /\ StopsGroup(own[p])
    /\ Goes(p, "absent")
    /\ UNCHANGED <<record, loose, own, adopted, procVars>>

DisplacedEndpointGone(p) ==
    /\ mgr[p] = "absent"
    /\ ~Answers(p)
    /\ Goes(p, "prove")
    /\ UNCHANGED <<cardVars, own, adopted, procVars>>

\* _prove_lease_free: acquired and released at once.
ProveLeaseFree(p) ==
    /\ mgr[p] = "prove"
    /\ holders = {}
    /\ Goes(p, "unrecord")
    /\ UNCHANGED <<cardVars, own, adopted, procVars>>

\* The group outlived KILL, the endpoint did not prove absent, or the lease is
\* still held when the wait ends: the start fails and the record is kept.
DisplaceFails(p) ==
    /\ \/ mgr[p] = "displace" /\ Running(own[p])
       \/ mgr[p] = "absent"
       \/ mgr[p] = "prove" /\ holders # {}
    /\ Goes(p, "failed")
    /\ Owns(p, None)
    /\ loose' = IF record = own[p] THEN loose ELSE loose \cup {own[p]}
    /\ UNCHANGED <<svc, holders, record, adopted, procVars>>

\* _remove_hand_off; then the start goes on, or a reclaim is done.
RemoveHandOff(p) ==
    /\ mgr[p] = "unrecord"
    /\ record' = None
    /\ Owns(p, None)
    /\ Goes(p, IF main[p] = "reclaiming" THEN "idle" ELSE "acquire")
    /\ UNCHANGED <<svc, holders, loose, adopted, procVars>>

\* The non-blocking flock.
Acquire(p) ==
    /\ mgr[p] = "acquire"
    /\ holders = {}
    /\ holders' = {p}
    /\ Goes(p, "probe")
    /\ UNCHANGED <<svc, record, loose, own, adopted, procVars>>

\* The lease is held, or the snapshot or the recipe refuses: nothing to undo.
StartRefused(p) ==
    /\ mgr[p] = "acquire"
    /\ Goes(p, "failed")
    /\ UNCHANGED <<cardVars, own, adopted, procVars>>

\* _assert_endpoint_unoccupied: whatever serves, this chair's port may be free.
EndpointUnoccupied(p) ==
    /\ mgr[p] = "probe"
    /\ ~Answers(p)
    /\ Goes(p, "launch")
    /\ UNCHANGED <<cardVars, own, adopted, procVars>>

\* The endpoint answered or did not prove absent, or the launch raised.
LaunchRefused(p) ==
    /\ mgr[p] \in {"probe", "launch"}
    /\ Release
    /\ Goes(p, "failed")
    /\ UNCHANGED <<svc, record, loose, own, adopted, procVars>>

\* The engine the next launch starts.
FreshService == CHOOSE s \in Services : svc[s] = "unused"

\* Popen with pass_fds: the engine shares the locked description.
Launch(p, s) ==
    /\ mgr[p] = "launch"
    /\ svc[s] = "unused"
    /\ s = FreshService
    /\ svc' = [svc EXCEPT ![s] = "loading"]
    /\ holders' = holders \cup {s}
    /\ Owns(p, s)
    /\ Goes(p, "await")
    /\ UNCHANGED <<record, loose, adopted, procVars>>

\* _wait_until_ready, the receipt published and read back.
Ready(p) ==
    /\ mgr[p] = "await"
    /\ svc[own[p]] = "up"
    /\ Goes(p, "up")
    /\ UNCHANGED <<cardVars, own, adopted, procVars>>

\* The server exited, the wait timed out or the receipt was refused; or, in
\* ChairClient.__enter__, the receipt read back is not this chair's.
StartUndone(p) ==
    /\ mgr[p] = "await"
    /\ Goes(p, "undo")
    /\ UNCHANGED <<cardVars, own, adopted, procVars>>

-----------------------------------------------------------------------------
(* Stopping the manager's own service: stop, and _attempt_cleanup.         *)

StopProcess(p) ==
    /\ mgr[p] \in {"stop", "undo"}
    /\ IF Running(own[p]) THEN StopsGroup(own[p]) ELSE UNCHANGED <<svc, holders>>
    /\ Goes(p, IF mgr[p] = "stop" THEN "stopped" ELSE "undone")
    /\ UNCHANGED <<record, loose, own, adopted, procVars>>

\* _assert_endpoint_absent, then the lease: unlocked by the manager that took
\* it, left to the engine's own processes by one that took the service over.
ReleaseResidency(p) ==
    /\ mgr[p] \in {"stopped", "undone"}
    /\ ~Answers(p)
    /\ IF adopted[p] THEN UNCHANGED holders ELSE Release
    /\ Owns(p, None)
    /\ adopted' = [adopted EXCEPT ![p] = FALSE]
    /\ Goes(p, IF mgr[p] = "stopped" THEN "idle" ELSE "failed")
    /\ UNCHANGED <<svc, record, loose, procVars>>

\* An unverified stop keeps the process and the lease.
StopFails(p) ==
    /\ \/ mgr[p] \in {"stop", "undo"} /\ Running(own[p])
       \/ mgr[p] \in {"stopped", "undone"}
    /\ Goes(p, "stuck")
    /\ loose' = loose \cup {own[p]}
    /\ UNCHANGED <<svc, holders, record, own, adopted, procVars>>

-----------------------------------------------------------------------------
(* BackgroundStart.                                                        *)

\* Mutants: a thread that does not ask whether its chair was abandoned, and one
\* that marks only a successful start as finished.
StartFinishesUnasked(p) ==
    /\ thread[p] = "running"
    /\ ~InStart(p)
    /\ thread' = [thread EXCEPT ![p] = "finished"]
    /\ UNCHANGED <<cardVars, mgrVars, main, starting, abandoned, err, forgot>>
StartFinishesWhenUp(p) ==
    /\ thread[p] = "running"
    /\ mgr[p] = "up"
    /\ thread' = [thread EXCEPT ![p] = "finished"]
    /\ IF abandoned[p] THEN Goes(p, "stop") ELSE UNCHANGED mgr
    /\ UNCHANGED <<cardVars, own, adopted, main, starting, abandoned, err, forgot>>

\* The start returned: under the lock the thread says so and learns whether
\* the chair is now its own to stop.
StartFinishes(p) ==
    /\ thread[p] = "running"
    /\ ~InStart(p)
    /\ thread' = [thread EXCEPT ![p] = "finished"]
    /\ IF abandoned[p] /\ mgr[p] = "up" THEN Goes(p, "stop") ELSE UNCHANGED mgr
    /\ UNCHANGED <<cardVars, own, adopted, main, starting, abandoned, err, forgot>>

-----------------------------------------------------------------------------
(* The stages.                                                             *)

\* The orchestrator runs one stage at a time; the bootstrap runs when it runs.
Begin(p) ==
    /\ main[p] = "idle"
    /\ p \in Pipeline => \A q \in Pipeline : main[q] = "idle" \/ Over(q)
    /\ MainTo(p, "preparing")
    /\ UNCHANGED <<cardVars, mgrVars, starting, thread, abandoned, err, forgot>>

\* Some page is unread, or some call unsealed: the chair loads meanwhile.
StartEarly(p) ==
    /\ p \in Perlectors \cup Coniectors
    /\ main[p] = "preparing"
    /\ thread[p] = "none"
    /\ thread' = [thread EXCEPT ![p] = "running"]
    /\ starting' = [starting EXCEPT ![p] = TRUE]
    /\ Goes(p, "read")
    /\ UNCHANGED <<cardVars, own, adopted, main, abandoned, err, forgot>>

\* No background start: the chair starts when the first call is due.
StartNow(p) ==
    /\ p \notin Coniectors
    /\ main[p] = "preparing"
    /\ thread[p] = "none"
    /\ MainTo(p, "joining")
    /\ Goes(p, IF p \in Preflights THEN "acquire" ELSE "read")
    /\ UNCHANGED <<cardVars, own, adopted, starting, thread, abandoned, err, forgot>>

\* Mutant: a Coniector that starts no chair seals at once.
NothingToReclaim(p) ==
    /\ main[p] = "preparing"
    /\ thread[p] = "none"
    /\ MainTo(p, "sealing")
    /\ UNCHANGED <<cardVars, mgrVars, starting, thread, abandoned, err, forgot>>

\* Nothing to send: a Coniector reclaims what was left serving for it.
NothingToSend(p) ==
    /\ main[p] = "preparing"
    /\ thread[p] = "none"
    /\ MainTo(p, IF p \in Coniectors THEN "reclaiming" ELSE "sealing")
    /\ UNCHANGED <<cardVars, mgrVars, starting, thread, abandoned, err, forgot>>

PreparationFails(p) ==
    /\ main[p] = "preparing"
    /\ MainTo(p, "closing")
    /\ err' = [err EXCEPT ![p] = TRUE]
    /\ UNCHANGED <<cardVars, mgrVars, starting, thread, abandoned, forgot>>

\* The Perlector's chair keeps its BackgroundStart while it is joined; the
\* Coniector's `ready` and `settle` forget theirs first.
Join(p) ==
    /\ main[p] = "preparing"
    /\ thread[p] # "none"
    /\ MainTo(p, "joining")
    /\ starting' = [starting EXCEPT ![p] = p \in Perlectors]
    /\ UNCHANGED <<cardVars, mgrVars, thread, abandoned, err, forgot>>

\* The start returned on this thread, or its thread ended: go on, or raise.
StartReturned(p) ==
    /\ main[p] = "joining"
    /\ thread[p] # "running"
    /\ mgr[p] \in {"up", "failed", "stuck"}
    /\ MainTo(p, IF mgr[p] = "up" THEN "reading" ELSE "closing")
    /\ err' = [err EXCEPT ![p] = mgr[p] # "up"]
    /\ UNCHANGED <<cardVars, mgrVars, starting, thread, abandoned, forgot>>

\* A keyboard interrupt while the main thread waits for the start's thread.
Interrupt(p) ==
    /\ main[p] = "joining"
    /\ thread[p] = "running"
    /\ MainTo(p, "closing")
    /\ err' = [err EXCEPT ![p] = TRUE]
    /\ forgot' = IF starting[p] THEN forgot ELSE forgot \cup {p}
    /\ UNCHANGED <<cardVars, mgrVars, starting, thread, abandoned>>

\* The calls are answered, or the pass raises; a Perlector whose chair the
\* Coniector shares seals first and then hands it over.
ReadingEnds(p) ==
    /\ main[p] = "reading"
    /\ \/ MainTo(p, "closing") /\ \E e \in BOOLEAN : err' = [err EXCEPT ![p] = e]
       \/ p \in Perlectors /\ MainTo(p, "handing") /\ UNCHANGED err
    /\ UNCHANGED <<cardVars, mgrVars, starting, thread, abandoned, forgot>>

\* close: a chair still starting is left to its thread.
CloseAbandons(p) ==
    /\ main[p] = "closing"
    /\ starting[p] /\ thread[p] = "running"
    /\ starting' = [starting EXCEPT ![p] = FALSE]
    /\ abandoned' = [abandoned EXCEPT ![p] = TRUE]
    /\ MainTo(p, "closed")
    /\ UNCHANGED <<cardVars, mgrVars, thread, err, forgot>>

\* Otherwise a served chair is stopped here.
CloseStops(p) ==
    /\ main[p] = "closing"
    /\ ~(starting[p] /\ thread[p] = "running")
    /\ mgr[p] = "up"
    /\ starting' = [starting EXCEPT ![p] = FALSE]
    /\ MainTo(p, "stopping")
    /\ Goes(p, "stop")
    /\ UNCHANGED <<cardVars, own, adopted, thread, abandoned, err, forgot>>

\* The pass raised and its client has no handle: nothing to stop.
CloseUnstarted(p) ==
    /\ main[p] = "closing"
    /\ ~(starting[p] /\ thread[p] = "running")
    /\ mgr[p] # "up"
    /\ starting' = [starting EXCEPT ![p] = FALSE]
    /\ MainTo(p, "closed")
    /\ UNCHANGED <<cardVars, mgrVars, thread, abandoned, err, forgot>>

\* The stop is verified, or it is not and the stage fails before its seal.
Stopped(p) ==
    /\ main[p] = "stopping"
    /\ mgr[p] \in {"idle", "stuck"}
    /\ MainTo(p, IF err[p] \/ mgr[p] = "stuck" THEN "closed" ELSE "sealing")
    /\ UNCHANGED <<cardVars, mgrVars, starting, thread, abandoned, err, forgot>>

\* reclaim_hand_off: nothing there, a torn record, or an engine to displace.
Reclaim(p) ==
    /\ main[p] = "reclaiming"
    /\ mgr[p] = "idle"
    /\ IF record \in Services
       THEN Goes(p, "displace") /\ Owns(p, record) /\ UNCHANGED <<record, main>>
       ELSE record' = None /\ MainTo(p, "sealing") /\ UNCHANGED <<mgr, own>>
    /\ UNCHANGED <<svc, holders, loose, adopted, starting, thread, abandoned, err, forgot>>

ReclaimFails(p) ==
    /\ main[p] = "reclaiming"
    /\ mgr[p] = "failed"
    /\ MainTo(p, "closed")
    /\ err' = [err EXCEPT ![p] = TRUE]
    /\ UNCHANGED <<cardVars, mgrVars, starting, thread, abandoned, forgot>>

\* hand_off: refused, and the chair stopped, when the server has exited or a
\* record is there; O_EXCL otherwise creates the record empty.
HandOffOpens(p) ==
    /\ main[p] = "handing"
    /\ IF svc[own[p]] = "up" /\ record = None /\ ~adopted[p]
       THEN record' = "torn" /\ MainTo(p, "writing")
       ELSE UNCHANGED record /\ MainTo(p, "closing")
    /\ UNCHANGED <<svc, holders, loose, mgrVars, starting, thread, abandoned, err, forgot>>

HandOffWrites(p) ==
    /\ main[p] = "writing"
    /\ \/ record' = own[p] /\ MainTo(p, "relinquishing")
       \/ record' = None /\ MainTo(p, "closing")
    /\ UNCHANGED <<svc, holders, loose, mgrVars, starting, thread, abandoned, err, forgot>>

\* Mutant: the hand-off releases the lease instead of closing its descriptor.
HandOffUnlocks(p) ==
    /\ main[p] = "relinquishing"
    /\ Release
    /\ Owns(p, None)
    /\ Goes(p, "idle")
    /\ MainTo(p, "closed")
    /\ UNCHANGED <<svc, record, loose, adopted, starting, thread, abandoned, err, forgot>>

HandOffRelinquishes(p) ==
    /\ main[p] = "relinquishing"
    /\ Relinquish(p)
    /\ Owns(p, None)
    /\ Goes(p, "idle")
    /\ MainTo(p, "closed")
    /\ UNCHANGED <<svc, record, loose, adopted, starting, thread, abandoned, err, forgot>>

Seal(p) ==
    /\ main[p] = "sealing"
    /\ MainTo(p, "closed")
    /\ UNCHANGED <<cardVars, mgrVars, starting, thread, abandoned, err, forgot>>

\* The process's memory and its descriptors go with it.
Ends(p, how) ==
    /\ MainTo(p, how)
    /\ Relinquish(p)
    /\ Goes(p, "idle")
    /\ Owns(p, None)
    /\ adopted' = [adopted EXCEPT ![p] = FALSE]
    /\ starting' = [starting EXCEPT ![p] = FALSE]
    /\ thread' = [thread EXCEPT ![p] = "none"]
    /\ abandoned' = [abandoned EXCEPT ![p] = FALSE]
    /\ err' = [err EXCEPT ![p] = FALSE]

\* The interpreter waits for the start's thread, which is not a daemon.
Exit(p) ==
    /\ main[p] = "closed"
    /\ thread[p] # "running"
    /\ AtRest(p)
    /\ Ends(p, "exited")
    /\ loose' = IF p \in forgot /\ own[p] # None THEN loose \cup {own[p]} ELSE loose
    /\ UNCHANGED <<svc, record, forgot>>

\* SIGKILL, or the pod's memory limit: whatever it held is left as it is.
Kill(p) ==
    /\ main[p] # "idle" /\ ~Over(p)
    /\ Ends(p, "killed")
    /\ loose' = IF own[p] = None THEN loose ELSE loose \cup {own[p]}
    /\ UNCHANGED <<svc, record, forgot>>

-----------------------------------------------------------------------------
(* The engines themselves.                                                 *)

Loads(s) ==
    /\ svc[s] = "loading"
    /\ svc' = [svc EXCEPT ![s] = "up"]
    /\ UNCHANGED <<holders, record, loose, mgrVars, procVars>>

Falls(s) ==
    /\ \E state \in Less(svc[s]) : SetSvc(s, state)
    /\ UNCHANGED <<record, loose, mgrVars, procVars>>

-----------------------------------------------------------------------------
MgrStep(p) ==
    \/ ReadHandOff(p) \/ AdoptChecks(p) \/ AdoptRefused(p) \/ AdoptPublishes(p)
    \/ AdoptUnrecorded(p) \/ DisplaceAttachFails(p) \/ DisplaceStops(p)
    \/ DisplacedEndpointGone(p) \/ ProveLeaseFree(p) \/ DisplaceFails(p)
    \/ RemoveHandOff(p) \/ Acquire(p) \/ StartRefused(p) \/ EndpointUnoccupied(p)
    \/ LaunchRefused(p) \/ (\E s \in Services : Launch(p, s)) \/ Ready(p)
    \/ StartUndone(p) \/ StopProcess(p) \/ ReleaseResidency(p) \/ StopFails(p)
    \/ StartFinishes(p)

MainStep(p) ==
    \/ StartEarly(p) \/ StartNow(p) \/ NothingToSend(p) \/ PreparationFails(p)
    \/ Join(p) \/ StartReturned(p) \/ ReadingEnds(p) \/ CloseAbandons(p)
    \/ CloseStops(p) \/ CloseUnstarted(p) \/ Stopped(p) \/ Reclaim(p)
    \/ ReclaimFails(p) \/ HandOffOpens(p) \/ HandOffWrites(p)
    \/ HandOffRelinquishes(p) \/ Seal(p) \/ Exit(p)

Next ==
    \/ \E p \in Procs : MgrStep(p) \/ MainStep(p) \/ Begin(p) \/ Interrupt(p) \/ Kill(p)
    \/ \E s \in Services : Loads(s) \/ Falls(s)

Spec == Init /\ [][Next]_vars

\* Both threads of a process that was not killed are scheduled, and every wait
\* in the manager has a deadline.
FairSpec == Spec /\ \A p \in Procs : WF_vars(MgrStep(p)) /\ WF_vars(MainStep(p))

-----------------------------------------------------------------------------
(* Properties.                                                             *)

\* The single-resident rule: two engines never run on the card at once,
\* whatever managers contend, die, hand over, take over or fail to stop.
\* The lease of residency.py is what the rule rests on.
OneOnTheCard ==
    \A s, t \in Services : Running(s) /\ Running(t) => s = t

\* A process leaves an engine running only with a hand-off record that names
\* it, so the next start can find and stop it: also when the stage gave up
\* while its chair was still starting on another thread
\* (BackgroundStart.abandon, ResidentChair.close). The exceptions are a process
\* that was killed, one whose stop was not verified, and a Coniector that was
\* interrupted while it joined a start that _Chair.ready or settle had already
\* forgotten: its close then has nothing to abandon.
NothingLeftRunning ==
    \A s \in Services : Running(s) /\ s \notin loose =>
        record = s \/ \E p \in Procs : ~Over(p) /\ own[p] = s

\* A Coniector seals only once the Perlector's chair was taken over and stopped
\* or reclaimed: no record is left, and only the bootstrap's engine may run,
\* besides what was left loose.
ConiectorSealsClean ==
    \A c \in Coniectors : main[c] = "sealing" =>
        /\ record = None
        /\ \A s \in Services : Running(s) /\ s \notin loose =>
              \E p \in Preflights : own[p] = s

\* Every process that begins also ends (none begins twice): the main thread's
\* join, an abandoned start's own stop and the interpreter's wait for that
\* thread never wait on one another.
EveryStageEnds ==
    <>[](\A p \in Procs : main[p] = "idle" \/ Over(p))
=============================================================================
