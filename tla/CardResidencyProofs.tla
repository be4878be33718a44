------------------------- MODULE CardResidencyProofs -------------------------
(***************************************************************************)
(* The single-resident rule, for any number of processes and engines.      *)
(* The lease by itself does not say who may unlock it: the strengthening   *)
(* says which managers can, and that nothing else then has it open.        *)
(***************************************************************************)
EXTENDS CardResidency, TLAPS

\* A manager that names an engine: taken from the record, or launched.
NamesEngine == {"adopt", "publish", "displace", "absent", "prove", "unrecord",
                "await", "undo", "undone", "up", "stop", "stopped", "stuck"}

\* A manager that took the lease itself and has launched its engine.
Serving == {"await", "undo", "undone", "up", "stop", "stopped", "stuck"}

\* The engine a manager names was launched once.
InvNamed == \A p \in Procs : mgr[p] \in NamesEngine => own[p] \in Services

\* An engine is named only after its launch.
InvLaunched ==
    /\ \A p \in Procs : own[p] \in Services => svc[own[p]] # "unused"
    /\ record \in Services => svc[record] # "unused"

\* A running engine has the locked description open.
InvHeld == \A s \in Services : Running(s) => s \in holders

\* At most one engine has it open.
InvOneEngine == \A s, t \in Services : s \in holders /\ t \in holders => s = t

\* Between the flock and the launch nobody else has it open.
InvAlone == \A p \in Procs : mgr[p] \in {"probe", "launch"} => holders = {p}

\* A manager that launched its engine shares the lease with it alone.
InvShared ==
    \A p \in Procs : mgr[p] \in Serving /\ ~adopted[p] =>
        p \in holders /\ holders \subseteq {p, own[p]}

\* The engine of a manager about to unlock is not running.
InvStopped ==
    \A p \in Procs : mgr[p] \in {"stopped", "undone"} => ~Running(own[p])

-----------------------------------------------------------------------------
(* What is left running.                                                   *)

Active(p) == main[p] \notin {"idle", "exited", "killed"}

\* The orchestrator's promise, and a process that is not there owns nothing.
InvTurn ==
    /\ \A p, q \in Pipeline : Active(p) /\ Active(q) => p = q
    /\ \A p \in Procs : ~Active(p) => mgr[p] = "idle" /\ thread[p] = "none"

\* Who may be where.
InvRoles ==
    \A p \in Procs :
        /\ mgr[p] \in {"read", "adopt", "publish", "displace", "absent", "prove",
                       "unrecord"} => p \in Pipeline
        /\ thread[p] # "none" => p \in Perlectors \cup Coniectors
        /\ main[p] \in {"handing", "writing", "relinquishing"} =>
              p \in Perlectors /\ mgr[p] = "up" /\ thread[p] # "running"
        /\ main[p] = "reclaiming" => p \in Coniectors /\ thread[p] = "none"

\* A manager that names no engine, and one that gave its engine up.
InvUnnamed ==
    \A p \in Procs :
        /\ mgr[p] \in {"idle", "read", "acquire", "probe", "launch", "failed"} =>
              own[p] = None
        /\ mgr[p] = "stuck" => own[p] \in loose

\* What the record says while a start clears it or a hand-off writes it.
InvRecord ==
    \A p \in Procs :
        /\ mgr[p] = "adopt" => record = own[p]
        /\ mgr[p] = "publish" => record = None
        /\ mgr[p] \in {"displace", "absent", "prove", "unrecord"} =>
              record \in {own[p], None}
        /\ mgr[p] \in {"absent", "prove", "unrecord"} => ~Running(own[p])
        /\ main[p] = "writing" => record = "torn"
        /\ main[p] = "relinquishing" => record = own[p]

\* The join and the abandonment: once main has closed, only an abandoned
\* thread can still bring the chair up, and it will stop it, or the thread of
\* a start that was forgotten, in a stage that will not seal.
InvHandle ==
    \A p \in Procs :
        /\ thread[p] = "finished" => ~InStart(p)
        /\ main[p] = "preparing" =>
              IF thread[p] = "none" THEN mgr[p] = "idle" ELSE starting[p]
        /\ main[p] \in {"joining", "closing"} /\ thread[p] = "running"
              /\ p \in Perlectors => starting[p]
        /\ p \in forgot =>
              /\ main[p] \in {"closing", "stopping", "closed", "exited", "killed"}
              /\ main[p] \in {"closing", "stopping"} => err[p]
        /\ main[p] = "closing" /\ thread[p] = "running" => starting[p] \/ p \in forgot
        /\ main[p] = "closing" /\ thread[p] # "running" => ~InStart(p)
        /\ main[p] \in {"reading", "sealing"} => thread[p] # "running"
        /\ main[p] = "stopping" /\ thread[p] = "running" => p \in forgot
        /\ main[p] = "reading" => mgr[p] = "up"
        /\ main[p] = "stopping" => ~InStart(p) /\ mgr[p] # "up"
        /\ main[p] = "sealing" => mgr[p] = "idle"
        /\ main[p] = "reclaiming" => mgr[p] \in {"idle", "displace", "absent",
                                                  "prove", "unrecord", "failed"}
        /\ main[p] = "closed" =>
              IF thread[p] = "running" THEN abandoned[p] \/ p \in forgot
              ELSE ~InStart(p) /\ (mgr[p] = "up" => p \in forgot)

\* A Coniector past its take-over leaves no record behind.
InvCleared ==
    \A c \in Coniectors :
        \/ mgr[c] \in {"acquire", "probe", "launch", "await", "undo", "undone",
                       "publish", "up", "stop", "stopped"}
        \/ main[c] \in {"reading", "stopping", "sealing"}
        => record = None

IInv == /\ TypeOK /\ InvNamed /\ InvLaunched /\ InvHeld /\ InvOneEngine
        /\ InvAlone /\ InvShared /\ InvStopped

LInv == /\ InvTurn /\ InvRoles /\ InvUnnamed /\ InvRecord /\ InvHandle /\ InvCleared
        /\ NothingLeftRunning

-----------------------------------------------------------------------------

\* Every step keeps the strengthening.
LEMMA SafeStep ==
    ASSUME IInv, [Next]_vars
    PROVE  IInv'
<1> USE CardAssumption DEF IInv, TypeOK, InvNamed, NamesEngine, InvLaunched,
                InvHeld, InvOneEngine, InvAlone, InvShared, Serving,
                InvStopped, Running, Procs, Pipeline, None, MainStates,
                MgrStates
<1>1. ASSUME NEW p \in Procs, ReadHandOff(p) PROVE IInv'
  BY <1>1 DEF ReadHandOff, Goes, Owns, procVars
<1>2. ASSUME NEW p \in Procs, AdoptChecks(p) PROVE IInv'
  BY <1>2 DEF AdoptChecks, Goes, procVars
<1>3. ASSUME NEW p \in Procs, AdoptRefused(p) PROVE IInv'
  BY <1>3 DEF AdoptRefused, Goes, procVars, cardVars
<1>4. ASSUME NEW p \in Procs, AdoptPublishes(p) PROVE IInv'
  BY <1>4 DEF AdoptPublishes, Goes, procVars, cardVars
<1>5. ASSUME NEW p \in Procs, AdoptUnrecorded(p) PROVE IInv'
  BY <1>5 DEF AdoptUnrecorded, Goes, procVars, cardVars
<1>6. ASSUME NEW p \in Procs, DisplaceAttachFails(p) PROVE IInv'
  BY <1>6 DEF DisplaceAttachFails, Goes, procVars, cardVars
<1>7. ASSUME NEW p \in Procs, DisplaceStops(p) PROVE IInv'
  BY <1>7 DEF DisplaceStops, Goes, StopsGroup, procVars, SetSvc
<1>8. ASSUME NEW p \in Procs, DisplacedEndpointGone(p) PROVE IInv'
  BY <1>8 DEF DisplacedEndpointGone, Goes, procVars, cardVars
<1>9. ASSUME NEW p \in Procs, ProveLeaseFree(p) PROVE IInv'
  BY <1>9 DEF ProveLeaseFree, Goes, procVars, cardVars
<1>10. ASSUME NEW p \in Procs, DisplaceFails(p) PROVE IInv'
  BY <1>10 DEF DisplaceFails, Goes, Owns, procVars
<1>11. ASSUME NEW p \in Procs, RemoveHandOff(p) PROVE IInv'
  BY <1>11 DEF RemoveHandOff, Goes, Owns, procVars
<1>12. ASSUME NEW p \in Procs, Acquire(p) PROVE IInv'
  BY <1>12 DEF Acquire, Goes, procVars
<1>13. ASSUME NEW p \in Procs, StartRefused(p) PROVE IInv'
  BY <1>13 DEF StartRefused, Goes, procVars, cardVars
<1>14. ASSUME NEW p \in Procs, EndpointUnoccupied(p) PROVE IInv'
  BY <1>14 DEF EndpointUnoccupied, Goes, procVars, cardVars
<1>15. ASSUME NEW p \in Procs, LaunchRefused(p) PROVE IInv'
  BY <1>15 DEF LaunchRefused, Goes, Release, procVars
<1>16. ASSUME NEW p \in Procs, NEW s \in Services, Launch(p, s) PROVE IInv'
  BY <1>16 DEF Launch, Goes, Owns, procVars
<1>17. ASSUME NEW p \in Procs, Ready(p) PROVE IInv'
  BY <1>17 DEF Ready, Goes, procVars, cardVars
<1>18. ASSUME NEW p \in Procs, StartUndone(p) PROVE IInv'
  BY <1>18 DEF StartUndone, Goes, procVars, cardVars
<1>19. ASSUME NEW p \in Procs, StopProcess(p) PROVE IInv'
  BY <1>19 DEF StopProcess, Goes, StopsGroup, procVars, SetSvc
<1>20. ASSUME NEW p \in Procs, ReleaseResidency(p) PROVE IInv'
  BY <1>20 DEF ReleaseResidency, Goes, Owns, Release, procVars
<1>21. ASSUME NEW p \in Procs, StopFails(p) PROVE IInv'
  BY <1>21 DEF StopFails, Goes, procVars
<1>22. ASSUME NEW p \in Procs, StartFinishes(p) PROVE IInv'
  BY <1>22 DEF StartFinishes, Goes, cardVars
<1>23. ASSUME NEW p \in Procs, StartEarly(p) PROVE IInv'
  BY <1>23 DEF StartEarly, Goes, cardVars
<1>24. ASSUME NEW p \in Procs, StartNow(p) PROVE IInv'
  BY <1>24 DEF StartNow, Goes, MainTo, cardVars
<1>25. ASSUME NEW p \in Procs, NothingToSend(p) PROVE IInv'
  BY <1>25 DEF NothingToSend, MainTo, mgrVars, cardVars
<1>26. ASSUME NEW p \in Procs, PreparationFails(p) PROVE IInv'
  BY <1>26 DEF PreparationFails, MainTo, mgrVars, cardVars
<1>27. ASSUME NEW p \in Procs, Join(p) PROVE IInv'
  BY <1>27 DEF Join, MainTo, mgrVars, cardVars
<1>28. ASSUME NEW p \in Procs, StartReturned(p) PROVE IInv'
  BY <1>28 DEF StartReturned, MainTo, mgrVars, cardVars
<1>29. ASSUME NEW p \in Procs, ReadingEnds(p) PROVE IInv'
  BY <1>29 DEF ReadingEnds, MainTo, mgrVars, cardVars
<1>30. ASSUME NEW p \in Procs, CloseAbandons(p) PROVE IInv'
  BY <1>30 DEF CloseAbandons, MainTo, mgrVars, cardVars
<1>31. ASSUME NEW p \in Procs, CloseStops(p) PROVE IInv'
  BY <1>31 DEF CloseStops, Goes, MainTo, cardVars
<1>32. ASSUME NEW p \in Procs, CloseUnstarted(p) PROVE IInv'
  BY <1>32 DEF CloseUnstarted, MainTo, mgrVars, cardVars
<1>33. ASSUME NEW p \in Procs, Stopped(p) PROVE IInv'
  BY <1>33 DEF Stopped, MainTo, mgrVars, cardVars
<1>34. ASSUME NEW p \in Procs, Reclaim(p) PROVE IInv'
  BY <1>34 DEF Reclaim, Goes, MainTo, Owns
<1>35. ASSUME NEW p \in Procs, ReclaimFails(p) PROVE IInv'
  BY <1>35 DEF ReclaimFails, MainTo, mgrVars, cardVars
<1>36. ASSUME NEW p \in Procs, HandOffOpens(p) PROVE IInv'
  BY <1>36 DEF HandOffOpens, MainTo, mgrVars
<1>37. ASSUME NEW p \in Procs, HandOffWrites(p) PROVE IInv'
  BY <1>37 DEF HandOffWrites, MainTo, mgrVars
<1>38. ASSUME NEW p \in Procs, HandOffRelinquishes(p) PROVE IInv'
  BY <1>38 DEF HandOffRelinquishes, Goes, MainTo, Owns, Relinquish
<1>39. ASSUME NEW p \in Procs, Seal(p) PROVE IInv'
  BY <1>39 DEF Seal, MainTo, mgrVars, cardVars
<1>40. ASSUME NEW p \in Procs, Exit(p) PROVE IInv'
  BY <1>40 DEF Exit, Ends, AtRest, Goes, MainTo, Owns, Relinquish
<1>41. ASSUME NEW p \in Procs, Begin(p) PROVE IInv'
  BY <1>41 DEF Begin, MainTo, mgrVars, cardVars
<1>42. ASSUME NEW p \in Procs, Interrupt(p) PROVE IInv'
  BY <1>42 DEF Interrupt, MainTo, mgrVars, cardVars
<1>43. ASSUME NEW p \in Procs, Kill(p) PROVE IInv'
  BY <1>43 DEF Kill, Ends, Goes, MainTo, Owns, Relinquish
<1>44. ASSUME NEW s \in Services, Loads(s) PROVE IInv'
  BY <1>44 DEF Loads, procVars, mgrVars
<1>45. ASSUME NEW s \in Services, Falls(s) PROVE IInv'
  BY <1>45 DEF Falls, SetSvc, Less, procVars, mgrVars
<1>46. ASSUME UNCHANGED vars PROVE IInv'
  BY <1>46 DEF vars
<1> QED
  BY <1>1, <1>2, <1>3, <1>4, <1>5, <1>6, <1>7, <1>8, <1>9, <1>10, <1>11,
     <1>12, <1>13, <1>14, <1>15, <1>16, <1>17, <1>18, <1>19, <1>20, <1>21,
     <1>22, <1>23, <1>24, <1>25, <1>26, <1>27, <1>28, <1>29, <1>30, <1>31,
     <1>32, <1>33, <1>34, <1>35, <1>36, <1>37, <1>38, <1>39, <1>40, <1>41,
     <1>42, <1>43, <1>44, <1>45, <1>46
     DEF Next, MgrStep, MainStep

\* Every step keeps what is known of engines left running.
LEMMA LeftStep ==
    ASSUME IInv, LInv, [Next]_vars
    PROVE  LInv'
<1> USE CardAssumption DEF IInv, LInv, InvTurn, Active, InvRoles, InvUnnamed,
                InvRecord, InvHandle, InStart, InvCleared, NothingLeftRunning,
                Over, Running, TypeOK, InvNamed, InvStopped, InvLaunched,
                NamesEngine, Procs, Pipeline, None
<1>1. ASSUME NEW p \in Procs, ReadHandOff(p) PROVE LInv'
  BY <1>1 DEF ReadHandOff, Goes, Owns, procVars
<1>2. ASSUME NEW p \in Procs, AdoptChecks(p) PROVE LInv'
  BY <1>2 DEF AdoptChecks, Goes, procVars
<1>3. ASSUME NEW p \in Procs, AdoptRefused(p) PROVE LInv'
  BY <1>3 DEF AdoptRefused, Goes, procVars, cardVars
<1>4. ASSUME NEW p \in Procs, AdoptPublishes(p) PROVE LInv'
  BY <1>4 DEF AdoptPublishes, Goes, procVars, cardVars
<1>5. ASSUME NEW p \in Procs, AdoptUnrecorded(p) PROVE LInv'
  BY <1>5 DEF AdoptUnrecorded, Goes, procVars, cardVars
<1>6. ASSUME NEW p \in Procs, DisplaceAttachFails(p) PROVE LInv'
  BY <1>6 DEF DisplaceAttachFails, Goes, procVars, cardVars
<1>7. ASSUME NEW p \in Procs, DisplaceStops(p) PROVE LInv'
  BY <1>7 DEF DisplaceStops, Goes, StopsGroup, procVars, SetSvc
<1>8. ASSUME NEW p \in Procs, DisplacedEndpointGone(p) PROVE LInv'
  BY <1>8 DEF DisplacedEndpointGone, Goes, procVars, cardVars
<1>9. ASSUME NEW p \in Procs, ProveLeaseFree(p) PROVE LInv'
  BY <1>9 DEF ProveLeaseFree, Goes, procVars, cardVars
<1>10. ASSUME NEW p \in Procs, DisplaceFails(p) PROVE LInv'
  BY <1>10 DEF DisplaceFails, Goes, Owns, procVars
<1>11. ASSUME NEW p \in Procs, RemoveHandOff(p) PROVE LInv'
  BY <1>11 DEF RemoveHandOff, Goes, Owns, procVars
<1>12. ASSUME NEW p \in Procs, Acquire(p) PROVE LInv'
  BY <1>12 DEF Acquire, Goes, procVars
<1>13. ASSUME NEW p \in Procs, StartRefused(p) PROVE LInv'
  BY <1>13 DEF StartRefused, Goes, procVars, cardVars
<1>14. ASSUME NEW p \in Procs, EndpointUnoccupied(p) PROVE LInv'
  BY <1>14 DEF EndpointUnoccupied, Goes, procVars, cardVars
<1>15. ASSUME NEW p \in Procs, LaunchRefused(p) PROVE LInv'
  BY <1>15 DEF LaunchRefused, Goes, Release, procVars
<1>16. ASSUME NEW p \in Procs, NEW s \in Services, Launch(p, s) PROVE LInv'
  <2>1. InvTurn'
    BY <1>16 DEF Launch, Goes, Owns, procVars
  <2>2. InvRoles'
    BY <1>16 DEF Launch, Goes, Owns, procVars
  <2>3. InvUnnamed'
    BY <1>16 DEF Launch, Goes, Owns, procVars
  <2>4. InvRecord'
    BY <1>16 DEF Launch, Goes, Owns, procVars
  <2>5. InvHandle'
    BY <1>16 DEF Launch, Goes, Owns, procVars
  <2>6. InvCleared'
    BY <1>16 DEF Launch, Goes, Owns, procVars
  <2>7. NothingLeftRunning'
    BY <1>16 DEF Launch, Goes, Owns, procVars
  <2> QED
    BY <2>1, <2>2, <2>3, <2>4, <2>5, <2>6, <2>7
<1>17. ASSUME NEW p \in Procs, Ready(p) PROVE LInv'
  BY <1>17 DEF Ready, Goes, procVars, cardVars
<1>18. ASSUME NEW p \in Procs, StartUndone(p) PROVE LInv'
  BY <1>18 DEF StartUndone, Goes, procVars, cardVars
<1>19. ASSUME NEW p \in Procs, StopProcess(p) PROVE LInv'
  BY <1>19 DEF StopProcess, Goes, StopsGroup, procVars, SetSvc
<1>20. ASSUME NEW p \in Procs, ReleaseResidency(p) PROVE LInv'
  BY <1>20 DEF ReleaseResidency, Goes, Owns, Release, procVars
<1>21. ASSUME NEW p \in Procs, StopFails(p) PROVE LInv'
  BY <1>21 DEF StopFails, Goes, procVars
<1>22. ASSUME NEW p \in Procs, StartFinishes(p) PROVE LInv'
  BY <1>22 DEF StartFinishes, Goes, cardVars
<1>23. ASSUME NEW p \in Procs, StartEarly(p) PROVE LInv'
  BY <1>23 DEF StartEarly, Goes, cardVars
<1>24. ASSUME NEW p \in Procs, StartNow(p) PROVE LInv'
  BY <1>24 DEF StartNow, Goes, MainTo, cardVars
<1>25. ASSUME NEW p \in Procs, NothingToSend(p) PROVE LInv'
  BY <1>25 DEF NothingToSend, MainTo, mgrVars, cardVars
<1>26. ASSUME NEW p \in Procs, PreparationFails(p) PROVE LInv'
  BY <1>26 DEF PreparationFails, MainTo, mgrVars, cardVars
<1>27. ASSUME NEW p \in Procs, Join(p) PROVE LInv'
  BY <1>27 DEF Join, MainTo, mgrVars, cardVars
<1>28. ASSUME NEW p \in Procs, StartReturned(p) PROVE LInv'
  BY <1>28 DEF StartReturned, MainTo, mgrVars, cardVars
<1>29. ASSUME NEW p \in Procs, ReadingEnds(p) PROVE LInv'
  BY <1>29 DEF ReadingEnds, MainTo, mgrVars, cardVars
<1>30. ASSUME NEW p \in Procs, CloseAbandons(p) PROVE LInv'
  BY <1>30 DEF CloseAbandons, MainTo, mgrVars, cardVars
<1>31. ASSUME NEW p \in Procs, CloseStops(p) PROVE LInv'
  BY <1>31 DEF CloseStops, Goes, MainTo, cardVars
<1>32. ASSUME NEW p \in Procs, CloseUnstarted(p) PROVE LInv'
  BY <1>32 DEF CloseUnstarted, MainTo, mgrVars, cardVars
<1>33. ASSUME NEW p \in Procs, Stopped(p) PROVE LInv'
  BY <1>33 DEF Stopped, MainTo, mgrVars, cardVars
<1>34. ASSUME NEW p \in Procs, Reclaim(p) PROVE LInv'
  BY <1>34 DEF Reclaim, Goes, MainTo, Owns
<1>35. ASSUME NEW p \in Procs, ReclaimFails(p) PROVE LInv'
  BY <1>35 DEF ReclaimFails, MainTo, mgrVars, cardVars
<1>36. ASSUME NEW p \in Procs, HandOffOpens(p) PROVE LInv'
  BY <1>36 DEF HandOffOpens, MainTo, mgrVars
<1>37. ASSUME NEW p \in Procs, HandOffWrites(p) PROVE LInv'
  BY <1>37 DEF HandOffWrites, MainTo, mgrVars
<1>38. ASSUME NEW p \in Procs, HandOffRelinquishes(p) PROVE LInv'
  BY <1>38 DEF HandOffRelinquishes, Goes, MainTo, Owns, Relinquish
<1>39. ASSUME NEW p \in Procs, Seal(p) PROVE LInv'
  BY <1>39 DEF Seal, MainTo, mgrVars, cardVars
<1>40. ASSUME NEW p \in Procs, Exit(p) PROVE LInv'
  <2>1. InvTurn'
    BY <1>40 DEF Exit, Ends, AtRest, Goes, MainTo, Owns, Relinquish
  <2>2. InvRoles'
    BY <1>40 DEF Exit, Ends, AtRest, Goes, MainTo, Owns, Relinquish
  <2>3. InvUnnamed'
    BY <1>40 DEF Exit, Ends, AtRest, Goes, MainTo, Owns, Relinquish
  <2>4. InvRecord'
    BY <1>40 DEF Exit, Ends, AtRest, Goes, MainTo, Owns, Relinquish
  <2>5. InvHandle'
    BY <1>40 DEF Exit, Ends, AtRest, Goes, MainTo, Owns, Relinquish
  <2>6. InvCleared'
    BY <1>40 DEF Exit, Ends, AtRest, Goes, MainTo, Owns, Relinquish
  <2>7. NothingLeftRunning'
    BY <1>40 DEF Exit, Ends, AtRest, Goes, MainTo, Owns, Relinquish
  <2> QED
    BY <2>1, <2>2, <2>3, <2>4, <2>5, <2>6, <2>7
<1>41. ASSUME NEW p \in Procs, Begin(p) PROVE LInv'
  BY <1>41 DEF Begin, MainTo, mgrVars, cardVars
<1>42. ASSUME NEW p \in Procs, Interrupt(p) PROVE LInv'
  BY <1>42 DEF Interrupt, MainTo, mgrVars, cardVars
<1>43. ASSUME NEW p \in Procs, Kill(p) PROVE LInv'
  BY <1>43 DEF Kill, Ends, Goes, MainTo, Owns, Relinquish
<1>44. ASSUME NEW s \in Services, Loads(s) PROVE LInv'
  BY <1>44 DEF Loads, procVars, mgrVars
<1>45. ASSUME NEW s \in Services, Falls(s) PROVE LInv'
  BY <1>45 DEF Falls, SetSvc, Less, procVars, mgrVars
<1>46. ASSUME UNCHANGED vars PROVE LInv'
  BY <1>46 DEF vars
<1> QED
  BY <1>1, <1>2, <1>3, <1>4, <1>5, <1>6, <1>7, <1>8, <1>9, <1>10, <1>11,
     <1>12, <1>13, <1>14, <1>15, <1>16, <1>17, <1>18, <1>19, <1>20, <1>21,
     <1>22, <1>23, <1>24, <1>25, <1>26, <1>27, <1>28, <1>29, <1>30, <1>31,
     <1>32, <1>33, <1>34, <1>35, <1>36, <1>37, <1>38, <1>39, <1>40, <1>41,
     <1>42, <1>43, <1>44, <1>45, <1>46
     DEF Next, MgrStep, MainStep

-----------------------------------------------------------------------------
\* The first state.
LEMMA InitOK == Init => IInv /\ LInv
<1> SUFFICES ASSUME Init PROVE IInv /\ LInv
  OBVIOUS
<1> USE CardAssumption DEF Init, None, Procs, Pipeline
<1>1. TypeOK
  BY DEF TypeOK, MainStates, MgrStates
<1>2. InvNamed /\ InvLaunched /\ InvHeld /\ InvOneEngine
  BY DEF InvNamed, NamesEngine, InvLaunched, InvHeld, InvOneEngine, Running
<1>3. InvAlone /\ InvShared /\ InvStopped
  BY DEF InvAlone, InvShared, Serving, InvStopped
<1>4. InvTurn /\ InvRoles /\ InvUnnamed /\ InvRecord
  BY DEF InvTurn, Active, InvRoles, InvUnnamed, InvRecord
<1>5. InvHandle /\ InvCleared /\ NothingLeftRunning
  BY DEF InvHandle, InStart, InvCleared, NothingLeftRunning, Running, TypeOK
<1> QED
  BY <1>1, <1>2, <1>3, <1>4, <1>5 DEF IInv, LInv

\* Every state has the types, and the strengthening.
LEMMA Resident == Spec => []IInv
<1>1. Init => IInv
  BY InitOK
<1>2. IInv /\ [Next]_vars => IInv'
  BY SafeStep
<1> QED
  BY <1>1, <1>2, PTL DEF Spec

\* Every state of the managers, the stages and the card is well typed.
THEOREM TypeCorrect == Spec => []TypeOK
<1>1. IInv => TypeOK
  BY DEF IInv
<1> QED
  BY <1>1, Resident, PTL

\* The single-resident rule holds for any processes, engines and interleaving
\* of starts, kills, take-overs and failed stops: a running engine has the
\* lease open, and one engine at a time can.
THEOREM NeverCoResident == Spec => []OneOnTheCard
<1>1. IInv => OneOnTheCard
  BY DEF IInv, InvHeld, InvOneEngine, OneOnTheCard
<1> QED
  BY <1>1, Resident, PTL

\* What both strengthenings say together.
LEMMA Accounted == Spec => [](IInv /\ LInv)
<1>1. Init => IInv /\ LInv
  BY InitOK
<1>2. (IInv /\ LInv) /\ [Next]_vars => (IInv /\ LInv)'
  BY SafeStep, LeftStep
<1> QED
  BY <1>1, <1>2, PTL DEF Spec

\* Wherever its start and its main thread were when it gave up, a process leaves
\* nothing running but what a record names, or what history says was left: by
\* a kill, by a stop that was not verified, or by a Coniector interrupted while
\* it joined a start it had forgotten (background_start.py, 4b run.py close).
THEOREM NothingIsLeft == Spec => []NothingLeftRunning
<1>1. IInv /\ LInv => NothingLeftRunning
  BY DEF LInv
<1> QED
  BY <1>1, Accounted, PTL

\* A Coniector that reaches its seal has cleared what was handed to it, whoever
\* was interrupted before it: what it may seal beside is the bootstrap's engine,
\* or one that history says was left.
THEOREM ConiectorClears == Spec => []ConiectorSealsClean
<1>1. IInv /\ LInv => ConiectorSealsClean
  <2> SUFFICES ASSUME IInv, LInv, NEW c \in Coniectors, main[c] = "sealing"
               PROVE  /\ record = None
                      /\ \A s \in Services : Running(s) /\ s \notin loose =>
                            \E p \in Preflights : own[p] = s
    BY DEF ConiectorSealsClean
  <2>1. record = None
    BY DEF LInv, InvCleared
  <2>2. own[c] = None
    BY DEF LInv, InvHandle, InvUnnamed, Procs, Pipeline
  <2>3. ASSUME NEW s \in Services, Running(s), s \notin loose
        PROVE  \E p \in Preflights : own[p] = s
    <3>1. record # s
      BY <2>1, CardAssumption DEF None
    <3>2. PICK p \in Procs : ~Over(p) /\ own[p] = s
      BY <2>3, <3>1 DEF LInv, NothingLeftRunning
    <3>3. p # c
      BY <2>2, <3>2, CardAssumption DEF None
    <3>4. Active(p)
      BY <3>2, CardAssumption DEF LInv, InvTurn, InvUnnamed, Active, Over, None
    <3>5. p \notin Pipeline
      BY <3>3, <3>4 DEF LInv, InvTurn, Active, Pipeline
    <3> QED
      BY <3>2, <3>5 DEF Procs
  <2> QED
    BY <2>1, <2>3
<1> QED
  BY <1>1, Accounted, PTL
=============================================================================
