----------------------------- MODULE PodProofs -----------------------------
(***************************************************************************)
(* What is proved of a rented pod, from outside and from inside.           *)
(*                                                                         *)
(* Of PodLease, for every set of leases and every bound: type correctness, *)
(* the safety of a recorded close, one pod at a time, that a fresh owner   *)
(* is left alone, and that the leases implement the account of PaidPods.   *)
(* The store's methods and the writes of the close loop nest one function  *)
(* or record in another.  They are read once, in StoreRewrites and         *)
(* ShutRewrites, and stay unexpanded in the proofs about the actions.      *)
(*                                                                         *)
(* Of PodGuard, for every ladder, limit, window and number of pages, runs  *)
(* and faults: type correctness, and that the ladder deletes no pod under  *)
(* a run that reports and is not stalled.                                  *)
(***************************************************************************)
EXTENDS PodLease, PodGuard, TLAPS

Record == [phase : Phases, owner : Nat, beat : Beats, armed : BOOLEAN, attempts : Nat]
LeaseTyped == lease \in [Leases -> Record]

\* g is lease rewritten at l only, with this phase and this owner.
Rewrites(g, l, phase, owner) ==
    /\ g \in [Leases -> Record]
    /\ \A k \in Leases : k # l => g[k] = lease[k]
    /\ g[l].phase = phase /\ g[l].owner = owner

\* A heartbeat written now is one of the heartbeats.
LEMMA BeatTyped == ASSUME NEW l PROVE BeatNow(l) \in Beats
  BY DEF BeatNow, Beats

\* What every method of the store makes of the record it rewrites.
LEMMA StoreRewrites ==
    ASSUME LeaseTyped, NEW l \in Leases
    PROVE  /\ Rewrites(BindPod(l), l, "active", lease[l].owner)
           /\ Rewrites(RecordControllerArming(l), l, lease[l].phase, lease[l].owner)
           /\ Rewrites(NotePendingRecoveryAttempt(l), l, lease[l].phase, lease[l].owner)
           /\ Rewrites(Heartbeat(l), l, lease[l].phase, lease[l].owner)
           /\ \A t \in Nat : Rewrites(ClaimIfOrphan(l, t), l, lease[l].phase, t)
           /\ \A v \in BOOLEAN :
                 Rewrites(RecordClose(l, v), l,
                          IF v THEN "closed-verified" ELSE "close-unverified", lease[l].owner)
<1> USE BeatTyped DEF LeaseTyped, Record, Rewrites, Phases
<1>1. Rewrites(BindPod(l), l, "active", lease[l].owner)
  BY DEF BindPod
<1>2. Rewrites(RecordControllerArming(l), l, lease[l].phase, lease[l].owner)
  BY DEF RecordControllerArming
<1>3. Rewrites(NotePendingRecoveryAttempt(l), l, lease[l].phase, lease[l].owner)
  <2>1. lease[l] \in Record /\ lease[l].attempts + 1 \in Nat
    OBVIOUS
  <2>2. NotePendingRecoveryAttempt(l) =
          [lease EXCEPT ![l] = [@ EXCEPT !.attempts = lease[l].attempts + 1, !.beat = BeatNow(l)]]
    BY DEF NotePendingRecoveryAttempt
  <2>3. NotePendingRecoveryAttempt(l)[l] =
          [lease[l] EXCEPT !.attempts = lease[l].attempts + 1, !.beat = BeatNow(l)]
    BY <2>2
  <2>4. NotePendingRecoveryAttempt(l)[l] \in Record
    <3>1. ASSUME NEW r \in Record, NEW n \in Nat, NEW b \in Beats
          PROVE  [r EXCEPT !.attempts = n, !.beat = b] \in Record
      BY DEF Record
    <3> QED
      BY ONLY <2>1, <2>3, <3>1, BeatTyped
  <2> QED
    BY <2>1, <2>2, <2>3, <2>4
<1>4. Rewrites(Heartbeat(l), l, lease[l].phase, lease[l].owner)
  BY DEF Heartbeat
<1>5. ASSUME NEW t \in Nat PROVE Rewrites(ClaimIfOrphan(l, t), l, lease[l].phase, t)
  BY DEF ClaimIfOrphan
<1>6. ASSUME NEW v \in BOOLEAN
      PROVE  Rewrites(RecordClose(l, v), l,
                      IF v THEN "closed-verified" ELSE "close-unverified", lease[l].owner)
  BY DEF RecordClose, Beats
<1> QED
  BY <1>1, <1>2, <1>3, <1>4, <1>5, <1>6

ProviderTyped == pod \in [Leases -> Pods] /\ dying \in [Leases -> BOOLEAN]
                 /\ expired \in [Leases -> BOOLEAN]
LaunchTyped == gate \in Leases \cup {NoOne} /\ launch \in [Leases -> LaunchPlaces]
WatchTyped ==
    /\ child \in [Leases -> BOOLEAN]
    /\ watch \in [Leases -> WatchPlaces]
    /\ token \in [Leases -> Nat]
    /\ ident \in [Leases -> Nat]
    /\ minted \in [Leases -> Nat]
    /\ starts \in [Leases -> Nat]
    /\ grace \in [Leases -> BOOLEAN]
    /\ op \in [Leases -> Nat]
TimerTyped ==
    /\ timer \in [Leases -> TimerPlaces]
    /\ tries \in [Leases -> Nat]
    /\ report \in [Leases -> BOOLEAN]
ShutTyped == shut \in [Leases -> [Closers -> ShutPlaces]]

\* A step of the close loop moves one closer of one lease.
LEMMA ShutRewrites ==
    ASSUME ShutTyped, NEW l \in Leases, NEW c \in Closers, NEW p \in ShutPlaces, SetShut(l, c, p)
    PROVE  /\ ShutTyped'
           /\ \A k \in Leases, d \in Closers :
                 shut'[k][d] = IF k = l /\ d = c THEN p ELSE shut[k][d]
  BY DEF ShutTyped, SetShut

Typed == /\ LeaseTyped /\ ProviderTyped /\ LaunchTyped
         /\ WatchTyped /\ TimerTyped /\ ShutTyped

\* The parts are TypeOK.
LEMMA TypeParts == TypeOK <=> Typed
  BY DEF TypeOK, Typed, LeaseTyped, Record, ProviderTyped, LaunchTyped, WatchTyped,
         TimerTyped, ShutTyped

\* The ways the lock's holder goes on keep its variables typed.
LEMMA WatchMoves ==
    ASSUME WatchTyped, NEW l \in Leases
    PROVE  /\ \A tell \in BOOLEAN : WatchEnds(l, tell) => WatchTyped'
           /\ \A place \in WatchPlaces : WatchGoes(l, place) => WatchTyped'
           /\ \A past \in BOOLEAN : WatchTicksOn(l, past) => WatchTyped'
           /\ WatchBusy(l) => WatchTyped'
<1>1. ASSUME NEW tell \in BOOLEAN, WatchEnds(l, tell) PROVE WatchTyped'
  BY <1>1 DEF WatchTyped, WatchEnds, WatchTo, WatchPlaces
<1>2. ASSUME NEW place \in WatchPlaces, WatchGoes(l, place) PROVE WatchTyped'
  BY <1>2 DEF WatchTyped, WatchGoes, WatchTo
<1>3. ASSUME NEW past \in BOOLEAN, WatchTicksOn(l, past) PROVE WatchTyped'
  BY <1>3 DEF WatchTyped, WatchTicksOn, WatchTo, WatchPlaces
<1> QED
  BY <1>1, <1>2, <1>3 DEF WatchBusy

\* The initial state is typed.
LEMMA TypeInit == Init => Typed
  BY LeaseAssumption
  DEF Init, Typed, LeaseTyped, Record, ProviderTyped, LaunchTyped, WatchTyped, TimerTyped,
      ShutTyped, Phases, Beats, Pods, LaunchPlaces, WatchPlaces, TimerPlaces, ShutPlaces,
      NoLease, Launcher

\* Every step keeps the types.
LEMMA TypeStep == Typed /\ [Next]_vars => Typed'
<1> SUFFICES ASSUME Typed, [Next]_vars PROVE Typed'
  OBVIOUS
<1> USE LeaseAssumption
    DEF Typed, Closers, Launcher, NoOne, podVars, launchVars, watchVars, timerVars
<1>1. ASSUME NEW l \in Leases, LaunchGate(l) PROVE Typed'
  BY <1>1
  DEF LaunchGate, LaunchTo, LeaseTyped, ProviderTyped, LaunchTyped, TimerTyped, ShutPlaces,
      WatchTyped, WatchPlaces, ShutTyped, Pods, LaunchPlaces, TimerPlaces, Beats, Phases,
      Record, NewLease
<1>2. ASSUME NEW l \in Leases, LaunchRefused(l) PROVE Typed'
  BY <1>2
  DEF LaunchRefused, LaunchTo, LeaseTyped, ProviderTyped, LaunchTyped, TimerTyped,
      ShutPlaces, WatchTyped, WatchPlaces, ShutTyped, Pods, LaunchPlaces, TimerPlaces,
      Beats, Phases, Record, NewLease
<1>3. ASSUME NEW l \in Leases, LaunchClear(l) PROVE Typed'
  BY <1>3
  DEF LaunchClear, LaunchTo, LeaseTyped, ProviderTyped, LaunchTyped, TimerTyped,
      ShutPlaces, WatchTyped, WatchPlaces, ShutTyped, Pods, LaunchPlaces, TimerPlaces,
      Beats, Phases, Record, NewLease
<1>4. ASSUME NEW l \in Leases, LaunchReserve(l) PROVE Typed'
  BY <1>4
  DEF LaunchReserve, NewLease, LaunchTo, LeaseTyped, ProviderTyped, LaunchTyped,
      TimerTyped, ShutPlaces, WatchTyped, WatchPlaces, ShutTyped, Pods, LaunchPlaces,
      TimerPlaces, Beats, Phases, Record
<1>5. ASSUME NEW l \in Leases, LaunchAdopt(l) PROVE Typed'
  BY <1>5
  DEF LaunchAdopt, NewLease, LaunchTo, LeaseTyped, ProviderTyped, LaunchTyped, TimerTyped,
      ShutPlaces, WatchTyped, WatchPlaces, ShutTyped, Pods, LaunchPlaces, TimerPlaces,
      Beats, Phases, Record
<1>6. ASSUME NEW l \in Leases, LaunchPost(l) PROVE Typed'
  BY <1>6
  DEF LaunchPost, LaunchTo, LeaseTyped, ProviderTyped, LaunchTyped, TimerTyped, ShutPlaces,
      WatchTyped, WatchPlaces, ShutTyped, Pods, LaunchPlaces, TimerPlaces, Beats, Phases,
      Record, NewLease
<1>7. ASSUME NEW l \in Leases, LaunchCreateFails(l) PROVE Typed'
  BY <1>7
  DEF LaunchCreateFails, LaunchTo, LeaseTyped, ProviderTyped, LaunchTyped, TimerTyped,
      ShutPlaces, WatchTyped, WatchPlaces, ShutTyped, Pods, LaunchPlaces, TimerPlaces,
      Beats, Phases, Record, NewLease
<1>8. ASSUME NEW l \in Leases, LaunchCreateReturns(l) PROVE Typed'
  BY <1>8
  DEF LaunchCreateReturns, LaunchTo, LeaseTyped, ProviderTyped, LaunchTyped, TimerTyped,
      ShutPlaces, WatchTyped, WatchPlaces, ShutTyped, Pods, LaunchPlaces, TimerPlaces,
      Beats, Phases, Record, NewLease
<1>9. ASSUME NEW l \in Leases, LaunchBind(l) PROVE Typed'
  <2>1. ProviderTyped' /\ WatchTyped' /\ TimerTyped'
    BY <1>9
    DEF LaunchBind, LaunchTo, LaunchCloses, BeginClose, ProviderTyped, WatchTyped,
        TimerTyped
  <2>2. LeaseTyped'
    BY <1>9, StoreRewrites
    DEF LaunchBind, LaunchTo, LaunchCloses, BeginClose, Rewrites, LeaseTyped, WatchTyped
  <2>3. LaunchTyped'
    BY <1>9 DEF LaunchBind, LaunchTo, LaunchCloses, BeginClose, LaunchPlaces, LaunchTyped
  <2>4. ShutTyped'
    BY <1>9, ShutRewrites
    DEF LaunchBind, LaunchTo, LaunchCloses, BeginClose, ShutPlaces, ShutTyped
  <2> QED
    BY <2>1, <2>2, <2>3, <2>4
<1>10. ASSUME NEW l \in Leases, LaunchCheck(l) PROVE Typed'
  <2>1. LeaseTyped' /\ ProviderTyped' /\ WatchTyped' /\ TimerTyped'
    BY <1>10
    DEF LaunchCheck, LaunchTo, LaunchCloses, BeginClose, LeaseTyped, ProviderTyped,
        WatchTyped, TimerTyped
  <2>2. LaunchTyped'
    BY <1>10 DEF LaunchCheck, LaunchTo, LaunchCloses, BeginClose, LaunchPlaces, LaunchTyped
  <2>3. ShutTyped'
    BY <1>10, ShutRewrites
    DEF LaunchCheck, LaunchTo, LaunchCloses, BeginClose, ShutPlaces, ShutTyped
  <2> QED
    BY <2>1, <2>2, <2>3
<1>11. ASSUME NEW l \in Leases, LaunchArm(l) PROVE Typed'
  <2>1. LeaseTyped' /\ ProviderTyped' /\ TimerTyped'
    BY <1>11
    DEF LaunchArm, LaunchTo, LaunchCloses, BeginClose, LeaseTyped, ProviderTyped,
        TimerTyped
  <2>2. LaunchTyped'
    BY <1>11 DEF LaunchArm, LaunchTo, LaunchCloses, BeginClose, LaunchPlaces, LaunchTyped
  <2>3. WatchTyped'
    <3>1. child' \in [Leases -> BOOLEAN]
      BY <1>11 DEF LaunchArm, LaunchTo, LaunchCloses, BeginClose, WatchPlaces, WatchTyped
    <3>2. watch' \in [Leases -> WatchPlaces]
      BY <1>11 DEF LaunchArm, LaunchTo, LaunchCloses, BeginClose, WatchPlaces, WatchTyped
    <3>3. token' \in [Leases -> Nat]
      BY <1>11 DEF LaunchArm, LaunchTo, LaunchCloses, BeginClose, WatchPlaces, WatchTyped
    <3>4. ident' \in [Leases -> Nat]
      BY <1>11 DEF LaunchArm, LaunchTo, LaunchCloses, BeginClose, WatchPlaces, WatchTyped
    <3>5. grace' \in [Leases -> BOOLEAN]
      BY <1>11 DEF LaunchArm, LaunchTo, LaunchCloses, BeginClose, WatchPlaces, WatchTyped
    <3> QED
      BY <1>11, <3>1, <3>2, <3>3, <3>4, <3>5
    DEF LaunchArm, LaunchTo, LaunchCloses, BeginClose, WatchPlaces, WatchTyped
  <2>4. ShutTyped'
    BY <1>11, ShutRewrites
    DEF LaunchArm, LaunchTo, LaunchCloses, BeginClose, ShutPlaces, ShutTyped
  <2> QED
    BY <2>1, <2>2, <2>3, <2>4
<1>12. ASSUME NEW l \in Leases, LaunchBeat(l) PROVE Typed'
  BY <1>12, StoreRewrites
  DEF LaunchBeat, IsActive, LeaseTyped, ProviderTyped, LaunchTyped, TimerTyped, ShutPlaces,
      Rewrites, WatchTyped, WatchPlaces, ShutTyped, Pods, LaunchPlaces, TimerPlaces, Beats,
      Phases, Record, NewLease
<1>13. ASSUME NEW l \in Leases, LaunchObserve(l) PROVE Typed'
  BY <1>13
  DEF LaunchObserve, LaunchTo, LeaseTyped, ProviderTyped, LaunchTyped, TimerTyped,
      ShutPlaces, WatchTyped, WatchPlaces, ShutTyped, Pods, LaunchPlaces, TimerPlaces,
      Beats, Phases, Record, NewLease
<1>14. ASSUME NEW l \in Leases, LaunchArmingFails(l) PROVE Typed'
  BY <1>14, ShutRewrites
  DEF LaunchArmingFails, LaunchCloses, BeginClose, LaunchTo, LeaseTyped, ProviderTyped,
      LaunchTyped, TimerTyped, ShutPlaces, WatchTyped, WatchPlaces, Pods, LaunchPlaces,
      TimerPlaces, Beats, Phases, Record, NewLease
<1>15. ASSUME NEW l \in Leases, LaunchRecordArming(l) PROVE Typed'
  <2>1. ProviderTyped' /\ WatchTyped' /\ TimerTyped'
    BY <1>15
    DEF LaunchRecordArming, LaunchTo, LaunchCloses, BeginClose, ProviderTyped, WatchTyped,
        TimerTyped
  <2>2. LeaseTyped'
    BY <1>15, StoreRewrites
    DEF LaunchRecordArming, LaunchTo, LaunchCloses, BeginClose, Rewrites, LeaseTyped,
        WatchTyped
  <2>3. LaunchTyped'
    BY <1>15
    DEF LaunchRecordArming, LaunchTo, LaunchCloses, BeginClose, LaunchPlaces, LaunchTyped
  <2>4. ShutTyped'
    BY <1>15, ShutRewrites
    DEF LaunchRecordArming, LaunchTo, LaunchCloses, BeginClose, ShutPlaces, ShutTyped
  <2> QED
    BY <2>1, <2>2, <2>3, <2>4
<1>16. ASSUME NEW l \in Leases, LaunchRecordClose(l) PROVE Typed'
  BY <1>16, StoreRewrites, ShutRewrites
  DEF LaunchRecordClose, LaunchTo, LeaseTyped, ProviderTyped, LaunchTyped, TimerTyped,
      ShutPlaces, Rewrites, WatchTyped, WatchPlaces, Pods, LaunchPlaces, TimerPlaces,
      Beats, Phases, Record, NewLease
<1>17. ASSUME NEW l \in Leases, TickTerminal(l) PROVE Typed'
  BY <1>17, WatchMoves
  DEF TickTerminal, IsActive, LeaseTyped, ProviderTyped, LaunchTyped, TimerTyped,
      ShutPlaces, WatchPlaces, ShutTyped, Pods, LaunchPlaces, TimerPlaces, Beats, Phases,
      Record, NewLease
<1>18. ASSUME NEW l \in Leases, TickBusy(l) PROVE Typed'
  BY <1>18, WatchMoves
  DEF TickBusy, IsActive, LeaseTyped, ProviderTyped, LaunchTyped, TimerTyped, ShutPlaces,
      WatchPlaces, ShutTyped, Pods, LaunchPlaces, TimerPlaces, Beats, Phases, Record,
      NewLease
<1>19. ASSUME NEW l \in Leases, TickPending(l) PROVE Typed'
  BY <1>19, WatchMoves
  DEF TickPending, LeaseTyped, ProviderTyped, LaunchTyped, TimerTyped, ShutPlaces,
      WatchPlaces, ShutTyped, Pods, LaunchPlaces, TimerPlaces, Beats, Phases, Record,
      NewLease
<1>20. ASSUME NEW l \in Leases, TickOrphan(l) PROVE Typed'
  BY <1>20, WatchMoves
  DEF TickOrphan, LeaseTyped, ProviderTyped, LaunchTyped, TimerTyped, ShutPlaces,
      WatchPlaces, ShutTyped, Pods, LaunchPlaces, TimerPlaces, Beats, Phases, Record,
      NewLease
<1>21. ASSUME NEW l \in Leases, TickOwn(l) PROVE Typed'
  <2>1. LeaseTyped' /\ ProviderTyped' /\ LaunchTyped' /\ TimerTyped'
    BY <1>21 DEF TickOwn, BeginClose, LeaseTyped, ProviderTyped, LaunchTyped, TimerTyped
  <2>2. WatchTyped'
    BY <1>21, WatchMoves DEF TickOwn, BeginClose, WatchPlaces
  <2>3. ShutTyped'
    BY <1>21, ShutRewrites DEF TickOwn, BeginClose, ShutPlaces, ShutTyped
  <2> QED
    BY <2>1, <2>2, <2>3
<1>22. ASSUME NEW l \in Leases, WatchClaim(l) PROVE Typed'
  <2>1. ProviderTyped' /\ LaunchTyped' /\ TimerTyped'
    BY <1>22 DEF WatchClaim, IsActive, BeginClose, ProviderTyped, LaunchTyped, TimerTyped
  <2>2. LeaseTyped'
    <3>1. token[l] \in Nat
      BY DEF WatchTyped
    <3>2. ClaimIfOrphan(l, token[l]) \in [Leases -> Record]
      BY <3>1, StoreRewrites DEF Rewrites
    <3> QED
      BY <1>22, <3>2
    DEF WatchClaim, LeaseTyped
  <2>3. WatchTyped'
    BY <1>22, WatchMoves DEF WatchClaim, IsActive, BeginClose, WatchPlaces
  <2>4. ShutTyped'
    BY <1>22, ShutRewrites DEF WatchClaim, IsActive, BeginClose, ShutPlaces, ShutTyped
  <2> QED
    BY <2>1, <2>2, <2>3, <2>4
<1>23. ASSUME NEW l \in Leases, WatchNote(l) PROVE Typed'
  <2>1. ProviderTyped' /\ LaunchTyped' /\ TimerTyped' /\ ShutTyped'
    BY <1>23 DEF WatchNote, ProviderTyped, LaunchTyped, TimerTyped, ShutTyped
  <2>2. LeaseTyped'
    BY <1>23, StoreRewrites DEF WatchNote, Rewrites, LeaseTyped, WatchTyped
  <2>3. WatchTyped'
    BY <1>23, WatchMoves DEF WatchNote, WatchPlaces
  <2> QED
    BY <2>1, <2>2, <2>3
<1>24. ASSUME NEW l \in Leases, WatchRecover(l) PROVE Typed'
  BY <1>24, WatchMoves
  DEF WatchRecover, Live, LeaseTyped, ProviderTyped, LaunchTyped, TimerTyped, ShutPlaces,
      WatchPlaces, ShutTyped, Pods, LaunchPlaces, TimerPlaces, Beats, Phases, Record,
      NewLease
<1>25. ASSUME NEW l \in Leases, WatchBind(l) PROVE Typed'
  <2>1. ProviderTyped' /\ LaunchTyped' /\ TimerTyped'
    BY <1>25 DEF WatchBind, BeginClose, ProviderTyped, LaunchTyped, TimerTyped
  <2>2. LeaseTyped'
    BY <1>25, StoreRewrites DEF WatchBind, BeginClose, Rewrites, LeaseTyped, WatchTyped
  <2>3. WatchTyped'
    BY <1>25, WatchMoves DEF WatchBind, BeginClose, WatchPlaces
  <2>4. ShutTyped'
    BY <1>25, ShutRewrites DEF WatchBind, BeginClose, ShutPlaces, ShutTyped
  <2> QED
    BY <2>1, <2>2, <2>3, <2>4
<1>26. ASSUME NEW l \in Leases, WatchBeat(l) PROVE Typed'
  <2>1. LeaseTyped' /\ ProviderTyped' /\ LaunchTyped' /\ TimerTyped' /\ ShutTyped'
    BY <1>26 DEF WatchBeat, LeaseTyped, ProviderTyped, LaunchTyped, TimerTyped, ShutTyped
  <2>2. WatchTyped'
    BY <1>26, WatchMoves DEF WatchBeat, IsActive, WatchPlaces
  <2> QED
    BY <2>1, <2>2
<1>27. ASSUME NEW l \in Leases, WatchStatus(l) PROVE Typed'
  <2>1. LeaseTyped' /\ ProviderTyped' /\ LaunchTyped' /\ TimerTyped' /\ ShutTyped'
    BY <1>27 DEF WatchStatus, LeaseTyped, ProviderTyped, LaunchTyped, TimerTyped, ShutTyped
  <2>2. WatchTyped'
    BY <1>27, WatchMoves DEF WatchStatus, WatchPlaces
  <2> QED
    BY <2>1, <2>2
<1>28. ASSUME NEW l \in Leases, OperatorProbe(l) PROVE Typed'
  <2>1. LeaseTyped' /\ ProviderTyped' /\ LaunchTyped' /\ TimerTyped'
    BY <1>28
    DEF OperatorProbe, WatchCloses, BeginClose, LeaseTyped, ProviderTyped, LaunchTyped,
        TimerTyped
  <2>2. WatchTyped'
    BY <1>28, WatchMoves DEF OperatorProbe, WatchCloses, BeginClose, WatchPlaces
  <2>3. ShutTyped'
    BY <1>28, ShutRewrites DEF OperatorProbe, WatchCloses, BeginClose, ShutPlaces, ShutTyped
  <2> QED
    BY <2>1, <2>2, <2>3
<1>29. ASSUME NEW l \in Leases, WatchRecordClose(l) PROVE Typed'
  BY <1>29, StoreRewrites, WatchMoves, ShutRewrites
  DEF WatchRecordClose, LeaseTyped, ProviderTyped, LaunchTyped, TimerTyped, ShutPlaces,
      Rewrites, WatchPlaces, Pods, LaunchPlaces, TimerPlaces, Beats, Phases, Record,
      NewLease
<1>30. ASSUME NEW l \in Leases, TimerStart(l) PROVE Typed'
  <2>1. LeaseTyped' /\ ProviderTyped' /\ LaunchTyped' /\ WatchTyped'
    BY <1>30
    DEF TimerStart, Container, TimerTo, BeginClose, LeaseTyped, ProviderTyped, LaunchTyped,
        WatchTyped
  <2>2. TimerTyped'
    <3>1. timer' \in [Leases -> TimerPlaces]
      BY <1>30 DEF TimerStart, Container, TimerTo, BeginClose, TimerPlaces, TimerTyped
    <3>2. tries' \in [Leases -> Nat]
      BY <1>30 DEF TimerStart, Container, TimerTo, BeginClose, TimerPlaces, TimerTyped
    <3>3. report' \in [Leases -> BOOLEAN]
      BY <1>30 DEF TimerStart, Container, TimerTo, BeginClose, TimerPlaces, TimerTyped
    <3> QED
      BY <1>30, <3>1, <3>2, <3>3
    DEF TimerStart, Container, TimerTo, BeginClose, TimerPlaces, TimerTyped
  <2>3. ShutTyped'
    BY <1>30, ShutRewrites
    DEF TimerStart, Container, TimerTo, BeginClose, ShutPlaces, ShutTyped
  <2> QED
    BY <2>1, <2>2, <2>3
<1>31. ASSUME NEW l \in Leases, TimerExpires(l) PROVE Typed'
  BY <1>31, ShutRewrites
  DEF TimerExpires, TimerCloses, Container, TimerTo, BeginClose, LeaseTyped, ProviderTyped,
      LaunchTyped, TimerTyped, ShutPlaces, WatchTyped, WatchPlaces, Pods, LaunchPlaces,
      TimerPlaces, Beats, Phases, Record, NewLease
<1>32. ASSUME NEW l \in Leases, TimerRetry(l) PROVE Typed'
  BY <1>32, ShutRewrites
  DEF TimerRetry, Container, BeginClose, LeaseTyped, ProviderTyped, LaunchTyped,
      TimerTyped, ShutPlaces, WatchTyped, WatchPlaces, Pods, LaunchPlaces, TimerPlaces,
      Beats, Phases, Record, NewLease
<1>33. ASSUME NEW l \in Leases, TimerReports(l) PROVE Typed'
  <2>1. LeaseTyped' /\ ProviderTyped' /\ LaunchTyped' /\ WatchTyped'
    BY <1>33
    DEF TimerReports, Container, TimerTo, BeginClose, LeaseTyped, ProviderTyped,
        LaunchTyped, WatchTyped
  <2>2. TimerTyped'
    BY <1>33 DEF TimerReports, Container, TimerTo, BeginClose, TimerPlaces, TimerTyped
  <2>3. ShutTyped'
    BY <1>33, ShutRewrites
    DEF TimerReports, Container, TimerTo, BeginClose, ShutPlaces, ShutTyped
  <2> QED
    BY <2>1, <2>2, <2>3
<1>34. ASSUME NEW l \in Leases, LaunchCrash(l) PROVE Typed'
  BY <1>34, ShutRewrites
  DEF LaunchCrash, LaunchTo, LeaseTyped, ProviderTyped, LaunchTyped, TimerTyped,
      ShutPlaces, WatchTyped, WatchPlaces, Pods, LaunchPlaces, TimerPlaces, Beats, Phases,
      Record, NewLease
<1>35. ASSUME NEW l \in Leases, WatchCrash(l) PROVE Typed'
  BY <1>35, ShutRewrites
  DEF WatchCrash, WatchTo, LeaseTyped, ProviderTyped, LaunchTyped, TimerTyped, ShutPlaces,
      WatchTyped, WatchPlaces, Pods, LaunchPlaces, TimerPlaces, Beats, Phases, Record,
      NewLease
<1>36. ASSUME NEW l \in Leases, LoseIdentity(l) PROVE Typed'
  BY <1>36
  DEF LoseIdentity, IsActive, LeaseTyped, ProviderTyped, LaunchTyped, TimerTyped,
      ShutPlaces, WatchTyped, WatchPlaces, ShutTyped, Pods, LaunchPlaces, TimerPlaces,
      Beats, Phases, Record, NewLease
<1>37. ASSUME NEW l \in Leases, WatchStart(l) PROVE Typed'
  <2>1. LeaseTyped' /\ ProviderTyped' /\ LaunchTyped' /\ TimerTyped' /\ ShutTyped'
    BY <1>37
    DEF WatchStart, IsActive, WatchTo, LeaseTyped, ProviderTyped, LaunchTyped, TimerTyped,
        ShutTyped
  <2>2. WatchTyped'
    BY <1>37 DEF WatchStart, IsActive, WatchTo, WatchPlaces, WatchTyped
  <2> QED
    BY <2>1, <2>2
<1>38. ASSUME NEW l \in Leases, OperatorLoad(l) PROVE Typed'
  BY <1>38
  DEF OperatorLoad, LeaseTyped, ProviderTyped, LaunchTyped, TimerTyped, ShutPlaces,
      WatchTyped, WatchPlaces, ShutTyped, Pods, LaunchPlaces, TimerPlaces, Beats, Phases,
      Record, NewLease
<1>39. ASSUME NEW l \in Leases, OperatorLock(l) PROVE Typed'
  <2>1. LeaseTyped' /\ ProviderTyped' /\ LaunchTyped' /\ TimerTyped' /\ ShutTyped'
    BY <1>39
    DEF OperatorLock, WatchTo, LeaseTyped, ProviderTyped, LaunchTyped, TimerTyped,
        ShutTyped
  <2>2. WatchTyped'
    BY <1>39 DEF OperatorLock, WatchTo, WatchPlaces, WatchTyped
  <2> QED
    BY <2>1, <2>2
<1>40. ASSUME NEW l \in Leases, TimerChildExits(l) PROVE Typed'
  BY <1>40, ShutRewrites
  DEF TimerChildExits, TimerCloses, Container, TimerTo, BeginClose, LeaseTyped,
      ProviderTyped, LaunchTyped, TimerTyped, ShutPlaces, WatchTyped, WatchPlaces, Pods,
      LaunchPlaces, TimerPlaces, Beats, Phases, Record, NewLease
<1>41. ASSUME NEW l \in Leases, ProviderCreates(l) PROVE Typed'
  BY <1>41
  DEF ProviderCreates, LeaseTyped, ProviderTyped, LaunchTyped, TimerTyped, ShutPlaces,
      WatchTyped, WatchPlaces, ShutTyped, Pods, LaunchPlaces, TimerPlaces, Beats, Phases,
      Record, NewLease
<1>42. ASSUME NEW l \in Leases, ProviderDrops(l) PROVE Typed'
  BY <1>42
  DEF ProviderDrops, LeaseTyped, ProviderTyped, LaunchTyped, TimerTyped, ShutPlaces,
      WatchTyped, WatchPlaces, ShutTyped, Pods, LaunchPlaces, TimerPlaces, Beats, Phases,
      Record, NewLease
<1>43. ASSUME NEW l \in Leases, ProviderRuns(l) PROVE Typed'
  BY <1>43
  DEF ProviderRuns, LeaseTyped, ProviderTyped, LaunchTyped, TimerTyped, ShutPlaces,
      WatchTyped, WatchPlaces, ShutTyped, Pods, LaunchPlaces, TimerPlaces, Beats, Phases,
      Record, NewLease
<1>44. ASSUME NEW l \in Leases, ProviderExits(l) PROVE Typed'
  BY <1>44, ShutRewrites
  DEF ProviderExits, Container, ContainerEnds, LeaseTyped, ProviderTyped, LaunchTyped,
      TimerTyped, ShutPlaces, WatchTyped, WatchPlaces, Pods, LaunchPlaces, TimerPlaces,
      Beats, Phases, Record, NewLease
<1>45. ASSUME NEW l \in Leases, ProviderKills(l) PROVE Typed'
  BY <1>45, ShutRewrites
  DEF ProviderKills, Live, ContainerEnds, LeaseTyped, ProviderTyped, LaunchTyped,
      TimerTyped, ShutPlaces, WatchTyped, WatchPlaces, Pods, LaunchPlaces, TimerPlaces,
      Beats, Phases, Record, NewLease
<1>46. ASSUME NEW l \in Leases, Expire(l) PROVE Typed'
  BY <1>46
  DEF Expire, IsOpen, LeaseTyped, ProviderTyped, LaunchTyped, TimerTyped, ShutPlaces,
      WatchTyped, WatchPlaces, ShutTyped, Pods, LaunchPlaces, TimerPlaces, Beats, Phases,
      Record, NewLease
<1>47. ASSUME NEW l \in Leases, GoStale(l) PROVE Typed'
  <2>1. ProviderTyped' /\ LaunchTyped' /\ WatchTyped' /\ TimerTyped' /\ ShutTyped'
    BY <1>47
    DEF GoStale, IsActive, ProviderTyped, LaunchTyped, WatchTyped, TimerTyped, ShutTyped
  <2>2. LeaseTyped'
    BY <1>47 DEF GoStale, IsActive, Record, Phases, Beats, LeaseTyped
  <2> QED
    BY <2>1, <2>2
<1>48. ASSUME NEW l \in Leases, NEW c \in Closers, ShutTerminate(l, c) PROVE Typed'
  <2>1. LeaseTyped' /\ LaunchTyped' /\ WatchTyped' /\ TimerTyped'
    BY <1>48 DEF ShutTerminate, Live, LeaseTyped, LaunchTyped, WatchTyped, TimerTyped
  <2>2. ProviderTyped'
    BY <1>48 DEF ShutTerminate, Live, Pods, ProviderTyped
  <2>3. ShutTyped'
    BY <1>48, ShutRewrites DEF ShutTerminate, Live, ShutPlaces, ShutTyped
  <2> QED
    BY <2>1, <2>2, <2>3
<1>49. ASSUME NEW l \in Leases, NEW c \in Closers, ShutObserve(l, c) PROVE Typed'
  BY <1>49, ShutRewrites
  DEF ShutObserve, LeaseTyped, ProviderTyped, LaunchTyped, TimerTyped, ShutPlaces,
      WatchTyped, WatchPlaces, Pods, LaunchPlaces, TimerPlaces, Beats, Phases, Record,
      NewLease
<1>50. ASSUME NEW l \in Leases, NEW c \in Closers, ShutBill(l, c) PROVE Typed'
  BY <1>50, ShutRewrites
  DEF ShutBill, Captures, LeaseTyped, ProviderTyped, LaunchTyped, TimerTyped, ShutPlaces,
      WatchTyped, WatchPlaces, Pods, LaunchPlaces, TimerPlaces, Beats, Phases, Record,
      NewLease
<1>51. ASSUME NEW l \in Leases, NEW c \in Closers, ShutDeadline(l, c) PROVE Typed'
  BY <1>51, ShutRewrites
  DEF ShutDeadline, LeaseTyped, ProviderTyped, LaunchTyped, TimerTyped, ShutPlaces,
      WatchTyped, WatchPlaces, Pods, LaunchPlaces, TimerPlaces, Beats, Phases, Record,
      NewLease
<1>52. CASE UNCHANGED vars
  BY <1>52
  DEF LeaseTyped, ProviderTyped, LaunchTyped, WatchTyped, TimerTyped, ShutTyped, vars
<1>53. ASSUME NEW l \in Leases, WatchHeartbeat(l) PROVE Typed'
  <2>1. ProviderTyped' /\ LaunchTyped' /\ TimerTyped' /\ ShutTyped'
    BY <1>53 DEF WatchHeartbeat, ProviderTyped, LaunchTyped, TimerTyped, ShutTyped
  <2>2. LeaseTyped'
    <3>1. Rewrites(Heartbeat(l), l, lease[l].phase, lease[l].owner)
      BY StoreRewrites
    <3>2. lease' = Heartbeat(l) \/ lease' = lease
      BY <1>53 DEF WatchHeartbeat
    <3> QED
      BY <3>1, <3>2 DEF Rewrites, LeaseTyped
  <2>3. WatchTyped'
    BY <1>53, WatchMoves DEF WatchHeartbeat, WatchPlaces
  <2> QED
    BY <2>1, <2>2, <2>3
<1>54. ASSUME NEW l \in Leases, WatchUnfit(l) PROVE Typed'
  <2>1. LeaseTyped' /\ ProviderTyped' /\ LaunchTyped' /\ TimerTyped'
    BY <1>54
    DEF WatchUnfit, WatchCloses, BeginClose, LeaseTyped, ProviderTyped, LaunchTyped,
        TimerTyped
  <2>2. WatchTyped'
    BY <1>54, WatchMoves DEF WatchUnfit, WatchCloses, BeginClose, WatchPlaces
  <2>3. ShutTyped'
    BY <1>54, ShutRewrites DEF WatchUnfit, WatchCloses, BeginClose, ShutPlaces, ShutTyped
  <2> QED
    BY <2>1, <2>2, <2>3
<1> QED
  BY <1>1, <1>2, <1>3, <1>4, <1>5, <1>6, <1>7, <1>8, <1>9, <1>10, <1>11, <1>12, <1>13,
     <1>14, <1>15, <1>16, <1>17, <1>18, <1>19, <1>20, <1>21, <1>22, <1>23, <1>24, <1>25,
     <1>26, <1>27, <1>28, <1>29, <1>30, <1>31, <1>32, <1>33, <1>34, <1>35, <1>36, <1>37,
     <1>38, <1>39, <1>40, <1>41, <1>42, <1>43, <1>44, <1>45, <1>46, <1>47, <1>48, <1>49,
     <1>50, <1>51, <1>52, <1>53, <1>54
  DEF Next, LaunchSteps, WatchSteps, TimerSteps, ShutSteps, Environment

\* A step that changes no phase, and no owner.
SamePhases == \A k \in Leases : lease'[k].phase = lease[k].phase
SameOwners == \A k \in Leases : lease'[k].owner = lease[k].owner

\* Type correctness of every reachable state: places, counters and records.
THEOREM TypeCorrect == Spec => []TypeOK
<1>1. Init => Typed
  BY TypeInit
<1>2. Typed /\ [Next]_vars => Typed'
  BY TypeStep
<1> QED
  BY <1>1, <1>2, TypeParts, PTL DEF Spec

---------------------------------------------------------------------------
(* The inductive invariant.  A close loop runs only on a pod that existed, *)
(* so that absence seen by it means gone, and gone is for ever; a launch    *)
(* passed the gate alone.                                                  *)

\* The provider has made the pod.
Existed(l) == pod[l] \notin {"none", "posted"}

\* Where the launcher, the holder of the lock and the pod may be together.
InvLaunch(l) ==
    /\ launch[l] \in {"idle", "gated", "clear"} => lease[l].phase = "none"
    /\ launch[l] \notin {"idle", "over"} => gate = l
    /\ launch[l] = "clear" => \A m \in Leases : ~IsOpen(m)
    /\ launch[l] = "post" => pod[l] = "none" /\ lease[l].phase # "none"
    /\ launch[l] = "posting" => lease[l].phase # "none"
    /\ launch[l] \in {"bind", "check", "arm", "wait", "observed", "closing"} => Existed(l)

InvWatch(l) ==
    /\ watch[l] \in {"bind", "closing", "beat", "beating", "status-unarmed", "status-armed",
                     "unfit", "claim-orphan", "probe"} => Existed(l)
    /\ op[l] # 0 => Existed(l)
    /\ watch[l] = "claim-orphan" => lease[l].owner # token[l]

InvPod(l) ==
    /\ lease[l].phase \in {"active", "close-unverified", "closed-verified"} => Existed(l)
    /\ pod[l] # "none" => lease[l].phase # "none"
    /\ \A c \in Closers : shut[l][c] # "no" => Existed(l)
    /\ \A c \in Closers : shut[l][c] \in {"bill", "verified", "unverified"} => pod[l] = "gone"
    /\ lease[l].phase = "closed-verified" => pod[l] = "gone"

OneOpen == \A l, m \in Leases : IsOpen(l) /\ IsOpen(m) => l = m

IInv == /\ \A l \in Leases : InvLaunch(l) /\ InvWatch(l) /\ InvPod(l)
        /\ OneOpen

\* Every step keeps the inductive invariant.
LEMMA SafeStep == Typed /\ IInv /\ [Next]_vars => IInv'
<1> SUFFICES ASSUME Typed, IInv, [Next]_vars PROVE IInv'
  OBVIOUS
<1> USE LeaseAssumption
    DEF Typed, Closers, Launcher, NoOne, podVars, launchVars, watchVars, timerVars
<1>1. ASSUME NEW l \in Leases, LaunchGate(l) PROVE IInv'
  BY <1>1, SMTT(60)
  DEF LaunchGate, LaunchTo, ShutPlaces, IInv, InvLaunch, InvWatch, InvPod, OneOpen,
      Existed, IsOpen, LeaseTyped, ProviderTyped, LaunchTyped, WatchTyped, ShutTyped
<1>2. ASSUME NEW l \in Leases, LaunchRefused(l) PROVE IInv'
  BY <1>2, SMTT(60)
  DEF LaunchRefused, IsOpen, LaunchTo, ShutPlaces, IInv, InvLaunch,
      InvWatch, InvPod, OneOpen, Existed, LeaseTyped, ProviderTyped, LaunchTyped,
      WatchTyped, ShutTyped
<1>3. ASSUME NEW l \in Leases, LaunchClear(l) PROVE IInv'
  BY <1>3, SMTT(60)
  DEF LaunchClear, OpenLeaseRefusal, IsOpen, LaunchTo, ShutPlaces, IInv, InvLaunch,
      InvWatch, InvPod, OneOpen, Existed, LeaseTyped, ProviderTyped, LaunchTyped,
      WatchTyped, ShutTyped
<1>4. ASSUME NEW l \in Leases, LaunchReserve(l) PROVE IInv'
  BY <1>4, SMTT(60)
  DEF LaunchReserve, NewLease, LaunchTo, ShutPlaces, IInv, InvLaunch, InvWatch, InvPod,
      OneOpen, Existed, IsOpen, LeaseTyped, ProviderTyped, LaunchTyped, WatchTyped,
      ShutTyped
<1>5. ASSUME NEW l \in Leases, LaunchAdopt(l) PROVE IInv'
  BY <1>5, SMTT(60)
  DEF LaunchAdopt, NewLease, LaunchTo, ShutPlaces, IInv, InvLaunch, InvWatch, InvPod,
      OneOpen, Existed, IsOpen, LeaseTyped, ProviderTyped, LaunchTyped, WatchTyped,
      ShutTyped
<1>6. ASSUME NEW l \in Leases, LaunchPost(l) PROVE IInv'
  BY <1>6, SMTT(60)
  DEF LaunchPost, LaunchTo, ShutPlaces, IInv, InvLaunch, InvWatch, InvPod, OneOpen,
      Existed, IsOpen, LeaseTyped, ProviderTyped, LaunchTyped, WatchTyped, ShutTyped
<1>7. ASSUME NEW l \in Leases, LaunchCreateFails(l) PROVE IInv'
  BY <1>7, SMTT(60)
  DEF LaunchCreateFails, LaunchTo, ShutPlaces, IInv, InvLaunch, InvWatch, InvPod, OneOpen,
      Existed, IsOpen, LeaseTyped, ProviderTyped, LaunchTyped, WatchTyped, ShutTyped
<1>8. ASSUME NEW l \in Leases, LaunchCreateReturns(l) PROVE IInv'
  BY <1>8, SMTT(60)
  DEF LaunchCreateReturns, LaunchTo, ShutPlaces, IInv, InvLaunch, InvWatch, InvPod,
      OneOpen, Existed, IsOpen, LeaseTyped, ProviderTyped, LaunchTyped, WatchTyped,
      ShutTyped
<1>9. ASSUME NEW l \in Leases, LaunchBind(l) PROVE IInv'
  <2>1. Existed(l) /\ pod' = pod
    BY <1>9, SMTT(60) DEF LaunchBind, IInv, InvLaunch
  <2>2. CASE Owns(l, Launcher) /\ lease[l].phase = "pending-create"
    <3>1. Rewrites(lease', l, "active", lease[l].owner)
      BY <1>9, <2>2, StoreRewrites DEF LaunchBind
    <3>2. \A m \in Leases : /\ lease'[m].phase = IF m = l THEN "active" ELSE lease[m].phase
                            /\ lease'[m].owner = lease[m].owner
      BY <3>1 DEF Rewrites
    <3>3. UNCHANGED <<gate, watch, token, op, shut>> /\ LaunchTo(l, "check") /\ launch[l] = "bind"
      BY <1>9, <2>2 DEF LaunchBind
    <3> QED
      BY <2>1, <2>2, <3>2, <3>3, SMTT(60)
    DEF LaunchTo, LaunchTyped, IInv, InvLaunch, InvWatch, InvPod, OneOpen, Existed, IsOpen
  <2>3. CASE ~(Owns(l, Launcher) /\ lease[l].phase = "pending-create")
    BY <1>9, <2>1, <2>3, ShutRewrites, SMTT(60)
    DEF LaunchBind, LaunchTo, LaunchCloses, BeginClose, IInv, InvLaunch, InvWatch, InvPod,
        OneOpen, Existed, IsOpen, ShutPlaces, LeaseTyped, ProviderTyped, LaunchTyped,
        WatchTyped, ShutTyped
  <2> QED
    BY <2>2, <2>3
<1>10. ASSUME NEW l \in Leases, LaunchCheck(l) PROVE IInv'
  BY <1>10, ShutRewrites, SMTT(60)
  DEF LaunchCheck, LaunchTo, LaunchCloses, BeginClose, ShutPlaces, IInv, InvLaunch,
      InvWatch, InvPod, OneOpen, Existed, IsOpen, LeaseTyped, ProviderTyped, LaunchTyped,
      WatchTyped, ShutTyped
<1>11. ASSUME NEW l \in Leases, LaunchArm(l) PROVE IInv'
  BY <1>11, ShutRewrites, SMTT(60)
  DEF LaunchArm, LockFree, LaunchTo, LaunchCloses, BeginClose, ShutPlaces, IInv, InvLaunch,
      InvWatch, InvPod, OneOpen, Existed, IsOpen, LeaseTyped, ProviderTyped, LaunchTyped,
      WatchTyped, ShutTyped
<1>12. ASSUME NEW l \in Leases, LaunchBeat(l) PROVE IInv'
  <2>1. Rewrites(Heartbeat(l), l, lease[l].phase, lease[l].owner)
    BY StoreRewrites
  <2>2. lease' = Heartbeat(l) \/ lease' = lease
    BY <1>12
    DEF LaunchBeat
  <2>3. Rewrites(lease', l, lease[l].phase, lease[l].owner)
    BY <2>1, <2>2 DEF Rewrites, LeaseTyped
  <2>4. SamePhases /\ SameOwners
    BY <2>3 DEF Rewrites, SamePhases, SameOwners
  <2>5. UNCHANGED <<pod, gate, launch, watch, token, op, shut>>
    BY <1>12 DEF LaunchBeat
  <2> QED
    BY <2>4, <2>5, SMTT(60)
  DEF SamePhases, SameOwners, IInv, InvLaunch, InvWatch, InvPod, OneOpen, Existed, IsOpen
<1>13. ASSUME NEW l \in Leases, LaunchObserve(l) PROVE IInv'
  BY <1>13, SMTT(60)
  DEF LaunchObserve, LaunchTo, ShutPlaces, IInv, InvLaunch, InvWatch, InvPod, OneOpen,
      Existed, IsOpen, LeaseTyped, ProviderTyped, LaunchTyped, WatchTyped, ShutTyped
<1>14. ASSUME NEW l \in Leases, LaunchArmingFails(l) PROVE IInv'
  BY <1>14, ShutRewrites, SMTT(60)
  DEF LaunchArmingFails, LaunchCloses, BeginClose, LaunchTo, ShutPlaces, IInv, InvLaunch,
      InvWatch, InvPod, OneOpen, Existed, IsOpen, LeaseTyped, ProviderTyped, LaunchTyped,
      WatchTyped, ShutTyped
<1>15. ASSUME NEW l \in Leases, LaunchRecordArming(l) PROVE IInv'
  <2>1. Rewrites(RecordControllerArming(l), l, lease[l].phase, lease[l].owner)
    BY StoreRewrites
  <2>2. lease' = RecordControllerArming(l) \/ lease' = lease
    BY <1>15
    DEF LaunchRecordArming
  <2>3. Rewrites(lease', l, lease[l].phase, lease[l].owner)
    BY <2>1, <2>2 DEF Rewrites, LeaseTyped
  <2>4. SamePhases /\ SameOwners
    BY <2>3 DEF Rewrites, SamePhases, SameOwners
  <2>5. UNCHANGED <<pod, watch, token, op>> /\ gate = l
    BY <1>15, SMTT(60) DEF LaunchRecordArming, IInv, InvLaunch
  <2>6. /\ \A k \in Leases : k # l => launch'[k] = launch[k]
        /\ launch'[l] \in {"over", "closing"} /\ Existed(l)
        /\ launch'[l] # "over" => gate' = gate
    BY <1>15, SMTT(60) DEF LaunchRecordArming, LaunchTo, LaunchCloses, LaunchTyped, IInv, InvLaunch
  <2>7. UNCHANGED shut \/ SetShut(l, "launch", "terminate")
    BY <1>15 DEF LaunchRecordArming, LaunchCloses, BeginClose
  <2>8. /\ \A k \in Leases, d \in Closers : shut'[k][d] # shut[k][d] =>
              k = l /\ shut'[k][d] = "terminate"
    BY <1>15, <2>7, ShutRewrites DEF ShutPlaces
  <2> QED
    BY <2>4, <2>5, <2>6, <2>7, <2>8, SMTT(60)
  DEF SamePhases, SameOwners, IInv, InvLaunch, InvWatch, InvPod, OneOpen, Existed, IsOpen
<1>16. ASSUME NEW l \in Leases, LaunchRecordClose(l) PROVE IInv'
  <2> DEFINE verified == shut[l]["launch"] = "verified"
             phase == IF verified THEN "closed-verified" ELSE "close-unverified"
  <2>1. /\ shut[l]["launch"] # "no" /\ Existed(l) /\ pod' = pod
        /\ verified => pod[l] = "gone"
    BY <1>16 DEF LaunchRecordClose, Ended, IInv, InvPod
  <2>2. CASE lease' = RecordClose(l, verified) /\ IsOpen(l)
    <3>1. verified \in BOOLEAN
      OBVIOUS
    <3>2. Rewrites(RecordClose(l, verified), l, phase, lease[l].owner)
      BY <3>1, StoreRewrites
    <3>3. \A m \in Leases : /\ lease'[m].phase = IF m = l THEN phase ELSE lease[m].phase
                            /\ lease'[m].owner = lease[m].owner
      BY <2>2, <3>2
      DEF Rewrites
    <3>4. UNCHANGED <<watch, token, op>> /\ LaunchTo(l, "over") /\ gate' = NoOne /\ gate = l
      BY <1>16, SMTT(60) DEF LaunchRecordClose, IInv, InvLaunch
    <3>5. \A k \in Leases, d \in Closers :
             shut'[k][d] = IF k = l /\ d = "launch" THEN "no" ELSE shut[k][d]
      BY <1>16, ShutRewrites DEF LaunchRecordClose, ShutPlaces
    <3> QED
      BY <2>1, <2>2, <3>3, <3>4, <3>5, SMTT(60)
    DEF LaunchTo, LaunchTyped, IInv, InvLaunch, InvWatch, InvPod, OneOpen, Existed, IsOpen
  <2>3. CASE lease' = lease
    BY <1>16, <2>1, <2>3, ShutRewrites, SMTT(60)
    DEF LaunchRecordClose, LaunchTo, IInv, InvLaunch, InvWatch, InvPod, OneOpen, Existed,
        IsOpen, ShutPlaces, LeaseTyped, ProviderTyped, LaunchTyped, WatchTyped, ShutTyped
  <2> QED
    BY <1>16, <2>2, <2>3
  DEF LaunchRecordClose, MayRecordClose, Owns, IsOpen
<1>17. ASSUME NEW l \in Leases, TickTerminal(l) PROVE IInv'
  BY <1>17, SMTT(60)
  DEF TickTerminal, IsActive, WatchEnds, WatchTo, ShutPlaces, IInv, InvLaunch, InvWatch,
      InvPod, OneOpen, Existed, IsOpen, LeaseTyped, ProviderTyped, LaunchTyped, WatchTyped,
      ShutTyped
<1>18. ASSUME NEW l \in Leases, TickBusy(l) PROVE IInv'
  BY <1>18, SMTT(60)
  DEF TickBusy, IsActive, MayClaim, WatchBusy, WatchEnds, WatchTo, WatchTicksOn,
      ShutPlaces, IInv, InvLaunch, InvWatch, InvPod, OneOpen, Existed, IsOpen, LeaseTyped,
      ProviderTyped, LaunchTyped, WatchTyped, ShutTyped
<1>19. ASSUME NEW l \in Leases, TickPending(l) PROVE IInv'
  BY <1>19, SMTT(60)
  DEF TickPending, WatchEnds, WatchTo, MayClaim, WatchGoes, ShutPlaces, IInv, InvLaunch,
      InvWatch, InvPod, OneOpen, Existed, IsOpen, LeaseTyped, ProviderTyped, LaunchTyped,
      WatchTyped, ShutTyped
<1>20. ASSUME NEW l \in Leases, TickOrphan(l) PROVE IInv'
  BY <1>20, SMTT(60)
  DEF TickOrphan, WatchGoes, WatchTo, ShutPlaces, IInv, InvLaunch, InvWatch, InvPod,
      OneOpen, Existed, IsOpen, LeaseTyped, ProviderTyped, LaunchTyped, WatchTyped,
      ShutTyped
<1>21. ASSUME NEW l \in Leases, TickOwn(l) PROVE IInv'
  BY <1>21, ShutRewrites, SMTT(60)
  DEF TickOwn, CloseDue, WatchGoes, WatchTo, BeginClose, ShutPlaces, IInv, InvLaunch,
      InvWatch, InvPod, OneOpen, Existed, IsOpen, LeaseTyped, ProviderTyped, LaunchTyped,
      WatchTyped, ShutTyped
<1>22. ASSUME NEW l \in Leases, WatchClaim(l) PROVE IInv'
  <2>1. Rewrites(ClaimIfOrphan(l, token[l]), l, lease[l].phase, token[l])
    BY StoreRewrites DEF WatchTyped
  <2>2. lease' = ClaimIfOrphan(l, token[l]) \/ lease' = lease
    BY <1>22 DEF WatchClaim
  <2>3. SamePhases /\ \A m \in Leases : m # l => lease'[m].owner = lease[m].owner
    BY <2>1, <2>2 DEF Rewrites, SamePhases
  <2>4. UNCHANGED <<pod, gate, launch, op>>
    BY <1>22 DEF WatchClaim, WatchGoes, WatchEnds
  <2>5. /\ \A k \in Leases : k # l => watch'[k] = watch[k] /\ token'[k] = token[k]
        /\ \/ watch'[l] \in {"note", "told"}
           \/ watch'[l] = "closing" /\ watch[l] = "claim-orphan"
    BY <1>22 DEF WatchClaim, WatchGoes, WatchEnds, WatchTo, WatchTyped, WatchPlaces
  <2>6. \/ UNCHANGED shut
        \/ SetShut(l, "watch", "terminate") /\ watch[l] = "claim-orphan"
    BY <1>22 DEF WatchClaim, BeginClose
  <2>7. /\ \A k \in Leases, d \in Closers : shut'[k][d] # shut[k][d] =>
              k = l /\ watch[l] = "claim-orphan" /\ shut'[k][d] = "terminate"
    BY <1>22, <2>6, ShutRewrites DEF ShutPlaces
  <2> QED
    BY <2>3, <2>4, <2>5, <2>6, <2>7, SMTT(60)
  DEF SamePhases, IInv, InvLaunch, InvWatch, InvPod, OneOpen, Existed, IsOpen
<1>23. ASSUME NEW l \in Leases, WatchNote(l) PROVE IInv'
  <2>1. Rewrites(NotePendingRecoveryAttempt(l), l, lease[l].phase, lease[l].owner)
    BY StoreRewrites
  <2>2. lease' = NotePendingRecoveryAttempt(l) \/ lease' = lease
    BY <1>23
    DEF WatchNote
  <2>3. Rewrites(lease', l, lease[l].phase, lease[l].owner)
    BY <2>1, <2>2 DEF Rewrites, LeaseTyped
  <2>4. SamePhases /\ SameOwners
    BY <2>3 DEF Rewrites, SamePhases, SameOwners
  <2>5. UNCHANGED <<pod, gate, launch, op, shut>>
    BY <1>23 DEF WatchNote, WatchGoes, WatchEnds
  <2>6. \A k \in Leases : \/ watch'[k] = watch[k] /\ token'[k] = token[k]
                          \/ watch'[k] \in {"recover", "told"}
    BY <1>23 DEF WatchNote, WatchGoes, WatchEnds, WatchTo, WatchTyped
  <2> QED
    BY <2>4, <2>5, <2>6, SMTT(60)
  DEF SamePhases, SameOwners, IInv, InvLaunch, InvWatch, InvPod, OneOpen, Existed, IsOpen
<1>24. ASSUME NEW l \in Leases, WatchRecover(l) PROVE IInv'
  BY <1>24, SMTT(60)
  DEF WatchRecover, Live, WatchGoes, WatchTo, WatchEnds, ShutPlaces, IInv, InvLaunch,
      InvWatch, InvPod, OneOpen, Existed, IsOpen, LeaseTyped, ProviderTyped, LaunchTyped,
      WatchTyped, ShutTyped
<1>25. ASSUME NEW l \in Leases, WatchBind(l) PROVE IInv'
  <2>1. Existed(l) /\ pod' = pod
    BY <1>25 DEF WatchBind, IInv, InvWatch
  <2>2. CASE Owns(l, token[l]) /\ lease[l].phase = "pending-create"
    <3>1. Rewrites(lease', l, "active", lease[l].owner)
      BY <1>25, <2>2, StoreRewrites DEF WatchBind
    <3>2. \A m \in Leases : /\ lease'[m].phase = IF m = l THEN "active" ELSE lease[m].phase
                            /\ lease'[m].owner = lease[m].owner
      BY <3>1 DEF Rewrites
    <3>3. UNCHANGED <<gate, launch, token, op>> /\ WatchTo(l, "closing")
      BY <1>25, <2>2 DEF WatchBind, WatchGoes
    <3>4. \A k \in Leases, d \in Closers :
             shut'[k][d] = IF k = l /\ d = "watch" THEN "terminate" ELSE shut[k][d]
      BY <1>25, <2>2, ShutRewrites DEF WatchBind, BeginClose, ShutPlaces
    <3> QED
      BY <2>1, <2>2, <3>2, <3>3, <3>4, SMTT(60)
    DEF WatchTo, WatchTyped, IInv, InvLaunch, InvWatch, InvPod, OneOpen, Existed, IsOpen
  <2>3. CASE ~(Owns(l, token[l]) /\ lease[l].phase = "pending-create")
    BY <1>25, <2>1, <2>3, ShutRewrites, SMTT(60)
    DEF WatchBind, WatchGoes, WatchTo, BeginClose, WatchEnds, IInv, InvLaunch, InvWatch,
        InvPod, OneOpen, Existed, IsOpen, ShutPlaces, LeaseTyped, ProviderTyped,
        LaunchTyped, WatchTyped, ShutTyped
  <2> QED
    BY <2>2, <2>3
<1>26. ASSUME NEW l \in Leases, WatchBeat(l) PROVE IInv'
  <2>1. UNCHANGED <<lease, pod, gate, launch, op, shut>>
    BY <1>26 DEF WatchBeat, WatchGoes, WatchEnds, WatchBusy, WatchTicksOn
  <2>2. /\ \A k \in Leases : k # l => watch'[k] = watch[k] /\ token'[k] = token[k]
        /\ watch'[l] \in {"down", "told", "tick", "beating"} /\ Existed(l)
    BY <1>26
    DEF WatchBeat, WatchGoes, WatchEnds, WatchBusy, WatchTicksOn, WatchTo, WatchTyped,
        IInv, InvWatch
  <2> QED
    BY <2>1, <2>2, SMTT(60)
    DEF IInv, InvLaunch, InvWatch, InvPod, OneOpen, Existed, IsOpen
<1>27. ASSUME NEW l \in Leases, WatchStatus(l) PROVE IInv'
  BY <1>27, SMTT(60)
  DEF WatchStatus, WatchTicksOn, WatchTo, WatchGoes, IInv, InvLaunch, InvWatch, InvPod,
      OneOpen, Existed, IsOpen, LeaseTyped, ProviderTyped, LaunchTyped, WatchTyped
<1>28. ASSUME NEW l \in Leases, OperatorProbe(l) PROVE IInv'
  <2>1. Existed(l) /\ pod' = pod
    BY <1>28 DEF OperatorProbe, IInv, InvWatch
  <2>2. CASE WatchCloses(l)
    <3>1. \A k \in Leases, d \in Closers :
             shut'[k][d] = IF k = l /\ d = "watch" THEN "terminate" ELSE shut[k][d]
      BY <2>2, ShutRewrites DEF WatchCloses, BeginClose, ShutPlaces
    <3> QED
      BY <1>28, <2>1, <2>2, <3>1, SMTT(60)
    DEF OperatorProbe, WatchCloses, WatchGoes, WatchTo, IInv, InvLaunch, InvWatch, InvPod,
        OneOpen, Existed, IsOpen, LeaseTyped, ProviderTyped, LaunchTyped, WatchTyped,
        ShutTyped
  <2>3. CASE WatchEnds(l, TRUE) /\ UNCHANGED shut
    BY <1>28, <2>1, <2>3, SMTT(60)
    DEF OperatorProbe, WatchEnds, WatchTo, IInv, InvLaunch, InvWatch, InvPod, OneOpen,
        Existed, IsOpen, LeaseTyped, ProviderTyped, LaunchTyped, WatchTyped, ShutTyped
  <2> QED
    BY <1>28, <2>2, <2>3
  DEF OperatorProbe
<1>29. ASSUME NEW l \in Leases, WatchRecordClose(l) PROVE IInv'
  <2> DEFINE verified == shut[l]["watch"] = "verified"
             phase == IF verified THEN "closed-verified" ELSE "close-unverified"
  <2>1. /\ shut[l]["watch"] # "no" /\ Existed(l) /\ pod' = pod
        /\ verified => pod[l] = "gone"
    BY <1>29 DEF WatchRecordClose, Ended, IInv, InvPod
  <2>2. CASE lease' = RecordClose(l, verified) /\ IsOpen(l)
    <3>1. verified \in BOOLEAN
      OBVIOUS
    <3>2. Rewrites(RecordClose(l, verified), l, phase, lease[l].owner)
      BY <3>1, StoreRewrites
    <3>3. \A m \in Leases : /\ lease'[m].phase = IF m = l THEN phase ELSE lease[m].phase
                            /\ lease'[m].owner = lease[m].owner
      BY <2>2, <3>2
      DEF Rewrites
    <3> QED
      BY <1>29, <2>1, <2>2, <3>3, ShutRewrites, SMTT(60)
    DEF WatchRecordClose, WatchEnds, WatchTo, IInv, InvLaunch, InvWatch, InvPod, OneOpen,
        Existed, IsOpen, ShutPlaces, LeaseTyped, ProviderTyped, LaunchTyped, WatchTyped,
        ShutTyped
  <2>3. CASE lease' = lease
    BY <1>29, <2>1, <2>3, ShutRewrites, SMTT(60)
    DEF WatchRecordClose, WatchEnds, WatchTo, IInv, InvLaunch, InvWatch, InvPod, OneOpen,
        Existed, IsOpen, ShutPlaces, LeaseTyped, ProviderTyped, LaunchTyped, WatchTyped,
        ShutTyped
  <2> QED
    BY <1>29, <2>2, <2>3
  DEF WatchRecordClose, MayRecordClose, Owns, IsOpen
<1>30. ASSUME NEW l \in Leases, TimerStart(l) PROVE IInv'
  <2>1. Existed(l) /\ UNCHANGED <<lease, pod, gate, launch, watch, token, op>>
    BY <1>30 DEF TimerStart, Container, Existed
  <2>2. UNCHANGED shut \/ SetShut(l, "timer", "terminate")
    BY <1>30 DEF TimerStart, BeginClose
  <2>3. \A k \in Leases, d \in Closers : shut'[k][d] # shut[k][d] =>
           k = l /\ shut'[k][d] = "terminate"
    BY <2>2, ShutRewrites DEF ShutPlaces
  <2> QED
    BY <2>1, <2>3, SMTT(60) DEF IInv, InvLaunch, InvWatch, InvPod, OneOpen, Existed, IsOpen
<1>31. ASSUME NEW l \in Leases, TimerExpires(l) PROVE IInv'
  BY <1>31, ShutRewrites, SMTT(60)
  DEF TimerExpires, TimerCloses, Container, TimerTo, BeginClose, ShutPlaces, IInv,
      InvLaunch, InvWatch, InvPod, OneOpen, Existed, IsOpen, LeaseTyped, ProviderTyped,
      LaunchTyped, WatchTyped, ShutTyped
<1>32. ASSUME NEW l \in Leases, TimerRetry(l) PROVE IInv'
  <2>1. Existed(l)
    BY <1>32 DEF TimerRetry, Container, Existed
  <2>2. \A k \in Leases, d \in Closers :
           shut'[k][d] = IF k = l /\ d = "timer" THEN "terminate" ELSE shut[k][d]
    BY <1>32, ShutRewrites DEF TimerRetry, BeginClose, ShutPlaces
  <2> QED
    BY <1>32, <2>1, <2>2, SMTT(60)
  DEF TimerRetry, IInv, InvLaunch, InvWatch, InvPod, OneOpen, Existed, IsOpen, ShutPlaces,
      LeaseTyped, ProviderTyped, LaunchTyped, WatchTyped, ShutTyped
<1>33. ASSUME NEW l \in Leases, TimerReports(l) PROVE IInv'
  BY <1>33, ShutRewrites, SMTT(60)
  DEF TimerReports, Container, Ended, MayRetry, TimerTo, BeginClose, ShutPlaces, IInv,
      InvLaunch, InvWatch, InvPod, OneOpen, Existed, IsOpen, LeaseTyped, ProviderTyped,
      LaunchTyped, WatchTyped, ShutTyped
<1>34. ASSUME NEW l \in Leases, LaunchCrash(l) PROVE IInv'
  BY <1>34, ShutRewrites, SMTT(60)
  DEF LaunchCrash, LaunchTo, ShutPlaces, IInv, InvLaunch, InvWatch, InvPod, OneOpen,
      Existed, IsOpen, LeaseTyped, ProviderTyped, LaunchTyped, WatchTyped, ShutTyped
<1>35. ASSUME NEW l \in Leases, WatchCrash(l) PROVE IInv'
  BY <1>35, ShutRewrites, SMTT(60)
  DEF WatchCrash, LockFree, WatchTo, ShutPlaces, IInv, InvLaunch, InvWatch, InvPod,
      OneOpen, Existed, IsOpen, LeaseTyped, ProviderTyped, LaunchTyped, WatchTyped,
      ShutTyped
<1>36. ASSUME NEW l \in Leases, LoseIdentity(l) PROVE IInv'
  BY <1>36, SMTT(60)
  DEF LoseIdentity, LockFree, IsActive, ShutPlaces, IInv, InvLaunch, InvWatch, InvPod,
      OneOpen, Existed, IsOpen, LeaseTyped, ProviderTyped, LaunchTyped, WatchTyped,
      ShutTyped
<1>37. ASSUME NEW l \in Leases, WatchStart(l) PROVE IInv'
  BY <1>37, SMTT(60)
  DEF WatchStart, LockFree, IsActive, WatchTo, ShutPlaces, IInv, InvLaunch, InvWatch,
      InvPod, OneOpen, Existed, IsOpen, LeaseTyped, ProviderTyped, LaunchTyped, WatchTyped,
      ShutTyped
<1>38. ASSUME NEW l \in Leases, OperatorLoad(l) PROVE IInv'
  BY <1>38, SMTT(60)
  DEF OperatorLoad, ShutPlaces, IInv, InvLaunch, InvWatch, InvPod, OneOpen, Existed,
      IsOpen, LeaseTyped, ProviderTyped, LaunchTyped, WatchTyped, ShutTyped
<1>39. ASSUME NEW l \in Leases, OperatorLock(l) PROVE IInv'
  BY <1>39, SMTT(60)
  DEF OperatorLock, LockFree, WatchTo, ShutPlaces, IInv, InvLaunch, InvWatch, InvPod,
      OneOpen, Existed, IsOpen, LeaseTyped, ProviderTyped, LaunchTyped, WatchTyped,
      ShutTyped
<1>40. ASSUME NEW l \in Leases, TimerChildExits(l) PROVE IInv'
  BY <1>40, ShutRewrites, SMTT(60)
  DEF TimerChildExits, TimerCloses, Container, TimerTo, BeginClose, ShutPlaces, IInv,
      InvLaunch, InvWatch, InvPod, OneOpen, Existed, IsOpen, LeaseTyped, ProviderTyped,
      LaunchTyped, WatchTyped, ShutTyped
<1>41. ASSUME NEW l \in Leases, ProviderCreates(l) PROVE IInv'
  BY <1>41, SMTT(60)
  DEF ProviderCreates, ShutPlaces, IInv, InvLaunch, InvWatch, InvPod, OneOpen, Existed,
      IsOpen, LeaseTyped, ProviderTyped, LaunchTyped, WatchTyped, ShutTyped
<1>42. ASSUME NEW l \in Leases, ProviderDrops(l) PROVE IInv'
  BY <1>42, SMTT(60)
  DEF ProviderDrops, ShutPlaces, IInv, InvLaunch, InvWatch, InvPod, OneOpen, Existed,
      IsOpen, LeaseTyped, ProviderTyped, LaunchTyped, WatchTyped, ShutTyped
<1>43. ASSUME NEW l \in Leases, ProviderRuns(l) PROVE IInv'
  BY <1>43, SMTT(60)
  DEF ProviderRuns, ShutPlaces, IInv, InvLaunch, InvWatch, InvPod, OneOpen, Existed,
      IsOpen, LeaseTyped, ProviderTyped, LaunchTyped, WatchTyped, ShutTyped
<1>44. ASSUME NEW l \in Leases, ProviderExits(l) PROVE IInv'
  BY <1>44, ShutRewrites, SMTT(60)
  DEF ProviderExits, Container, ContainerEnds, ShutPlaces, IInv, InvLaunch, InvWatch,
      InvPod, OneOpen, Existed, IsOpen, LeaseTyped, ProviderTyped, LaunchTyped, WatchTyped,
      ShutTyped
<1>45. ASSUME NEW l \in Leases, ProviderKills(l) PROVE IInv'
  BY <1>45, ShutRewrites, SMTT(60)
  DEF ProviderKills, Live, ContainerEnds, ShutPlaces, IInv, InvLaunch, InvWatch, InvPod,
      OneOpen, Existed, IsOpen, LeaseTyped, ProviderTyped, LaunchTyped, WatchTyped,
      ShutTyped
<1>46. ASSUME NEW l \in Leases, Expire(l) PROVE IInv'
  BY <1>46, SMTT(60)
  DEF Expire, IsOpen, ShutPlaces, IInv, InvLaunch, InvWatch, InvPod, OneOpen, Existed,
      LeaseTyped, ProviderTyped, LaunchTyped, WatchTyped, ShutTyped
<1>47. ASSUME NEW l \in Leases, GoStale(l) PROVE IInv'
  BY <1>47, SMTT(60)
  DEF GoStale, IsActive, ShutPlaces, IInv, InvLaunch, InvWatch, InvPod, OneOpen, Existed,
      IsOpen, LeaseTyped, ProviderTyped, LaunchTyped, WatchTyped, ShutTyped
<1>48. ASSUME NEW l \in Leases, NEW c \in Closers, ShutTerminate(l, c) PROVE IInv'
  <2>1. shut[l][c] # "no" /\ Existed(l)
    BY <1>48 DEF ShutTerminate, IInv, InvPod
  <2>2. PICK p \in {"observe", "refused"} : SetShut(l, c, p)
    BY <1>48 DEF ShutTerminate
  <2>3. \A k \in Leases, d \in Closers :
           shut'[k][d] = IF k = l /\ d = c THEN p ELSE shut[k][d]
    BY <2>2, ShutRewrites DEF ShutPlaces
  <2> QED
    BY <1>48, <2>1, <2>3, SMTT(60)
  DEF ShutTerminate, IInv, InvLaunch, InvWatch, InvPod, OneOpen, Existed, IsOpen,
      ShutPlaces, LeaseTyped, ProviderTyped, LaunchTyped, WatchTyped, ShutTyped
<1>49. ASSUME NEW l \in Leases, NEW c \in Closers, ShutObserve(l, c) PROVE IInv'
  <2>1. shut[l][c] # "no" /\ Existed(l) /\ pod[l] \in Pods
    BY <1>49 DEF ShutObserve, IInv, InvPod, ProviderTyped
  <2>2. PICK get \in Answers(l, "get"), list \in Answers(l, "list") :
          SetShut(l, c, IF ProvenAbsent(get, list) THEN "bill" ELSE "terminate")
    BY <1>49 DEF ShutObserve
  <2>3. ProvenAbsent(get, list) => ~Live(l)
    BY ViewAssumption DEF Answers, ProvenAbsent
  <2>4. ProvenAbsent(get, list) => pod[l] = "gone"
    BY <2>1, <2>3 DEF Live, Existed, Pods
  <2>5. PICK p \in {"bill", "terminate"} :
          SetShut(l, c, p) /\ (p = "bill" => pod[l] = "gone")
    BY <2>2, <2>4
  <2>6. \A k \in Leases, d \in Closers :
           shut'[k][d] = IF k = l /\ d = c THEN p ELSE shut[k][d]
    BY <2>5, ShutRewrites
    DEF ShutPlaces
  <2> QED
    BY <1>49, <2>1, <2>5, <2>6, SMTT(60)
  DEF ShutObserve, IInv, InvLaunch, InvWatch, InvPod, OneOpen, Existed, IsOpen, ShutPlaces,
      LeaseTyped, ProviderTyped, LaunchTyped, WatchTyped, ShutTyped
<1>50. ASSUME NEW l \in Leases, NEW c \in Closers, ShutBill(l, c) PROVE IInv'
  BY <1>50, ShutRewrites, SMTT(60)
  DEF ShutBill, Captures, ShutPlaces, IInv, InvLaunch, InvWatch, InvPod, OneOpen, Existed,
      IsOpen, LeaseTyped, ProviderTyped, LaunchTyped, WatchTyped, ShutTyped
<1>51. ASSUME NEW l \in Leases, NEW c \in Closers, ShutDeadline(l, c) PROVE IInv'
  BY <1>51, ShutRewrites, SMTT(60)
  DEF ShutDeadline, ShutPlaces, IInv, InvLaunch, InvWatch, InvPod, OneOpen, Existed,
      IsOpen, LeaseTyped, ProviderTyped, LaunchTyped, WatchTyped, ShutTyped
<1>52. CASE UNCHANGED vars
  BY <1>52, SMTT(60) DEF vars, IInv, InvLaunch, InvWatch, InvPod, OneOpen, Existed, IsOpen
<1>53. ASSUME NEW l \in Leases, WatchHeartbeat(l) PROVE IInv'
  <2>1. Rewrites(Heartbeat(l), l, lease[l].phase, lease[l].owner)
    BY StoreRewrites
  <2>2. lease' = Heartbeat(l) \/ lease' = lease
    BY <1>53
    DEF WatchHeartbeat
  <2>3. Rewrites(lease', l, lease[l].phase, lease[l].owner)
    BY <2>1, <2>2 DEF Rewrites, LeaseTyped
  <2>4. SamePhases /\ SameOwners
    BY <2>3 DEF Rewrites, SamePhases, SameOwners
  <2>5. UNCHANGED <<pod, gate, launch, op, shut>>
    BY <1>53 DEF WatchHeartbeat, WatchGoes, WatchEnds
  <2>6. /\ \A k \in Leases : k # l => watch'[k] = watch[k] /\ token'[k] = token[k]
        /\ watch'[l] \in {"told", "status-armed"} /\ Existed(l)
    BY <1>53
    DEF WatchHeartbeat, WatchGoes, WatchEnds, WatchTo, WatchTyped,
        IInv, InvWatch
  <2> QED
    BY <2>4, <2>5, <2>6, SMTT(60)
    DEF SamePhases, SameOwners, IInv, InvLaunch, InvWatch, InvPod, OneOpen, Existed, IsOpen
<1>54. ASSUME NEW l \in Leases, WatchUnfit(l) PROVE IInv'
  BY <1>54, ShutRewrites, SMTT(60)
  DEF WatchUnfit, WatchTo, WatchCloses, WatchGoes, BeginClose, ShutPlaces,
      IInv, InvLaunch, InvWatch, InvPod, OneOpen, Existed, IsOpen, LeaseTyped,
      ProviderTyped, LaunchTyped, WatchTyped, ShutTyped
<1> QED
  BY <1>1, <1>2, <1>3, <1>4, <1>5, <1>6, <1>7, <1>8, <1>9, <1>10, <1>11, <1>12, <1>13,
     <1>14, <1>15, <1>16, <1>17, <1>18, <1>19, <1>20, <1>21, <1>22, <1>23, <1>24, <1>25,
     <1>26, <1>27, <1>28, <1>29, <1>30, <1>31, <1>32, <1>33, <1>34, <1>35, <1>36, <1>37,
     <1>38, <1>39, <1>40, <1>41, <1>42, <1>43, <1>44, <1>45, <1>46, <1>47, <1>48, <1>49,
     <1>50, <1>51, <1>52, <1>53, <1>54
  DEF Next, LaunchSteps, WatchSteps, TimerSteps, ShutSteps, Environment

\* Every reachable state is typed and satisfies the inductive invariant.
LEMMA Safety == Spec => [](Typed /\ IInv)
<1>1. Init => Typed
  BY TypeInit
<1>2. Init => IInv
  BY DEF Init, IInv, InvLaunch, InvWatch, InvPod, OneOpen, Existed, IsOpen, NoLease, Closers
<1> QED
  BY <1>1, <1>2, TypeStep, SafeStep, PTL DEF Spec

\* A verified close is never on record for a pod that still bills, whatever the
\* interleaving of the launch, the lock's holder and the pod's timer.
THEOREM VerifiedCloseIsTrue == Spec => []ClosedMeansGone
<1>1. IInv => ClosedMeansGone
  BY DEF IInv, InvPod, ClosedMeansGone
<1> QED
  BY <1>1, Safety, PTL

\* At most one pod bills at a time, for any number of launches.
THEOREM NeverTwoPods == Spec => []OnePodAtATime
<1>1. IInv => OnePodAtATime
  BY DEF IInv, InvPod, OneOpen, IsOpen, Live, OnePodAtATime
<1> QED
  BY <1>1, Safety, PTL

\* The supervisor leaves a running pod with a fresh heartbeat alone.
THEOREM FreshOwnerSafe == Spec => FreshOwnerIsLeftAlone
<1>1. Typed /\ IInv /\ [Next]_vars =>
        [\A l \in Leases :
            /\ watch[l] \notin {"probe", "unfit", "closing"}
            /\ watch'[l] \in {"unfit", "closing"}
            /\ lease[l].phase = "active" /\ pod[l] = "running" /\ ~expired[l]
            => lease[l].beat = "stale"]_vars
  <2> SUFFICES ASSUME Typed, IInv, [Next]_vars, NEW k \in Leases,
                      watch[k] \notin {"probe", "unfit", "closing"},
                      watch'[k] \in {"unfit", "closing"},
                      lease[k].phase = "active", pod[k] = "running", ~expired[k]
               PROVE  lease[k].beat = "stale"
    OBVIOUS
  <2> USE DEF Typed, WatchTyped, podVars, launchVars, watchVars, timerVars
  <2>1. CASE TickOwn(k)
    BY <2>1 DEF TickOwn, CloseDue, WatchGoes, WatchTo
  <2>2. CASE WatchClaim(k)
    BY <2>2
    DEF WatchClaim, IsActive, MayClaim, WatchGoes, WatchEnds, WatchTo, IInv, InvWatch
  <2>3. CASE WatchBind(k)
    BY <2>3 DEF WatchBind, WatchGoes, WatchEnds, WatchTo
  <2>4. CASE WatchStatus(k)
    BY <2>4 DEF WatchStatus, WatchTicksOn, WatchGoes, WatchTo
  <2>5. ASSUME NEW l \in Leases, LaunchGate(l) PROVE lease[k].beat = "stale"
    BY <2>5 DEF LaunchGate
  <2>6. ASSUME NEW l \in Leases, LaunchRefused(l) PROVE lease[k].beat = "stale"
    BY <2>6 DEF LaunchRefused
  <2>7. ASSUME NEW l \in Leases, LaunchClear(l) PROVE lease[k].beat = "stale"
    BY <2>7 DEF LaunchClear
  <2>8. ASSUME NEW l \in Leases, LaunchReserve(l) PROVE lease[k].beat = "stale"
    BY <2>8 DEF LaunchReserve
  <2>9. ASSUME NEW l \in Leases, LaunchAdopt(l) PROVE lease[k].beat = "stale"
    BY <2>9 DEF LaunchAdopt
  <2>10. ASSUME NEW l \in Leases, LaunchPost(l) PROVE lease[k].beat = "stale"
    BY <2>10 DEF LaunchPost
  <2>11. ASSUME NEW l \in Leases, LaunchCreateFails(l) PROVE lease[k].beat = "stale"
    BY <2>11 DEF LaunchCreateFails
  <2>12. ASSUME NEW l \in Leases, LaunchCreateReturns(l) PROVE lease[k].beat = "stale"
    BY <2>12 DEF LaunchCreateReturns
  <2>13. ASSUME NEW l \in Leases, LaunchBind(l) PROVE lease[k].beat = "stale"
    BY <2>13 DEF LaunchBind
  <2>14. ASSUME NEW l \in Leases, LaunchCheck(l) PROVE lease[k].beat = "stale"
    BY <2>14 DEF LaunchCheck
  <2>15. ASSUME NEW l \in Leases, LaunchArm(l) PROVE lease[k].beat = "stale"
    BY <2>15 DEF LaunchArm
  <2>16. ASSUME NEW l \in Leases, LaunchBeat(l) PROVE lease[k].beat = "stale"
    BY <2>16 DEF LaunchBeat
  <2>17. ASSUME NEW l \in Leases, LaunchObserve(l) PROVE lease[k].beat = "stale"
    BY <2>17 DEF LaunchObserve
  <2>18. ASSUME NEW l \in Leases, LaunchArmingFails(l) PROVE lease[k].beat = "stale"
    BY <2>18 DEF LaunchArmingFails
  <2>19. ASSUME NEW l \in Leases, LaunchRecordArming(l) PROVE lease[k].beat = "stale"
    BY <2>19 DEF LaunchRecordArming
  <2>20. ASSUME NEW l \in Leases, LaunchRecordClose(l) PROVE lease[k].beat = "stale"
    BY <2>20 DEF LaunchRecordClose
  <2>21. ASSUME NEW l \in Leases, TickTerminal(l) PROVE lease[k].beat = "stale"
    BY <2>21 DEF TickTerminal, WatchEnds, WatchTo
  <2>22. ASSUME NEW l \in Leases, TickBusy(l) PROVE lease[k].beat = "stale"
    BY <2>22 DEF TickBusy, WatchBusy, WatchEnds, WatchTo, WatchTicksOn
  <2>23. ASSUME NEW l \in Leases, TickPending(l) PROVE lease[k].beat = "stale"
    BY <2>23 DEF TickPending, WatchEnds, WatchTo, WatchGoes
  <2>24. ASSUME NEW l \in Leases, TickOrphan(l) PROVE lease[k].beat = "stale"
    BY <2>24 DEF TickOrphan, WatchGoes, WatchTo
  <2>25. ASSUME NEW l \in Leases, TickOwn(l), l # k PROVE lease[k].beat = "stale"
    BY <2>25 DEF TickOwn, WatchGoes, WatchTo
  <2>26. ASSUME NEW l \in Leases, WatchClaim(l), l # k PROVE lease[k].beat = "stale"
    BY <2>26 DEF WatchClaim, WatchEnds, WatchTo, WatchGoes
  <2>27. ASSUME NEW l \in Leases, WatchNote(l) PROVE lease[k].beat = "stale"
    BY <2>27 DEF WatchNote, WatchGoes, WatchTo, WatchEnds
  <2>28. ASSUME NEW l \in Leases, WatchRecover(l) PROVE lease[k].beat = "stale"
    BY <2>28 DEF WatchRecover, WatchGoes, WatchTo, WatchEnds
  <2>29. ASSUME NEW l \in Leases, WatchBind(l), l # k PROVE lease[k].beat = "stale"
    BY <2>29 DEF WatchBind, WatchGoes, WatchTo, WatchEnds
  <2>30. ASSUME NEW l \in Leases, WatchBeat(l) PROVE lease[k].beat = "stale"
    BY <2>30 DEF WatchBeat, WatchEnds, WatchTo, WatchBusy, WatchTicksOn, WatchGoes
  <2>31. ASSUME NEW l \in Leases, WatchStatus(l), l # k PROVE lease[k].beat = "stale"
    BY <2>31 DEF WatchStatus, WatchTicksOn, WatchTo, WatchGoes
  <2>32. ASSUME NEW l \in Leases, OperatorProbe(l) PROVE lease[k].beat = "stale"
    BY <2>32 DEF OperatorProbe, WatchEnds, WatchTo, WatchCloses, WatchGoes
  <2>33. ASSUME NEW l \in Leases, WatchRecordClose(l) PROVE lease[k].beat = "stale"
    BY <2>33 DEF WatchRecordClose, WatchEnds, WatchTo
  <2>34. ASSUME NEW l \in Leases, TimerStart(l) PROVE lease[k].beat = "stale"
    BY <2>34 DEF TimerStart
  <2>35. ASSUME NEW l \in Leases, TimerExpires(l) PROVE lease[k].beat = "stale"
    BY <2>35 DEF TimerExpires, TimerCloses
  <2>36. ASSUME NEW l \in Leases, TimerRetry(l) PROVE lease[k].beat = "stale"
    BY <2>36 DEF TimerRetry
  <2>37. ASSUME NEW l \in Leases, TimerReports(l) PROVE lease[k].beat = "stale"
    BY <2>37 DEF TimerReports
  <2>38. ASSUME NEW l \in Leases, LaunchCrash(l) PROVE lease[k].beat = "stale"
    BY <2>38 DEF LaunchCrash
  <2>39. ASSUME NEW l \in Leases, WatchCrash(l) PROVE lease[k].beat = "stale"
    BY <2>39 DEF WatchCrash, WatchTo
  <2>40. ASSUME NEW l \in Leases, LoseIdentity(l) PROVE lease[k].beat = "stale"
    BY <2>40 DEF LoseIdentity
  <2>41. ASSUME NEW l \in Leases, WatchStart(l) PROVE lease[k].beat = "stale"
    BY <2>41 DEF WatchStart, WatchTo
  <2>42. ASSUME NEW l \in Leases, OperatorLoad(l) PROVE lease[k].beat = "stale"
    BY <2>42 DEF OperatorLoad
  <2>43. ASSUME NEW l \in Leases, OperatorLock(l) PROVE lease[k].beat = "stale"
    BY <2>43 DEF OperatorLock, WatchTo
  <2>44. ASSUME NEW l \in Leases, TimerChildExits(l) PROVE lease[k].beat = "stale"
    BY <2>44 DEF TimerChildExits, TimerCloses
  <2>45. ASSUME NEW l \in Leases, ProviderCreates(l) PROVE lease[k].beat = "stale"
    BY <2>45 DEF ProviderCreates
  <2>46. ASSUME NEW l \in Leases, ProviderDrops(l) PROVE lease[k].beat = "stale"
    BY <2>46 DEF ProviderDrops
  <2>47. ASSUME NEW l \in Leases, ProviderRuns(l) PROVE lease[k].beat = "stale"
    BY <2>47 DEF ProviderRuns
  <2>48. ASSUME NEW l \in Leases, ProviderExits(l) PROVE lease[k].beat = "stale"
    BY <2>48 DEF ProviderExits, ContainerEnds
  <2>49. ASSUME NEW l \in Leases, ProviderKills(l) PROVE lease[k].beat = "stale"
    BY <2>49 DEF ProviderKills, ContainerEnds
  <2>50. ASSUME NEW l \in Leases, Expire(l) PROVE lease[k].beat = "stale"
    BY <2>50 DEF Expire
  <2>51. ASSUME NEW l \in Leases, GoStale(l) PROVE lease[k].beat = "stale"
    BY <2>51 DEF GoStale
  <2>52. ASSUME NEW l \in Leases, NEW c \in Closers, ShutTerminate(l, c) PROVE lease[k].beat = "stale"
    BY <2>52 DEF ShutTerminate
  <2>53. ASSUME NEW l \in Leases, NEW c \in Closers, ShutObserve(l, c) PROVE lease[k].beat = "stale"
    BY <2>53 DEF ShutObserve
  <2>54. ASSUME NEW l \in Leases, NEW c \in Closers, ShutBill(l, c) PROVE lease[k].beat = "stale"
    BY <2>54 DEF ShutBill
  <2>55. ASSUME NEW l \in Leases, NEW c \in Closers, ShutDeadline(l, c) PROVE lease[k].beat = "stale"
    BY <2>55 DEF ShutDeadline
  <2>56. CASE UNCHANGED vars
    BY <2>56 DEF vars
  <2>57. ASSUME NEW l \in Leases, WatchHeartbeat(l) PROVE lease[k].beat = "stale"
    BY <2>57 DEF WatchHeartbeat, WatchEnds, WatchTo, WatchGoes
  <2>58. ASSUME NEW l \in Leases, WatchUnfit(l) PROVE lease[k].beat = "stale"
    BY <2>58 DEF WatchUnfit, WatchTo, WatchCloses, WatchGoes
  <2> QED
    BY <2>1, <2>2, <2>3, <2>4, <2>5, <2>6, <2>7, <2>8, <2>9, <2>10, <2>11, <2>12, <2>13,
       <2>14, <2>15, <2>16, <2>17, <2>18, <2>19, <2>20, <2>21, <2>22, <2>23, <2>24, <2>25,
       <2>26, <2>27, <2>28, <2>29, <2>30, <2>31, <2>32, <2>33, <2>34, <2>35, <2>36, <2>37,
       <2>38, <2>39, <2>40, <2>41, <2>42, <2>43, <2>44, <2>45, <2>46, <2>47, <2>48, <2>49,
       <2>50, <2>51, <2>52, <2>53, <2>54, <2>55, <2>56, <2>57, <2>58
  DEF Next, LaunchSteps, WatchSteps, TimerSteps, ShutSteps, Environment
<1> QED
  BY <1>1, Safety, PTL DEF FreshOwnerIsLeftAlone, Spec

---------------------------------------------------------------------------
(* The leases implement the account of paid pods.                          *)

\* What one step may do to the phase and the pod of one lease.
Moves(l) ==
    /\ \A k \in Leases : k # l => lease'[k].phase = lease[k].phase /\ pod'[k] = pod[k]
    /\ \/ lease'[l].phase = lease[l].phase /\ pod'[l] = pod[l]
       \/ /\ lease[l].phase = "none" /\ \A m \in Leases : ~IsOpen(m)
          /\ \/ lease'[l].phase = "pending-create" /\ pod'[l] = pod[l]
             \/ lease'[l].phase = "active" /\ pod'[l] = "running"
       \/ /\ IsOpen(l) /\ pod'[l] = pod[l]
          /\ \/ lease'[l].phase \in {"active", "close-unverified"}
             \/ lease'[l].phase = "closed-verified" /\ pod[l] = "gone"
       \/ /\ lease'[l].phase = lease[l].phase
          /\ <<pod[l], pod'[l]>> \in {<<"none", "posted">>, <<"posted", "none">>,
                                     <<"posted", "starting">>, <<"starting", "running">>,
                                     <<"starting", "exited">>, <<"running", "exited">>,
                                     <<"starting", "gone">>, <<"running", "gone">>,
                                     <<"exited", "gone">>}

\* Every step moves one lease at most.
LEMMA StepMoves == Typed /\ IInv /\ [Next]_vars /\ ~UNCHANGED vars => \E l \in Leases : Moves(l)
<1> SUFFICES ASSUME Typed, IInv, [Next]_vars, ~UNCHANGED vars PROVE \E l \in Leases : Moves(l)
  OBVIOUS
<1> USE DEF Typed, podVars, launchVars, watchVars, timerVars
<1>1. ASSUME NEW l \in Leases, LaunchGate(l) PROVE Moves(l)
  BY <1>1 DEF LaunchGate, Moves
<1>2. ASSUME NEW l \in Leases, LaunchRefused(l) PROVE Moves(l)
  BY <1>2 DEF LaunchRefused, Moves
<1>3. ASSUME NEW l \in Leases, LaunchClear(l) PROVE Moves(l)
  BY <1>3 DEF LaunchClear, Moves
<1>4. ASSUME NEW l \in Leases, LaunchReserve(l) PROVE Moves(l)
  BY <1>4
  DEF LaunchReserve, NewLease, Moves, IInv, InvLaunch, InvPod, LeaseTyped, ProviderTyped
<1>5. ASSUME NEW l \in Leases, LaunchAdopt(l) PROVE Moves(l)
  BY <1>5
  DEF LaunchAdopt, NewLease, Moves, IInv, InvLaunch, InvPod, LeaseTyped, ProviderTyped
<1>6. ASSUME NEW l \in Leases, LaunchPost(l) PROVE Moves(l)
  BY <1>6 DEF LaunchPost, Moves, ProviderTyped, IInv, InvLaunch
<1>7. ASSUME NEW l \in Leases, LaunchCreateFails(l) PROVE Moves(l)
  BY <1>7 DEF LaunchCreateFails, Moves
<1>8. ASSUME NEW l \in Leases, LaunchCreateReturns(l) PROVE Moves(l)
  BY <1>8 DEF LaunchCreateReturns, Moves
<1>9. ASSUME NEW l \in Leases, LaunchBind(l) PROVE Moves(l)
  <2>1. Rewrites(BindPod(l), l, "active", lease[l].owner)
    BY StoreRewrites
  <2>2. ((lease' = BindPod(l) /\ lease[l].phase = "pending-create") \/ lease' = lease) /\ pod' = pod
    BY <1>9
    DEF LaunchBind
  <2> QED
    BY <2>1, <2>2
  DEF Rewrites, Moves, IsOpen
<1>10. ASSUME NEW l \in Leases, LaunchCheck(l) PROVE Moves(l)
  BY <1>10 DEF LaunchCheck, Moves
<1>11. ASSUME NEW l \in Leases, LaunchArm(l) PROVE Moves(l)
  BY <1>11 DEF LaunchArm, Moves
<1>12. ASSUME NEW l \in Leases, LaunchBeat(l) PROVE Moves(l)
  <2>1. Rewrites(Heartbeat(l), l, lease[l].phase, lease[l].owner)
    BY StoreRewrites
  <2>2. (lease' = Heartbeat(l) \/ lease' = lease) /\ pod' = pod
    BY <1>12
    DEF LaunchBeat
  <2> QED
    BY <2>1, <2>2
  DEF Rewrites, Moves
<1>13. ASSUME NEW l \in Leases, LaunchObserve(l) PROVE Moves(l)
  BY <1>13 DEF LaunchObserve, Moves
<1>14. ASSUME NEW l \in Leases, LaunchArmingFails(l) PROVE Moves(l)
  BY <1>14 DEF LaunchArmingFails, Moves
<1>15. ASSUME NEW l \in Leases, LaunchRecordArming(l) PROVE Moves(l)
  <2>1. Rewrites(RecordControllerArming(l), l, lease[l].phase, lease[l].owner)
    BY StoreRewrites
  <2>2. (lease' = RecordControllerArming(l) \/ lease' = lease) /\ pod' = pod
    BY <1>15
    DEF LaunchRecordArming
  <2> QED
    BY <2>1, <2>2
  DEF Rewrites, Moves
<1>16. ASSUME NEW l \in Leases, LaunchRecordClose(l) PROVE Moves(l)
  <2> DEFINE verified == shut[l]["launch"] = "verified"
             phase == IF verified THEN "closed-verified" ELSE "close-unverified"
  <2>1. verified \in BOOLEAN /\ (verified => pod[l] = "gone")
    BY DEF IInv, InvPod, Closers
  <2>2. Rewrites(RecordClose(l, verified), l, phase, lease[l].owner)
    BY <2>1, StoreRewrites
  <2>3. ((lease' = RecordClose(l, verified) /\ IsOpen(l)) \/ lease' = lease) /\ pod' = pod
    BY <1>16
    DEF LaunchRecordClose, MayRecordClose, Owns, IsOpen
  <2> QED
    BY <2>1, <2>2, <2>3
  DEF Rewrites, Moves
<1>17. ASSUME NEW l \in Leases, TickTerminal(l) PROVE Moves(l)
  BY <1>17 DEF TickTerminal, Moves
<1>18. ASSUME NEW l \in Leases, TickBusy(l) PROVE Moves(l)
  BY <1>18 DEF TickBusy, Moves
<1>19. ASSUME NEW l \in Leases, TickPending(l) PROVE Moves(l)
  BY <1>19 DEF TickPending, Moves
<1>20. ASSUME NEW l \in Leases, TickOrphan(l) PROVE Moves(l)
  BY <1>20 DEF TickOrphan, Moves
<1>21. ASSUME NEW l \in Leases, TickOwn(l) PROVE Moves(l)
  BY <1>21 DEF TickOwn, Moves
<1>22. ASSUME NEW l \in Leases, WatchClaim(l) PROVE Moves(l)
  <2>1. Rewrites(ClaimIfOrphan(l, token[l]), l, lease[l].phase, token[l])
    BY StoreRewrites DEF WatchTyped
  <2>2. (lease' = ClaimIfOrphan(l, token[l]) \/ lease' = lease) /\ pod' = pod
    BY <1>22 DEF WatchClaim
  <2> QED
    BY <2>1, <2>2
  DEF Rewrites, Moves
<1>23. ASSUME NEW l \in Leases, WatchNote(l) PROVE Moves(l)
  <2>1. Rewrites(NotePendingRecoveryAttempt(l), l, lease[l].phase, lease[l].owner)
    BY StoreRewrites
  <2>2. (lease' = NotePendingRecoveryAttempt(l) \/ lease' = lease) /\ pod' = pod
    BY <1>23
    DEF WatchNote
  <2> QED
    BY <2>1, <2>2
  DEF Rewrites, Moves
<1>24. ASSUME NEW l \in Leases, WatchRecover(l) PROVE Moves(l)
  BY <1>24 DEF WatchRecover, Live, Moves
<1>25. ASSUME NEW l \in Leases, WatchBind(l) PROVE Moves(l)
  <2>1. Rewrites(BindPod(l), l, "active", lease[l].owner)
    BY StoreRewrites
  <2>2. ((lease' = BindPod(l) /\ lease[l].phase = "pending-create") \/ lease' = lease) /\ pod' = pod
    BY <1>25
    DEF WatchBind
  <2> QED
    BY <2>1, <2>2
  DEF Rewrites, Moves, IsOpen
<1>26. ASSUME NEW l \in Leases, WatchBeat(l) PROVE Moves(l)
  BY <1>26 DEF WatchBeat, Moves
<1>27. ASSUME NEW l \in Leases, WatchStatus(l) PROVE Moves(l)
  BY <1>27 DEF WatchStatus, Moves
<1>28. ASSUME NEW l \in Leases, OperatorProbe(l) PROVE Moves(l)
  BY <1>28 DEF OperatorProbe, Live, Moves
<1>29. ASSUME NEW l \in Leases, WatchRecordClose(l) PROVE Moves(l)
  <2> DEFINE verified == shut[l]["watch"] = "verified"
             phase == IF verified THEN "closed-verified" ELSE "close-unverified"
  <2>1. verified \in BOOLEAN /\ (verified => pod[l] = "gone")
    BY DEF IInv, InvPod, Closers
  <2>2. Rewrites(RecordClose(l, verified), l, phase, lease[l].owner)
    BY <2>1, StoreRewrites
  <2>3. ((lease' = RecordClose(l, verified) /\ IsOpen(l)) \/ lease' = lease) /\ pod' = pod
    BY <1>29
    DEF WatchRecordClose, MayRecordClose, Owns, IsOpen
  <2> QED
    BY <2>1, <2>2, <2>3
  DEF Rewrites, Moves
<1>30. ASSUME NEW l \in Leases, TimerStart(l) PROVE Moves(l)
  BY <1>30 DEF TimerStart, Container, Moves
<1>31. ASSUME NEW l \in Leases, TimerExpires(l) PROVE Moves(l)
  BY <1>31 DEF TimerExpires, TimerCloses, Container, Moves
<1>32. ASSUME NEW l \in Leases, TimerRetry(l) PROVE Moves(l)
  BY <1>32 DEF TimerRetry, Container, Moves
<1>33. ASSUME NEW l \in Leases, TimerReports(l) PROVE Moves(l)
  BY <1>33 DEF TimerReports, Container, Moves
<1>34. ASSUME NEW l \in Leases, LaunchCrash(l) PROVE Moves(l)
  BY <1>34 DEF LaunchCrash, Moves
<1>35. ASSUME NEW l \in Leases, WatchCrash(l) PROVE Moves(l)
  BY <1>35 DEF WatchCrash, Moves
<1>36. ASSUME NEW l \in Leases, LoseIdentity(l) PROVE Moves(l)
  BY <1>36 DEF LoseIdentity, Moves
<1>37. ASSUME NEW l \in Leases, WatchStart(l) PROVE Moves(l)
  BY <1>37 DEF WatchStart, Moves
<1>38. ASSUME NEW l \in Leases, OperatorLoad(l) PROVE Moves(l)
  BY <1>38 DEF OperatorLoad, Moves
<1>39. ASSUME NEW l \in Leases, OperatorLock(l) PROVE Moves(l)
  BY <1>39 DEF OperatorLock, Moves
<1>40. ASSUME NEW l \in Leases, TimerChildExits(l) PROVE Moves(l)
  BY <1>40 DEF TimerChildExits, TimerCloses, Container, Moves
<1>41. ASSUME NEW l \in Leases, ProviderCreates(l) PROVE Moves(l)
  BY <1>41 DEF ProviderCreates, Moves, ProviderTyped
<1>42. ASSUME NEW l \in Leases, ProviderDrops(l) PROVE Moves(l)
  BY <1>42 DEF ProviderDrops, Moves, ProviderTyped
<1>43. ASSUME NEW l \in Leases, ProviderRuns(l) PROVE Moves(l)
  BY <1>43 DEF ProviderRuns, Moves, ProviderTyped
<1>44. ASSUME NEW l \in Leases, ProviderExits(l) PROVE Moves(l)
  BY <1>44 DEF ProviderExits, Container, ContainerEnds, Moves, ProviderTyped
<1>45. ASSUME NEW l \in Leases, ProviderKills(l) PROVE Moves(l)
  BY <1>45 DEF ProviderKills, Live, ContainerEnds, Moves, ProviderTyped
<1>46. ASSUME NEW l \in Leases, Expire(l) PROVE Moves(l)
  BY <1>46 DEF Expire, Moves
<1>47. ASSUME NEW l \in Leases, GoStale(l) PROVE Moves(l)
  BY <1>47 DEF GoStale, Moves, LeaseTyped, Record
<1>48. ASSUME NEW l \in Leases, NEW c \in Closers, ShutTerminate(l, c) PROVE Moves(l)
  BY <1>48 DEF ShutTerminate, Live, Moves
<1>49. ASSUME NEW l \in Leases, NEW c \in Closers, ShutObserve(l, c) PROVE Moves(l)
  BY <1>49 DEF ShutObserve, Live, Moves
<1>50. ASSUME NEW l \in Leases, NEW c \in Closers, ShutBill(l, c) PROVE Moves(l)
  BY <1>50 DEF ShutBill, Moves
<1>51. ASSUME NEW l \in Leases, NEW c \in Closers, ShutDeadline(l, c) PROVE Moves(l)
  BY <1>51 DEF ShutDeadline, Moves
<1>53. ASSUME NEW l \in Leases, WatchHeartbeat(l) PROVE Moves(l)
  <2>1. Rewrites(Heartbeat(l), l, lease[l].phase, lease[l].owner)
    BY StoreRewrites
  <2>2. (lease' = Heartbeat(l) \/ lease' = lease) /\ pod' = pod
    BY <1>53
    DEF WatchHeartbeat
  <2> QED
    BY <2>1, <2>2
  DEF Rewrites, Moves
<1>54. ASSUME NEW l \in Leases, WatchUnfit(l) PROVE Moves(l)
  BY <1>54 DEF WatchUnfit, Moves
<1> QED
  BY <1>1, <1>2, <1>3, <1>4, <1>5, <1>6, <1>7, <1>8, <1>9, <1>10, <1>11, <1>12, <1>13,
     <1>14, <1>15, <1>16, <1>17, <1>18, <1>19, <1>20, <1>21, <1>22, <1>23, <1>24, <1>25,
     <1>26, <1>27, <1>28, <1>29, <1>30, <1>31, <1>32, <1>33, <1>34, <1>35, <1>36, <1>37,
     <1>38, <1>39, <1>40, <1>41, <1>42, <1>43, <1>44, <1>45, <1>46, <1>47, <1>48, <1>49,
     <1>50, <1>51, <1>53, <1>54
  DEF Next, LaunchSteps, WatchSteps, TimerSteps, ShutSteps, Environment

\* A function changed at one point only.
LEMMA OneChange ==
    ASSUME NEW f, NEW g, NEW l \in Leases,
           f = [k \in Leases |-> f[k]], g = [k \in Leases |-> g[k]],
           \A k \in Leases : k # l => g[k] = f[k]
    PROVE  g = [f EXCEPT ![l] = g[l]] /\ (g[l] = f[l] => g = f)
  OBVIOUS

\* A move of one lease is a step of the account, or changes nothing in it.
LEMMA AccountStep ==
    ASSUME Typed, Typed', IInv, NEW l \in Leases, Moves(l)
    PROVE  Account!Next \/ UNCHANGED Account!vars
<1> DEFINE e == [k \in Leases |-> IF lease[k].phase = "none" THEN "unused"
                                  ELSE IF IsOpen(k) THEN "open" ELSE "settled"]
           p == [k \in Leases |-> IF Live(k) THEN "live"
                                  ELSE IF pod[k] = "gone" THEN "gone" ELSE "none"]
<1>1. \A k \in Leases : k # l => e'[k] = e[k] /\ p'[k] = p[k]
  BY DEF Moves, IsOpen, Live
<1>2. e = [k \in Leases |-> e[k]] /\ p = [k \in Leases |-> p[k]]
  OBVIOUS
<1>3. e' = [k \in Leases |-> e'[k]] /\ p' = [k \in Leases |-> p'[k]]
  OBVIOUS
<1>4. pod[l] # "none" => lease[l].phase # "none"
  BY DEF IInv, InvPod
<1>5. pod[l] \in {"posted", "starting", "running", "exited"} => IsOpen(l)
  BY DEF IInv, InvPod, IsOpen
<1>6. \/ e'[l] = e[l] /\ p'[l] = p[l]
      \/ /\ e[l] = "unused" /\ e'[l] = "open" /\ (\A m \in Leases : e[m] # "open")
         /\ p'[l] = p[l] \/ p'[l] = "live"
      \/ e[l] = "open" /\ e'[l] = e[l] /\ p[l] = "none" /\ p'[l] = "live"
      \/ e'[l] = e[l] /\ p[l] = "live" /\ p'[l] = "gone"
      \/ e[l] = "open" /\ e'[l] = "settled" /\ p'[l] = p[l] /\ p[l] = "gone"
  BY <1>4, <1>5 DEF Moves, IsOpen, Live
<1>7. \/ Account!Open(l) \/ Account!OpenLive(l) \/ Account!Appear(l)
      \/ Account!Vanish(l) \/ Account!Settle(l)
      => Account!Next
  BY DEF Account!Next
<1>8. e' = e /\ p' = p => UNCHANGED Account!vars
  BY DEF Account!vars
<1>9. /\ e[l] = "unused" /\ (\A m \in Leases : e[m] # "open")
      /\ e' = [e EXCEPT ![l] = "open"] /\ p' = p
      => Account!Open(l)
  BY DEF Account!Open, Account!NoneOpen
<1>10. /\ e[l] = "unused" /\ (\A m \in Leases : e[m] # "open")
       /\ e' = [e EXCEPT ![l] = "open"] /\ p' = [p EXCEPT ![l] = "live"]
       => Account!OpenLive(l)
  BY DEF Account!OpenLive, Account!NoneOpen
<1>11. /\ e[l] = "open" /\ p[l] = "none" /\ p' = [p EXCEPT ![l] = "live"] /\ e' = e
       => Account!Appear(l)
  BY DEF Account!Appear
<1>12. p[l] = "live" /\ p' = [p EXCEPT ![l] = "gone"] /\ e' = e => Account!Vanish(l)
  BY DEF Account!Vanish
<1>13. /\ e[l] = "open" /\ p[l] = "gone" /\ e' = [e EXCEPT ![l] = "settled"] /\ p' = p
       => Account!Settle(l)
  BY DEF Account!Settle
<1> HIDE DEF e, p
<1>14. /\ e' = [e EXCEPT ![l] = e'[l]] /\ (e'[l] = e[l] => e' = e)
       /\ p' = [p EXCEPT ![l] = p'[l]] /\ (p'[l] = p[l] => p' = p)
  BY <1>1, <1>2, <1>3, OneChange
<1> QED
  BY <1>6, <1>7, <1>8, <1>9, <1>10, <1>11, <1>12, <1>13, <1>14

\* The leases, their controllers and the provider keep the account of paid pods.
THEOREM LeasesKeepTheAccount == Spec => AccountKept
<1>1. Init => Account!Init
  BY DEF Init, Account!Init, NoLease, Live
<1>2. Typed /\ IInv /\ Typed' /\ [Next]_vars => [Account!Next]_(Account!vars)
  <2> SUFFICES ASSUME Typed, IInv, Typed', [Next]_vars
               PROVE  Account!Next \/ UNCHANGED Account!vars
    OBVIOUS
  <2>1. CASE UNCHANGED vars
    BY <2>1 DEF vars, Account!vars, IsOpen, Live
  <2>2. CASE ~UNCHANGED vars
    BY <2>2, StepMoves, AccountStep
  <2> QED
    BY <2>1, <2>2
<1> QED
  BY <1>1, <1>2, Safety, PTL DEF Spec, AccountKept, Account!Spec

-----------------------------------------------------------------------------
(* The guard in the pod.                                                   *)

GuardRecord ==
    [at : {"fetching", "watching", "copying", "deleting", "dead"},
     idle : 0..DeleteAfter, deletable : BOOLEAN, warned : BOOLEAN,
     backup : {"", "verified", "nothing", "failed"},
     cpu : {"good", "missed", "lost"}, busy : BOOLEAN,
     failed : BOOLEAN, why : {"", "deadline", "idle"},
     copying : 0..MaxPages, steady : BOOLEAN]
DueRecord ==
    [file : [is : {"none", "junk", "set"}, left : Left],
     guard : [is : {"none", "set"}, left : Left],
     ignored : BOOLEAN, first : Left, cap : Left]
RunRecord ==
    [phase : {"none", "boot", "drive", "sync"}, step : 0..StepMax,
     count : 0..MaxRuns, steady : BOOLEAN]
DiskRecord ==
    [tree : BOOLEAN, made : 0..MaxPages, volume : 0..MaxPages, backup : 0..MaxPages]

\* The type invariant in its named parts.
FilesTyped ==
    /\ line \in {"none", "ok", "slow", "stalled", "bootstrapping"}
    /\ lineAge \in 0..Fresh /\ lastOk \in 0..DeleteAfter /\ keep \in 0..DeleteAfter
    /\ listed \in BOOLEAN
PodTyped ==
    /\ container \in {"up", "gone", "stopped"} /\ mode \in Modes
    /\ owes \subseteq {"guard", "run"} /\ faults \in 0..MaxFaults
PartsTyped ==
    /\ PodTyped /\ FilesTyped
    /\ due \in DueRecord /\ run \in RunRecord /\ disk \in DiskRecord /\ guard \in GuardRecord

LEMMA GuardTypeParts == GuardTypeOK <=> PartsTyped
  BY DEF GuardTypeOK, PartsTyped, PodTyped, FilesTyped, DueRecord, RunRecord, DiskRecord,
         GuardRecord

\* The least and the greatest of two numbers.
LEMMA OfTwo ==
    ASSUME NEW a \in Int, NEW b \in Int
    PROVE  /\ Min({a, b}) \in {a, b} /\ Min({a, b}) <= a /\ Min({a, b}) <= b
           /\ Max({a, b}) \in {a, b} /\ Max({a, b}) >= a /\ Max({a, b}) >= b
<1>1. \E x \in {a, b} : \A y \in {a, b} : x <= y
  BY SMT
<1>2. \E x \in {a, b} : \A y \in {a, b} : x >= y
  BY SMT
<1>3. Min({a, b}) \in {a, b} /\ \A y \in {a, b} : Min({a, b}) <= y
  BY <1>1 DEF Min
<1>4. Max({a, b}) \in {a, b} /\ \A y \in {a, b} : Max({a, b}) >= y
  BY <1>2 DEF Max
<1> QED
  BY <1>3, <1>4

\* The assumption, number by number.
LEMMA GuardSizes ==
    /\ WarnAfter \in Nat /\ BackupAfter \in Nat /\ DeleteAfter \in Nat /\ QuietLimit \in Nat
    /\ LongStep \in Nat /\ Fresh \in Nat /\ Window \in Nat /\ HardMax \in Nat /\ Grace \in Nat
    /\ MaxPages \in Nat /\ MaxRuns \in Nat /\ MaxFaults \in Nat
    /\ 0 < Fresh /\ 0 < WarnAfter /\ WarnAfter < BackupAfter /\ BackupAfter < DeleteAfter
    /\ Window <= HardMax /\ Modes \subseteq {"off", "hours", "budget"}
  BY GuardAssumption

\* What the clock makes of an age, of a deadline and of a step.
LEMMA ClockTyped ==
    /\ \A age \in 0..DeleteAfter : Older(age) \in 0..DeleteAfter
    /\ \A left \in Left : Elapse(left) \in Left
    /\ StepMax \in Nat /\ \A n \in 0..StepMax : Min({n + 1, StepMax}) \in 0..StepMax
    /\ 0 \in Left /\ Window \in Left /\ HardMax \in Left
<1> USE GuardSizes
<1>1. \A age \in 0..DeleteAfter : Older(age) \in 0..DeleteAfter
  BY DEF Older
<1>2. \A left \in Left : Elapse(left) \in Left
  BY DEF Elapse, Left
<1>3. StepMax \in Nat
  <2>1. Max({QuietLimit, LongStep}) \in {QuietLimit, LongStep}
    BY OfTwo
  <2> QED
    BY <2>1 DEF StepMax
<1>4. \A n \in 0..StepMax : Min({n + 1, StepMax}) \in 0..StepMax
  <2> TAKE n \in 0..StepMax
  <2>1. n + 1 \in Int /\ StepMax \in Int
    BY <1>3
  <2>2. /\ Min({n + 1, StepMax}) \in {n + 1, StepMax}
        /\ Min({n + 1, StepMax}) <= StepMax
    BY <2>1, OfTwo
  <2> QED
    BY <1>3, <2>2
<1>5. 0 \in Left /\ Window \in Left /\ HardMax \in Left
  BY DEF Left
<1> QED
  BY <1>1, <1>2, <1>3, <1>4, <1>5

\* Every counter and age may be nought.
LEMMA NoughtTyped ==
    /\ 0 \in 0..DeleteAfter /\ 0 \in 0..Fresh /\ 0 \in 0..MaxPages /\ 0 \in 0..MaxRuns
    /\ 0 \in 0..MaxFaults /\ 0 \in 0..StepMax /\ 0 \in Left /\ DeleteAfter \in 0..DeleteAfter
  BY GuardSizes, ClockTyped

\* What a shell knows, and what the ladder makes of it.
LEMMA LadderTyped ==
    ASSUME PartsTyped
    PROVE  /\ \A at \in {"fetching", "watching", "deleting", "dead"},
                 cpu \in {"good", "missed", "lost"} : Shell(at, cpu) \in GuardRecord
           /\ \A g \in GuardRecord : Climbed(g) \in GuardRecord /\ Ladder(g) \in GuardRecord
<1> USE GuardSizes
<1>1. \A at \in {"fetching", "watching", "deleting", "dead"},
         cpu \in {"good", "missed", "lost"} : Shell(at, cpu) \in GuardRecord
  BY DEF Shell, GuardRecord
<1>2. ASSUME NEW g \in GuardRecord PROVE Climbed(g) \in GuardRecord
  <2>1. [Shell("deleting", "good") EXCEPT !.why = "idle", !.steady = g.steady] \in GuardRecord
    <3>1. g.steady \in BOOLEAN /\ Shell("deleting", "good") \in GuardRecord
      BY <1>1, Zenon DEF GuardRecord
    <3> QED
      BY <3>1, Zenon DEF GuardRecord
  <2>2. [g EXCEPT !.at = "watching", !.deletable = TRUE, !.copying = 0, !.steady = FALSE]
           \in GuardRecord
    BY NoughtTyped, Zenon DEF GuardRecord
  <2> QED
    BY <2>1, <2>2 DEF Climbed
<1>3. ASSUME NEW g \in GuardRecord PROVE Ladder(g) \in GuardRecord
  <2>1. [g EXCEPT !.warned = FALSE, !.backup = ""] \in GuardRecord
    BY DEF GuardRecord
  <2>2. [g EXCEPT !.warned = TRUE, !.backup = "nothing"] \in GuardRecord
    BY DEF GuardRecord
  <2>3. [g EXCEPT !.warned = TRUE] \in GuardRecord
    BY DEF GuardRecord
  <2>4. [g EXCEPT !.warned = TRUE, !.at = "copying", !.copying = disk.made] \in GuardRecord
    BY DEF GuardRecord, PartsTyped, DiskRecord
  <2> QED
    BY <1>2, <2>1, <2>2, <2>3, <2>4 DEF Ladder
<1> QED
  BY <1>1, <1>2, <1>3

\* What a tick finds, before the ladder.
Found(reads, other) ==
    [guard EXCEPT !.cpu = CpuBusy(guard.cpu, reads).cpu,
                  !.busy = line = "none" /\ (reads = "busy" \/ other),
                  !.idle = IdleFor(CpuBusy(guard.cpu, reads).says, other),
                  !.deletable = Deletable,
                  !.steady = run.steady]

LEMMA FoundTyped ==
    ASSUME PartsTyped, NEW reads \in Reads, NEW other \in BOOLEAN
    PROVE  Found(reads, other) \in GuardRecord
<1> USE GuardSizes, ClockTyped DEF PartsTyped, FilesTyped
<1> DEFINE c == CpuBusy(guard.cpu, reads)
<1>1. c.cpu \in {"good", "missed", "lost"}
  BY DEF CpuBusy
<1>2. IdleFor(c.says, other) \in 0..DeleteAfter
  <2>1. guard.idle \in 0..DeleteAfter
    BY DEF GuardRecord
  <2>2. Older(guard.idle) \in Int /\ keep \in Int
    BY <2>1
  <2>3. Min({Older(guard.idle), keep}) \in {Older(guard.idle), keep}
    BY <2>2, OfTwo
  <2>4. Min({Older(guard.idle), keep}) \in 0..DeleteAfter
    BY <2>1, <2>3
  <2> QED
    BY <2>1, <2>4 DEF IdleFor
<1>3. Deletable \in BOOLEAN /\ run.steady \in BOOLEAN
  BY DEF Deletable, RunRecord
<1> QED
  BY <1>1, <1>2, <1>3 DEF Found, GuardRecord

\* A tick ends in the deadline's delete or in what the ladder makes of it.
LEMMA TickEnds ==
    ASSUME PartsTyped, Tick
    PROVE  \/ guard' = [Shell("deleting", "good") EXCEPT !.why = "deadline"]
           \/ \E reads \in Reads, other \in BOOLEAN : guard' = Ladder(Found(reads, other))
  BY DEF Tick, Found

LEMMA GuardTypeInit == GuardInit => PartsTyped
<1> SUFFICES ASSUME GuardInit PROVE PartsTyped
  OBVIOUS
<1> USE GuardSizes, ClockTyped DEF GuardInit
<1>1. PodTyped /\ FilesTyped
  BY NoughtTyped, Zenon DEF PodTyped, FilesTyped
<1>2. due \in DueRecord
  BY DEF DueRecord, Deadline, NoDeadline
<1>3. run \in RunRecord /\ disk \in DiskRecord
  BY DEF RunRecord, DiskRecord
<1>4. guard \in GuardRecord
  BY NoughtTyped, Zenon DEF GuardRecord, Shell
<1> QED
  BY <1>1, <1>2, <1>3, <1>4 DEF PartsTyped

LEMMA GuardTypeStep == PartsTyped /\ [GuardNext]_guardVars => PartsTyped'
<1> SUFFICES ASSUME PartsTyped, [GuardNext]_guardVars PROVE PartsTyped'
  OBVIOUS
<1> USE GuardSizes, ClockTyped DEF PartsTyped, PodTyped, FilesTyped
<1>0. NoRun \in RunRecord /\ Deadline("set", 0) \in [is : {"none", "junk", "set"}, left : Left]
  BY DEF NoRun, RunRecord, Deadline
<1>1. CASE Pass
  <2>1. PodTyped' /\ disk' \in DiskRecord /\ guard' \in GuardRecord
    BY <1>1 DEF Pass
  <2>2. FilesTyped'
    BY <1>1 DEF Pass
  <2>3. due' \in DueRecord
    BY <1>1 DEF Pass, DueRecord
  <2>4. run' \in RunRecord
    BY <1>1 DEF Pass, RunRecord
  <2> QED
    BY <2>1, <2>2, <2>3, <2>4
<1>2. CASE RunStarts
  BY <1>2 DEF RunStarts, Refresh, Says, RunRecord, DiskRecord
<1>3. CASE BootRed
  <2>1. run' \in RunRecord /\ FilesTyped'
    BY <1>3, <1>0, NoughtTyped, Zenon DEF BootRed, Over, ClearsList
  <2>2. PodTyped' /\ due' \in DueRecord /\ disk' \in DiskRecord /\ guard' \in GuardRecord
    BY <1>3 DEF BootRed, Over
  <2> QED
    BY <2>1, <2>2
<1>4. CASE BootGreen
  <2>1. run' \in RunRecord
    BY <1>4, NoughtTyped, Zenon DEF BootGreen, RunRecord
  <2>2. disk' \in DiskRecord
    BY <1>4 DEF BootGreen, DiskRecord
  <2>3. FilesTyped' /\ PodTyped' /\ due' \in DueRecord /\ guard' \in GuardRecord
    BY <1>4 DEF BootGreen, Says
  <2> QED
    BY <2>1, <2>2, <2>3
<1>5. CASE Publish
  BY <1>5 DEF Publish, RunRecord, DiskRecord
<1>6. CASE Boundary
  BY <1>6 DEF Boundary, DiskRecord
<1>7. CASE Report
  <2>1. PICK status \in Judgements :
           /\ Says(status, status = "ok")
           /\ keep' = IF status = "ok" THEN 0 ELSE keep
           /\ run' = [run EXCEPT !.steady = @ /\ status # "stalled"]
    BY <1>7 DEF Report
  <2>2. status \in {"ok", "slow", "stalled"}
    BY DEF Judgements
  <2>3. run' \in RunRecord
    BY <2>1 DEF RunRecord
  <2>4. FilesTyped'
    BY <1>7, <2>1, <2>2 DEF Report, Refresh, Says, DiskRecord
  <2>5. PodTyped' /\ due' \in DueRecord /\ disk' \in DiskRecord /\ guard' \in GuardRecord
    BY <1>7 DEF Report
  <2> QED
    BY <2>3, <2>4, <2>5
<1>8. CASE Ticker
  <2>1. PICK age \in IF run.phase = "boot" THEN {0, run.step} ELSE {run.step} :
           run' = [run EXCEPT !.step = age]
    BY <1>8 DEF Ticker
  <2>2. age \in 0..StepMax
    BY <2>1, NoughtTyped DEF RunRecord
  <2>3. run' \in RunRecord
    BY <2>1, <2>2, Zenon DEF RunRecord
  <2>4. /\ FilesTyped' /\ PodTyped'
        /\ due' \in DueRecord /\ disk' \in DiskRecord /\ guard' \in GuardRecord
    BY <1>8 DEF Ticker, Says
  <2> QED
    BY <2>3, <2>4
<1>9. CASE DriveEnds
  <2>1. run' \in RunRecord
    BY <1>9, NoughtTyped, Zenon DEF DriveEnds, RunRecord
  <2>2. /\ FilesTyped' /\ PodTyped'
        /\ due' \in DueRecord /\ disk' \in DiskRecord /\ guard' \in GuardRecord
    BY <1>9 DEF DriveEnds, Says
  <2> QED
    BY <2>1, <2>2
<1>10. CASE SyncOk
  <2>1. \A alive \in BOOLEAN : Released(alive) \in DueRecord
    BY <1>0 DEF Released, DueRecord
  <2>2. due' \in DueRecord
    BY <1>10, <2>1 DEF SyncOk
  <2>3. disk' \in DiskRecord
    BY <1>10 DEF SyncOk, DiskRecord
  <2>4. PodTyped' /\ run' \in RunRecord /\ guard' \in GuardRecord
    BY <1>10, <1>0 DEF SyncOk, Over
  <2>5. FilesTyped'
    BY <1>10, NoughtTyped, Zenon DEF SyncOk, Over, ClearsList
  <2> QED
    BY <2>2, <2>3, <2>4, <2>5
<1>11. CASE SyncFails
  BY <1>11, <1>0 DEF SyncFails, Over
<1>12. CASE Kill
  BY <1>12, <1>0 DEF Kill, Fault
<1>13. CASE Silent
  <2>1. run' \in RunRecord
    BY <1>13 DEF Silent, RunRecord
  <2>2. /\ FilesTyped' /\ PodTyped'
        /\ due' \in DueRecord /\ disk' \in DiskRecord /\ guard' \in GuardRecord
    BY <1>13 DEF Silent, Fault, Refresh, DiskRecord
  <2> QED
    BY <2>1, <2>2
<1>14. CASE Extend
  <2>1. due' \in DueRecord
    <3>1. \A d \in {Deadline("set", Window), Junk} :
             d \in [is : {"none", "junk", "set"}, left : Left]
      BY DEF Deadline, Junk
    <3> QED
      BY <1>14, <3>1, Zenon DEF Extend, DueRecord
  <2>2. /\ FilesTyped' /\ PodTyped'
        /\ run' \in RunRecord /\ disk' \in DiskRecord /\ guard' \in GuardRecord
    BY <1>14 DEF Extend, Fault
  <2> QED
    BY <2>1, <2>2
<1>15. CASE Touch
  BY <1>15 DEF Touch, Fault
<1>16. CASE GuardStarts
  <2>1. guard' \in GuardRecord
    BY <1>16, LadderTyped DEF GuardStarts
  <2>2. due' \in DueRecord
    BY <1>16 DEF GuardStarts, Deadline, DueRecord
  <2> QED
    BY <1>16, <2>1, <2>2 DEF GuardStarts
<1>17. CASE GuardDies
  BY <1>17, LadderTyped DEF GuardDies, Fault
<1>18. CASE Tick
  <2>1. due' \in DueRecord
    BY <1>18 DEF Tick, Latest, DueRecord
  <2>3. [Shell("deleting", "good") EXCEPT !.why = "deadline"] \in GuardRecord
    <3>1. Shell("deleting", "good") \in GuardRecord
      BY LadderTyped
    <3> QED
      BY <3>1, Zenon DEF GuardRecord
  <2>4. guard' \in GuardRecord
    BY <1>18, <2>3, TickEnds, FoundTyped, LadderTyped
  <2> QED
    BY <1>18, <2>1, <2>4 DEF Tick
<1>19. CASE BackUpEnds
  <2>1. /\ [guard EXCEPT !.backup = "verified"] \in GuardRecord
        /\ [guard EXCEPT !.backup = "failed"] \in GuardRecord
    BY DEF GuardRecord
  <2>2. guard' \in GuardRecord
    BY <1>19, <2>1, LadderTyped DEF BackUpEnds
  <2>3. disk' \in DiskRecord
    <3>1. CASE UNCHANGED disk
      BY <3>1
    <3>2. ASSUME NEW n \in guard.copying..disk.made, disk' = [disk EXCEPT !.backup = n]
          PROVE  disk' \in DiskRecord
      <4>1. guard.copying \in 0..MaxPages /\ disk.made \in 0..MaxPages
        BY DEF GuardRecord, DiskRecord
      <4>2. n \in 0..MaxPages
        BY <4>1
      <4> QED
        BY <3>2, <4>2 DEF DiskRecord
    <3> QED
      BY <1>19, <3>1, <3>2 DEF BackUpEnds
  <2> QED
    BY <1>19, <2>2, <2>3 DEF BackUpEnds
<1>20. CASE DeleteFails
  BY <1>20 DEF DeleteFails, GuardRecord
<1>21. ASSUME NEW how \in {"gone", "stopped"}, PodEnds(how) PROVE PartsTyped'
  BY <1>21, <1>0, LadderTyped DEF PodEnds
<1>22. CASE ShutDown
  BY <1>22, <1>21 DEF ShutDown
<1>23. CASE Backstop
  BY <1>23, <1>21 DEF Backstop
<1>24. CASE UNCHANGED guardVars
  BY <1>24 DEF guardVars
<1> QED
  BY <1>1, <1>2, <1>3, <1>4, <1>5, <1>6, <1>7, <1>8, <1>9, <1>10, <1>11, <1>12, <1>13, <1>14,
     <1>15, <1>16, <1>17, <1>18, <1>19, <1>20, <1>22, <1>23, <1>24 DEF GuardNext

\* The guard's files and its own variables have the shape of GuardTypeOK.
THEOREM GuardTypeCorrect == GuardSpec => []GuardTypeOK
<1>1. PartsTyped => GuardTypeOK
  BY GuardTypeParts
<1> QED
  BY <1>1, GuardTypeInit, GuardTypeStep, PTL DEF GuardSpec

\* A guard that found a run steady found it not deletable, or not idle.
Spares(g) == g.steady => ~(g.deletable /\ g.idle >= DeleteAfter)

\* The ladder deletes under no such run, and lets go of it unless it copies.
LEMMA LadderSpares ==
    ASSUME NEW g \in GuardRecord, Spares(g)
    PROVE  /\ ~Climbed(g).steady
           /\ Ladder(g).steady => Ladder(g).at = "copying" /\ Spares(Ladder(g))
<1>1. ASSUME NEW h \in GuardRecord, Spares(h) PROVE ~Climbed(h).steady
  <2>1. CASE MayDelete(h.idle, h.deletable, h.backup)
    <3>1. ~h.steady
      BY <1>1, <2>1 DEF MayDelete, Spares
    <3>2. Climbed(h) = [Shell("deleting", "good") EXCEPT !.why = "idle", !.steady = h.steady]
      BY <2>1 DEF Climbed
    <3> QED
      BY <3>1, <3>2, Zenon DEF Shell
  <2>2. CASE ~MayDelete(h.idle, h.deletable, h.backup)
    BY <1>1, <2>2 DEF Climbed, GuardRecord
  <2> QED
    BY <2>1, <2>2
<1> DEFINE low == [g EXCEPT !.warned = FALSE, !.backup = ""]
           bare == [g EXCEPT !.warned = TRUE, !.backup = "nothing"]
           high == [g EXCEPT !.warned = TRUE]
           copy == [g EXCEPT !.warned = TRUE, !.at = "copying", !.copying = disk.made]
<1>2. \A h \in {low, bare, high} : h \in GuardRecord /\ Spares(h)
  BY DEF GuardRecord, Spares
<1>3. copy.at = "copying" /\ Spares(copy)
  BY DEF GuardRecord, Spares
<1>4. Ladder(g) \in {Climbed(low), Climbed(bare), Climbed(high), copy}
  BY DEF Ladder
<1> HIDE DEF low, bare, high, copy
<1> QED
  BY <1>1, <1>2, <1>3, <1>4

\* The strengthening, with the type invariant in its parts.
LEMMA SteadyStep ==
    PartsTyped /\ SteadyIsTold /\ SteadyIsKept /\ [GuardNext]_guardVars
        => SteadyIsTold' /\ SteadyIsKept'
<1> SUFFICES ASSUME PartsTyped, SteadyIsTold, SteadyIsKept, [GuardNext]_guardVars
             PROVE  SteadyIsTold' /\ SteadyIsKept'
  OBVIOUS
<1> USE GuardSizes
\* Only RunStarts, the reports and the clock touch a steady run or its line.
<1>1. CASE Pass
  <2>1. SteadyIsKept'
    BY <1>1 DEF Pass, SteadyIsKept
  <2>2. run'.steady = run.steady /\ run'.phase = run.phase
    BY <1>1 DEF Pass, PartsTyped, RunRecord
  <2>3. run.phase # "none" => "run" \in owes'
    BY <1>1 DEF Pass
  <2>4. SteadyIsTold'
    BY <1>1, <2>2, <2>3 DEF Pass, SteadyIsTold
  <2> QED
    BY <2>1, <2>4
<1>2. CASE RunStarts
  BY <1>2 DEF RunStarts, Says, SteadyIsTold, SteadyIsKept
<1>3. ASSUME ~run'.steady, UNCHANGED guard
      PROVE  SteadyIsTold' /\ SteadyIsKept'
  BY <1>3 DEF SteadyIsTold, SteadyIsKept
<1>4. CASE BootRed \/ SyncOk \/ SyncFails \/ Kill
  BY <1>3, <1>4 DEF BootRed, SyncOk, SyncFails, Kill, Over, NoRun
<1>5. CASE BootGreen
  BY <1>5 DEF BootGreen, Says, SteadyIsTold, SteadyIsKept, PartsTyped, RunRecord
<1>6. CASE Publish
  BY <1>6 DEF Publish, SteadyIsTold, SteadyIsKept, PartsTyped, RunRecord
<1>7. CASE Report
  <2>1. PICK status \in Judgements :
           /\ line' = status /\ lineAge' = 0
           /\ run' = [run EXCEPT !.steady = @ /\ status # "stalled"]
    BY <1>7 DEF Report, Says
  <2>2. status \in {"ok", "slow", "stalled"}
    BY DEF Judgements
  <2>3. run'.phase = run.phase /\ (run'.steady => run.steady /\ status # "stalled")
    BY <2>1, Zenon DEF PartsTyped, RunRecord
  <2> QED
    BY <1>7, <2>1, <2>2, <2>3 DEF Report, SteadyIsTold, SteadyIsKept
<1>8. CASE Ticker
  BY <1>8 DEF Ticker, Says, SteadyIsTold, SteadyIsKept
<1>9. CASE DriveEnds
  BY <1>9 DEF DriveEnds, Says, SteadyIsTold, SteadyIsKept, PartsTyped, RunRecord
<1>10. CASE Silent
  BY <1>3, <1>10 DEF Silent, PartsTyped, RunRecord
<1>11. CASE Boundary \/ Extend \/ Touch
  BY <1>11 DEF Boundary, Extend, Touch, SteadyIsTold, SteadyIsKept
<1>12. ASSUME NEW at, NEW cpu, guard' = Shell(at, cpu),
              UNCHANGED <<run, line, lineAge>>, "run" \in owes <=> "run" \in owes'
       PROVE  SteadyIsTold' /\ SteadyIsKept'
  BY <1>12 DEF Shell, SteadyIsTold, SteadyIsKept
<1>13. CASE GuardStarts
  BY <1>12, <1>13 DEF GuardStarts
<1>14. CASE GuardDies
  BY <1>12, <1>14 DEF GuardDies
\* What the tick finds of a steady run is not to be deleted, or not idle.
<1>15. CASE Tick
  <2>1. SteadyIsTold'
    BY <1>15 DEF Tick, SteadyIsTold
  <2>2. CASE guard' = [Shell("deleting", "good") EXCEPT !.why = "deadline"]
    BY <2>1, <2>2 DEF Shell, SteadyIsKept
  <2>3. ASSUME NEW reads \in Reads, NEW other \in BOOLEAN,
               guard' = Ladder(Found(reads, other))
        PROVE  SteadyIsKept'
    <3> DEFINE g == Found(reads, other)
    <3>1. /\ g \in GuardRecord
          /\ g.steady => run.steady
          /\ g.deletable => Deletable
          /\ g.idle = IdleFor(CpuBusy(guard.cpu, reads).says, other)
      <4>1. g.steady = run.steady /\ g.deletable = Deletable
        BY Zenon DEF Found, PartsTyped, GuardRecord
      <4>2. g.idle = IdleFor(CpuBusy(guard.cpu, reads).says, other)
        BY Zenon DEF Found, PartsTyped, GuardRecord
      <4> QED
        BY <4>1, <4>2, FoundTyped
    <3>2. line = "ok" => IdleFor(CpuBusy(guard.cpu, reads).says, other) = 0
      BY DEF IdleFor
    <3>3. Spares(g)
      BY <3>1, <3>2 DEF Spares, SteadyIsTold, Deletable
    <3> QED
      BY <2>3, <3>1, <3>3, LadderSpares DEF SteadyIsKept, Spares
  <2> QED
    BY <1>15, <2>1, <2>2, <2>3, TickEnds
\* Nor does its backup, well or ill, change what the tick found.
<1>16. CASE BackUpEnds
  <2>1. \E b \in {"verified", "failed"} : guard' = Climbed([guard EXCEPT !.backup = b])
    BY <1>16 DEF BackUpEnds
  <2>2. \A b \in {"verified", "failed"} :
           LET g == [guard EXCEPT !.backup = b] IN g \in GuardRecord /\ Spares(g)
    BY DEF PartsTyped, GuardRecord, SteadyIsKept, Spares
  <2>3. SteadyIsKept'
    BY <2>1, <2>2, LadderSpares DEF SteadyIsKept
  <2> QED
    BY <1>16, <2>3 DEF BackUpEnds, SteadyIsTold
<1>17. CASE DeleteFails
  BY <1>17 DEF DeleteFails, SteadyIsTold, SteadyIsKept, PartsTyped, GuardRecord
<1>18. CASE ShutDown \/ Backstop
  <2>1. \E how : PodEnds(how)
    BY <1>18 DEF ShutDown, Backstop
  <2>2. run' = NoRun /\ guard' = Shell("dead", "good")
    BY <2>1 DEF PodEnds
  <2>3. ~run'.steady /\ ~guard'.steady
    BY <2>2, Zenon DEF NoRun, Shell
  <2> QED
    BY <2>3 DEF SteadyIsTold, SteadyIsKept
<1>19. CASE UNCHANGED guardVars
  BY <1>19 DEF guardVars, SteadyIsTold, SteadyIsKept
<1> QED
  BY <1>1, <1>2, <1>4, <1>5, <1>6, <1>7, <1>8, <1>9, <1>10, <1>11, <1>13, <1>14, <1>15, <1>16,
     <1>17, <1>18, <1>19 DEF GuardNext

\* The inductive invariant.
LEMMA GuardInvariant == GuardSpec => [](PartsTyped /\ SteadyIsTold /\ SteadyIsKept)
<1>1. GuardInit => SteadyIsTold /\ SteadyIsKept
  <2>1. GuardInit => ~run.steady /\ ~guard.steady
    <3>1. GuardInit => ~run.steady
      BY SMT DEF GuardInit
    <3>2. GuardInit => guard = Shell("fetching", "good")
      BY DEF GuardInit
    <3>3. ~Shell("fetching", "good").steady
      BY DEF Shell
    <3> QED
      BY <3>1, <3>2, <3>3
  <2> QED
    BY <2>1 DEF SteadyIsTold, SteadyIsKept
<1> QED
  BY <1>1, GuardTypeInit, GuardTypeStep, SteadyStep, PTL DEF GuardSpec

\* The ladder never deletes a pod under a run that reported in every unit and was
\* never stalled, whatever its steps and however often pod_run came and went.
THEOREM SteadyRunAlwaysSpared == GuardSpec => []SteadyRunIsSpared
<1>1. SteadyIsKept => SteadyRunIsSpared
  BY DEF SteadyIsKept, SteadyRunIsSpared
<1> QED
  BY <1>1, GuardInvariant, PTL

=============================================================================
