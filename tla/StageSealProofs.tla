-------------------------- MODULE StageSealProofs --------------------------
(***************************************************************************)
(* Proofs about StageSeal, for every set of artifacts, decoders and        *)
(* passes and every bound.  BoundaryInv is the inductive invariant; each   *)
(* action preserves it, and the safety properties follow from it.          *)
(***************************************************************************)
EXTENDS StageSeal, TLAPS

PassRecord == [pc : PassPc, walk : SUBSET Ordinal, ord : 0 .. MaxSeal, payload : SealOrNone]

ReaderRecord == [pc : ReaderPc, route : Route, got : [Ordinal -> SealOrNone],
                 inv : SUBSET Artifact, floor : SUBSET Ordinal, ord : 0 .. MaxSeal]

(* A step of one pass that leaves the seals alone keeps the invariant when *)
(* the pass's new record is sound over them.                               *)
LEMMA PassMoves ==
    ASSUME BoundaryInv, NEW p \in Pass, NEW rec \in PassRecord, PassSound(rec),
           pass' = [pass EXCEPT ![p] = rec],
           UNCHANGED <<disk, machine, reader, missed, losses, damaged>>,
           crashes' \in 0 .. MaxCrash
    PROVE  BoundaryInv'
<1> USE DEF disk
<1>1. TypeOK' BY DEF BoundaryInv, TypeOK, PassRecord
<1>2. PassesSound'
  <2> SUFFICES ASSUME NEW q \in Pass PROVE PassSound(pass[q])'
    BY DEF PassesSound
  <2>1. pass'[q] = rec \/ pass'[q] = pass[q] BY DEF BoundaryInv, TypeOK
  <2>2. PassSound(pass[q]) BY DEF BoundaryInv, PassesSound
  <2>3. Present' = Present BY DEF Present, Stored
  <2>4. WalkSound(pass[q])' BY <2>1, <2>2, <2>3 DEF PassSound, WalkSound
  <2>5. AttemptSound(pass[q])' BY <2>1, <2>2, <2>3 DEF PassSound, AttemptSound
  <2>6. PayloadSound(pass[q])' BY <2>1, <2>2 DEF PassSound, PayloadSound
  <2>7. ManifestRead(pass[q])' BY <2>1, <2>2 DEF PassSound, ManifestRead
  <2> QED BY <2>4, <2>5, <2>6, <2>7 DEF PassSound
<1>3. SealsStated' /\ SealsGrow'
  BY DEF BoundaryInv, SealsStated, SealsGrow, Present, Stored
<1>4. ManifestSound'
  BY DEF BoundaryInv, ManifestSound, NamedSealNeverRecreated, Present, Stored
<1>5. ReaderSound'
  BY DEF BoundaryInv, ReaderSound, AcceptedNotBelowNamed, LatestAttempt, Stored
<1> QED BY <1>1, <1>2, <1>3, <1>4, <1>5 DEF BoundaryInv

(* A pass that holds nothing it read has nothing to keep sound.            *)
LEMMA QuietRecord ==
    ASSUME NEW rec, rec.pc \in {"idle", "working", "refused"}
    PROVE  PassSound(rec)
BY DEF PassSound, WalkSound, AttemptSound, PayloadSound, ManifestRead,
       HoldsWalk, HoldsOrdinal, PastManifest

(* A pass that starts over from NoPass, at another place.                  *)
LEMMA BlankRecord ==
    ASSUME NEW pc \in PassPc
    PROVE  /\ [NoPass EXCEPT !.pc = pc] \in PassRecord
           /\ [NoPass EXCEPT !.pc = pc].pc = pc
           /\ NoPass \in PassRecord
           /\ NoPass.pc = "idle"
BY BoundsAssumption DEF NoPass, PassRecord, PassPc, SealOrNone

(* A step of the reader or of the decoders: the disk and the passes stay.  *)
LEMMA ReaderMoves ==
    ASSUME BoundaryInv, UNCHANGED <<disk, pass, faults>>,
           machine' \in Env, reader' \in ReaderRecord, ReaderSound'
    PROVE  BoundaryInv'
<1> USE DEF disk, faults
<1>1. TypeOK' BY DEF BoundaryInv, TypeOK, ReaderRecord
<1>2. PassesSound'
  <2>1. Present' = Present BY DEF Present, Stored
  <2> QED BY <2>1 DEF BoundaryInv, PassesSound, PassSound, WalkSound, AttemptSound,
                      PayloadSound, ManifestRead
<1>3. SealsStated' /\ SealsGrow'
  BY DEF BoundaryInv, SealsStated, SealsGrow, Present, Stored
<1>4. ManifestSound'
  BY DEF BoundaryInv, ManifestSound, NamedSealNeverRecreated, Present, Stored
<1> QED BY <1>1, <1>2, <1>3, <1>4 DEF BoundaryInv

LEMMA InitHolds == Init => BoundaryInv
<1> SUFFICES ASSUME Init PROVE BoundaryInv OBVIOUS
<1> USE BoundsAssumption, NoneAssumption DEF Init, NoPass, NoReader
<1>1. TypeOK
  <2>1. NoPass \in PassRecord BY DEF PassRecord, PassPc, SealOrNone
  <2>2. NoReader \in ReaderRecord BY DEF ReaderRecord, ReaderPc, Route, SealOrNone
  <2>3. damaged \in BOOLEAN BY Zenon DEF Init
  <2> QED BY <2>1, <2>2, <2>3 DEF TypeOK, PassRecord, ReaderRecord, SealOrNone
<1>2. PassesSound BY QuietRecord DEF PassesSound
<1>3. SealsStated /\ SealsGrow BY DEF SealsStated, SealsGrow, Present, Stored
<1>4. ManifestSound BY DEF ManifestSound, NamedSealNeverRecreated
<1>5. ReaderSound BY DEF ReaderSound, AcceptedNotBelowNamed
<1> QED BY <1>1, <1>2, <1>3, <1>4, <1>5 DEF BoundaryInv

-----------------------------------------------------------------------------
(* The producer's steps.                                                   *)

LEMMA PublishHolds ==
    ASSUME BoundaryInv, NEW p \in Pass, NEW a \in Artifact, Publish(p, a)
    PROVE  BoundaryInv'
<1> USE DEF Publish, faults
<1>1. TypeOK' BY DEF BoundaryInv, TypeOK
<1>2. PassesSound'
  <2> SUFFICES ASSUME NEW q \in Pass PROVE PassSound(pass[q])'
    BY DEF PassesSound
  <2>1. PassSound(pass[q]) /\ Present' = Present
    BY DEF BoundaryInv, PassesSound, Present, Stored
  <2>2. WalkSound(pass[q])' BY <2>1 DEF PassSound, WalkSound
  <2>3. AttemptSound(pass[q])' BY <2>1 DEF PassSound, AttemptSound
  <2>4. PayloadSound(pass[q])' BY <2>1 DEF PassSound, PayloadSound
  <2>5. ManifestRead(pass[q])' BY <2>1 DEF PassSound, ManifestRead
  <2> QED BY <2>2, <2>3, <2>4, <2>5 DEF PassSound
<1>3. SealsStated' /\ SealsGrow'
  BY DEF BoundaryInv, SealsStated, SealsGrow, Present, Stored
<1>4. ManifestSound'
  BY DEF BoundaryInv, ManifestSound, NamedSealNeverRecreated, Present, Stored
<1>5. ReaderSound'
  BY DEF BoundaryInv, ReaderSound, AcceptedNotBelowNamed, LatestAttempt, Stored
<1> QED BY <1>1, <1>2, <1>3, <1>4, <1>5 DEF BoundaryInv

(* A walk of the stage, for the list of seals or for a manifest.           *)
LEMMA WalksHold ==
    ASSUME BoundaryInv, NEW p \in Pass, FinishEarly(p) \/ CheckList(p) \/ Finish(p)
    PROVE  BoundaryInv'
<1> DEFINE rec(pc) == [pass[p] EXCEPT !.pc = pc, !.walk = Present]
<1>1. PICK pc \in HoldsWalk :
          /\ pass' = [pass EXCEPT ![p] = rec(pc)]
          /\ pc = "walkedFirst" => ManifestFirst
          /\ pc = "walkedLast" => pass[p].pc = "sealed"
  <2>1. CASE FinishEarly(p) BY <2>1 DEF FinishEarly, Walk, HoldsWalk
  <2>2. CASE CheckList(p) BY <2>2 DEF CheckList, Walk, HoldsWalk
  <2>3. CASE Finish(p) BY <2>3 DEF Finish, Walk, HoldsWalk
  <2> QED BY <2>1, <2>2, <2>3
<1>2. UNCHANGED <<disk, machine, reader, faults>> BY DEF FinishEarly, CheckList, Finish
<1>3. rec(pc) \in PassRecord /\ rec(pc).pc = pc /\ rec(pc).walk = Present
  BY DEF BoundaryInv, TypeOK, PassRecord, PassPc, HoldsWalk, Present, Stored
<1> HIDE DEF rec
<1>4. WalkSound(rec(pc)) BY <1>3 DEF WalkSound
<1>5. AttemptSound(rec(pc)) /\ PayloadSound(rec(pc))
  BY <1>3 DEF AttemptSound, PayloadSound, HoldsWalk, HoldsOrdinal
<1>6. ManifestRead(rec(pc))
  BY <1>1, <1>3 DEF ManifestRead, HoldsWalk, HoldsOrdinal, PastManifest, BoundaryInv,
                    PassesSound, PassSound
<1> QED BY <1>1, <1>2, <1>3, <1>4, <1>5, <1>6, PassMoves DEF PassSound, faults, BoundaryInv, TypeOK

(* The manifest may be replaced by an older walk: what it names is still   *)
(* on disk, and a pass that gets this far saw no named seal missing.       *)
LEMMA WriteManifestHolds ==
    ASSUME BoundaryInv, NEW p \in Pass, WriteManifest(p)
    PROVE  BoundaryInv'
<1> USE BoundsAssumption DEF faults
<1>1. PICK rec \in PassRecord :
          /\ pass' = [pass EXCEPT ![p] = rec]
          /\ \/ rec.pc = "idle"
             \/ rec.pc = "inventoried" /\ pass[p].pc = "walkedFirst"
  <2>1. CASE pass[p].pc = "walkedLast" BY <2>1, BlankRecord DEF WriteManifest, PassPc
  <2>2. CASE pass[p].pc = "walkedFirst"
    BY <2>2, BlankRecord DEF WriteManifest, PassPc
  <2> QED BY <2>1, <2>2 DEF WriteManifest
<1>2. /\ named' = pass[p].walk
      /\ UNCHANGED <<published, envs, seals, machine, reader, faults>>
  BY DEF WriteManifest
<1>3. Present' = Present BY <1>2 DEF Present, Stored
<1>4. PassSound(pass[p]) /\ pass[p] \in PassRecord
  BY DEF BoundaryInv, PassesSound, TypeOK, PassRecord
<1>5. named' \subseteq Present /\ (~ManifestFirst => missed = {})
  BY <1>2, <1>4 DEF WriteManifest, PassSound, WalkSound, ManifestRead, HoldsWalk, PastManifest
<1>6. TypeOK' BY <1>1, <1>2, <1>4 DEF BoundaryInv, TypeOK, PassRecord
<1>7. PassSound(rec)
  BY <1>1, <1>4 DEF PassSound, WalkSound, AttemptSound, PayloadSound, ManifestRead,
                    HoldsWalk, HoldsOrdinal, PastManifest
<1>8. PassesSound'
  <2> SUFFICES ASSUME NEW q \in Pass PROVE PassSound(pass[q])'
    BY DEF PassesSound
  <2>1. pass'[q] = rec \/ pass'[q] = pass[q] BY <1>1 DEF BoundaryInv, TypeOK
  <2>2. PassSound(pass[q]) BY DEF BoundaryInv, PassesSound
  <2>3. WalkSound(pass[q])' BY <1>3, <1>7, <2>1, <2>2 DEF PassSound, WalkSound
  <2>4. AttemptSound(pass[q])' BY <1>2, <1>3, <1>7, <2>1, <2>2 DEF PassSound, AttemptSound
  <2>5. PayloadSound(pass[q])' BY <1>2, <1>7, <2>1, <2>2 DEF PassSound, PayloadSound
  <2>6. ManifestRead(pass[q])' BY <1>2, <1>7, <2>1, <2>2 DEF PassSound, ManifestRead
  <2> QED BY <2>3, <2>4, <2>5, <2>6 DEF PassSound
<1>9. SealsStated' /\ SealsGrow'
  BY <1>2, <1>3 DEF BoundaryInv, SealsStated, SealsGrow
<1>10. ManifestSound'
  BY <1>2, <1>3, <1>5 DEF BoundaryInv, ManifestSound, NamedSealNeverRecreated
<1>11. ReaderSound'
  BY <1>2 DEF BoundaryInv, ReaderSound, AcceptedNotBelowNamed, LatestAttempt, Stored
<1> QED BY <1>6, <1>8, <1>9, <1>10, <1>11 DEF BoundaryInv

(* Past the check no seal the manifest ever named is missing.              *)
LEMMA CheckPriorHolds ==
    ASSUME BoundaryInv, NEW p \in Pass, CheckPrior(p)
    PROVE  BoundaryInv'
<1> USE BoundsAssumption
<1>1. PICK n \in 0 .. MaxSeal :
          /\ LatestAttempt(pass[p].walk, n)
          /\ pass' = [pass EXCEPT ![p] = [NoPass EXCEPT !.pc = "numbered", !.ord = n]]
  BY DEF CheckPrior
<1> DEFINE rec == [NoPass EXCEPT !.pc = "numbered", !.ord = n]
<1>2. rec \in PassRecord /\ rec.pc = "numbered" /\ rec.ord = n
  BY DEF NoPass, PassRecord, PassPc, SealOrNone
<1>3. pass[p].pc = "listed" /\ named \subseteq pass[p].walk /\ PassSound(pass[p])
  BY DEF CheckPrior, NoDeletedSeal, BoundaryInv, PassesSound
<1>4. pass[p].walk \subseteq Present BY <1>3 DEF PassSound, WalkSound, HoldsWalk
<1>5. PICK m \in 0 .. MaxSeal : LatestAttempt(Present, m) /\ n <= m
  <2>1. CASE Present = pass[p].walk BY <1>1, <2>1
  <2>2. ASSUME NEW m \in 0 .. MaxSeal, LatestAttempt(Present, m) PROVE n <= m
    BY <1>1, <1>4, <2>2 DEF LatestAttempt
  <2> QED BY <1>3, <2>1, <2>2 DEF PassSound, WalkSound
<1> HIDE DEF rec
<1>6. WalkSound(rec) /\ PayloadSound(rec) BY <1>2 DEF WalkSound, PayloadSound, HoldsWalk
<1>7. AttemptSound(rec) BY <1>2, <1>5 DEF AttemptSound, HoldsOrdinal
<1>8. ~ManifestFirst => missed = {}
  BY <1>3, <1>4 DEF BoundaryInv, TypeOK, ManifestSound, NamedSealNeverRecreated, Present, Stored
<1>9. ManifestRead(rec) BY <1>2, <1>8 DEF ManifestRead
<1>10. pass' = [pass EXCEPT ![p] = rec] /\ UNCHANGED <<disk, machine, reader, faults>>
  BY <1>1 DEF CheckPrior, rec
<1> QED BY <1>2, <1>6, <1>7, <1>9, <1>10, PassMoves DEF PassSound, faults, BoundaryInv, TypeOK

LEMMA CheckReuseHolds ==
    ASSUME BoundaryInv, NEW p \in Pass, CheckReuse(p)
    PROVE  BoundaryInv'
<1> DEFINE rec == [NoPass EXCEPT !.pc = "sealed"]
<1>1. rec \in PassRecord /\ rec.pc = "sealed" BY BlankRecord DEF PassPc
<1>2. pass' = [pass EXCEPT ![p] = rec] /\ UNCHANGED <<disk, machine, reader, faults>>
  BY DEF CheckReuse
<1>3. pass[p].pc = "numbered" /\ PassSound(pass[p])
  BY DEF CheckReuse, BoundaryInv, PassesSound
<1> HIDE DEF rec
<1>4. WalkSound(rec) /\ AttemptSound(rec) /\ PayloadSound(rec)
  BY <1>1 DEF WalkSound, AttemptSound, PayloadSound, HoldsWalk, HoldsOrdinal
<1>5. ManifestRead(rec) BY <1>1, <1>3 DEF PassSound, ManifestRead, PastManifest
<1> QED BY <1>1, <1>2, <1>4, <1>5, PassMoves DEF PassSound, faults, BoundaryInv, TypeOK

(* The prior seal does not state the disk: the inventory has outgrown it   *)
(* and every seal before it.                                               *)
LEMMA CheckNextHolds ==
    ASSUME BoundaryInv, NEW p \in Pass, CheckNext(p)
    PROVE  BoundaryInv'
<1> USE BoundsAssumption, NoneAssumption
<1> DEFINE n == pass[p].ord
           rec == [pass[p] EXCEPT !.pc = "checked", !.ord = n + 1]
<1>1. /\ pass[p].pc = "numbered" /\ n < MaxSeal /\ ~StatesTheDisk(n)
      /\ pass' = [pass EXCEPT ![p] = rec]
      /\ UNCHANGED <<disk, machine, reader, faults>>
  BY DEF CheckNext
<1>2. pass[p] \in PassRecord /\ PassSound(pass[p]) /\ n \in 0 .. MaxSeal
  BY DEF BoundaryInv, TypeOK, PassRecord, PassesSound
<1>3. rec \in PassRecord /\ rec.pc = "checked" /\ rec.ord = n + 1
  <2>1. n + 1 \in 0 .. MaxSeal BY <1>1, <1>2
  <2> HIDE DEF n
  <2> QED BY <1>2, <2>1 DEF PassRecord, PassPc
<1>4. PICK m \in 0 .. MaxSeal : LatestAttempt(Present, m) /\ n <= m
  BY <1>1, <1>2 DEF PassSound, AttemptSound
<1> HIDE DEF n, rec
<1>5. AttemptSound(rec)
  <2>1. ASSUME ~damaged, NEW i \in Ordinal, i < n + 1
        PROVE  seals[i].inv \subseteq published /\ seals[i].inv # published
    <3>1. n \in Ordinal /\ i \in Present /\ n \in Present /\ n > 0
      BY <1>2, <1>4, <2>1 DEF LatestAttempt, Ordinal
    <3>2. seals[i].inv \subseteq published /\ seals[n].inv \subseteq published
      BY <2>1, <3>1 DEF BoundaryInv, SealsStated
    <3>3. CASE i = n
      (* the seal names the decode-environment on disk, so only its        *)
      (* inventory can differ from the recomputed payload                  *)
      <4>1. seals[n] \in Seal /\ seals[n].env = envs[n]
        BY <3>1 DEF BoundaryInv, TypeOK, SealOrNone, SealsStated, Present, Stored
      <4>2. seals[n] # [inv |-> published, env |-> envs[n]]
        BY <1>1, <3>1 DEF StatesTheDisk, SealPayload
      <4> QED BY <3>2, <3>3, <4>1, <4>2 DEF Seal
    <3>4. CASE i < n
      <4>1. seals[i].inv \subseteq seals[n].inv /\ seals[i].inv # seals[n].inv
        BY <2>1, <3>1, <3>4 DEF BoundaryInv, SealsGrow
      <4> QED BY <3>2, <4>1
    <3>5. i = n \/ i < n BY <1>2, <2>1 DEF Ordinal
    <3> QED BY <3>3, <3>4, <3>5
  <2>2. n + 1 \in Ordinal /\ n + 1 <= m + 1 BY <1>1, <1>2, <1>4 DEF Ordinal
  <2> QED BY <1>3, <1>4, <2>1, <2>2 DEF AttemptSound
<1>6. WalkSound(rec) /\ PayloadSound(rec) BY <1>3 DEF WalkSound, PayloadSound, HoldsWalk
<1>7. ManifestRead(rec)
  BY <1>1, <1>2, <1>3 DEF PassSound, ManifestRead, PastManifest
<1> QED BY <1>1, <1>3, <1>5, <1>6, <1>7, PassMoves DEF PassSound, faults, BoundaryInv, TypeOK

(* The steps that only start a pass, refuse it or end it.                  *)
LEMMA QuietStepsHold ==
    ASSUME BoundaryInv, NEW p \in Pass,
           OpenPass(p) \/ CheckRefuse(p) \/ ExitRefused(p) \/ Crash(p)
    PROVE  BoundaryInv'
<1> USE BoundsAssumption DEF faults
<1>1. crashes \in 0 .. MaxCrash /\ pass[p] \in PassRecord
  BY DEF BoundaryInv, TypeOK, PassRecord
<1>2. PICK rec \in PassRecord :
          rec.pc \in {"idle", "working", "refused"} /\ pass' = [pass EXCEPT ![p] = rec]
  <2>1. CASE OpenPass(p)
    <3> DEFINE rec == [pass[p] EXCEPT !.pc = "working"]
    <3>1. rec \in PassRecord /\ rec.pc = "working" BY <1>1 DEF PassRecord, PassPc
    <3>2. pass' = [pass EXCEPT ![p] = rec] BY <2>1 DEF OpenPass, Goto
    <3> QED BY <3>1, <3>2
  <2>2. CASE CheckRefuse(p) BY <2>2, BlankRecord DEF CheckRefuse, PassPc
  <2>3. CASE ExitRefused(p) \/ Crash(p) BY <2>3, BlankRecord DEF ExitRefused, Crash, PassPc
  <2> QED BY <2>1, <2>2, <2>3
<1>3. crashes' \in 0 .. MaxCrash /\ UNCHANGED <<disk, machine, reader, missed, losses, damaged>>
  BY <1>1 DEF OpenPass, CheckRefuse, ExitRefused, Crash
<1>4. PassSound(rec) BY <1>2, QuietRecord
<1> QED BY <1>2, <1>3, <1>4, PassMoves

(* An attempt's decode-environment is written once, so no seal's witness   *)
(* of it moves.                                                            *)
LEMMA PublishEnvHolds ==
    ASSUME BoundaryInv, NEW p \in Pass, PublishEnv(p)
    PROVE  BoundaryInv'
<1> USE NoneAssumption DEF faults
<1>1. pass[p] \in PassRecord /\ pass[p].pc = "checked"
  BY DEF BoundaryInv, TypeOK, PassRecord, PublishEnv
<1>2. PassSound(pass[p]) BY DEF BoundaryInv, PassesSound
<1>3. pass[p].ord \in Ordinal BY <1>1, <1>2 DEF PassSound, AttemptSound, HoldsOrdinal
<1>4. CASE ~Immutable(envs[pass[p].ord], machine)
  <2> DEFINE rec == [NoPass EXCEPT !.pc = "refused"]
  <2>1. rec \in PassRecord /\ rec.pc = "refused" BY BlankRecord DEF PassPc
  <2>2. pass' = [pass EXCEPT ![p] = rec] /\ UNCHANGED <<disk, machine, reader, faults>>
    BY <1>4 DEF PublishEnv, disk
  <2> HIDE DEF rec
  <2>3. PassSound(rec) BY <2>1, QuietRecord
  <2> QED BY <2>1, <2>2, <2>3, PassMoves DEF BoundaryInv, TypeOK
<1>5. CASE Immutable(envs[pass[p].ord], machine)
  <2> DEFINE rec == [pass[p] EXCEPT !.pc = "witnessed"]
  <2>1. /\ envs' = [envs EXCEPT ![pass[p].ord] = machine]
        /\ pass' = [pass EXCEPT ![p] = rec]
        /\ UNCHANGED <<published, seals, named, machine, reader, faults>>
    BY <1>5 DEF PublishEnv, Goto
  <2>2. rec \in PassRecord /\ rec.pc = "witnessed" /\ rec.ord = pass[p].ord
    BY <1>1 DEF PassRecord, PassPc
  <2> HIDE DEF rec
  <2>3. \A n \in Ordinal : envs[n] # None => envs'[n] = envs[n]
    BY <1>3, <1>5, <2>1 DEF Immutable, BoundaryInv, TypeOK
  <2>4. envs'[pass[p].ord] # None BY <1>3, <2>1 DEF BoundaryInv, TypeOK
  <2>5. TypeOK' BY <2>1, <2>2 DEF BoundaryInv, TypeOK, PassRecord
  <2>6. Present' = Present BY <2>1 DEF Present, Stored
  <2>7. PassesSound'
    <3> SUFFICES ASSUME NEW q \in Pass PROVE PassSound(pass[q])'
      BY DEF PassesSound
    <3>1. CASE q = p
      <4>1. pass'[q] = rec BY <2>1, <3>1 DEF BoundaryInv, TypeOK
      <4>2. WalkSound(pass[q])' BY <2>2, <4>1 DEF WalkSound, HoldsWalk
      <4>3. AttemptSound(pass[q])'
        BY <1>1, <1>2, <2>1, <2>2, <2>6, <4>1 DEF PassSound, AttemptSound, HoldsOrdinal
      <4>4. PayloadSound(pass[q])' BY <2>2, <2>4, <4>1 DEF PayloadSound
      <4>5. ManifestRead(pass[q])'
        BY <1>1, <1>2, <2>1, <2>2, <4>1 DEF PassSound, ManifestRead, PastManifest, HoldsOrdinal
      <4> QED BY <4>2, <4>3, <4>4, <4>5 DEF PassSound
    <3>2. CASE q # p
      <4>1. pass'[q] = pass[q] BY <2>1, <3>2 DEF BoundaryInv, TypeOK
      <4>2. PassSound(pass[q]) BY DEF BoundaryInv, PassesSound
      <4>3. WalkSound(pass[q])' BY <2>6, <4>1, <4>2 DEF PassSound, WalkSound
      <4>4. AttemptSound(pass[q])' BY <2>1, <2>6, <4>1, <4>2 DEF PassSound, AttemptSound
      <4>5. PayloadSound(pass[q])'
        BY <2>1, <2>3, <4>1, <4>2 DEF PassSound, PayloadSound, AttemptSound, HoldsOrdinal
      <4>6. ManifestRead(pass[q])' BY <2>1, <4>1, <4>2 DEF PassSound, ManifestRead
      <4> QED BY <4>3, <4>4, <4>5, <4>6 DEF PassSound
    <3> QED BY <3>1, <3>2
  <2>8. SealsStated' /\ SealsGrow'
    BY <2>1, <2>3 DEF BoundaryInv, SealsStated, SealsGrow, Present, Stored
  <2>9. ManifestSound' BY <2>1, <2>6 DEF BoundaryInv, ManifestSound, NamedSealNeverRecreated
  <2>10. ReaderSound'
    BY <2>1 DEF BoundaryInv, ReaderSound, AcceptedNotBelowNamed, LatestAttempt, Stored
  <2> QED BY <2>5, <2>7, <2>8, <2>9, <2>10 DEF BoundaryInv
<1> QED BY <1>4, <1>5

LEMMA ReadPayloadHolds ==
    ASSUME BoundaryInv, NEW p \in Pass, ReadPayload(p)
    PROVE  BoundaryInv'
<1> USE NoneAssumption
<1> DEFINE rec == [pass[p] EXCEPT !.pc = "payload", !.payload = SealPayload(pass[p].ord)]
<1>1. pass[p] \in PassRecord /\ pass[p].pc = "witnessed"
  BY DEF BoundaryInv, TypeOK, PassRecord, ReadPayload
<1>2. PassSound(pass[p]) BY DEF BoundaryInv, PassesSound
<1>3. pass[p].ord \in Ordinal BY <1>1, <1>2 DEF PassSound, AttemptSound, HoldsOrdinal
<1>4. SealPayload(pass[p].ord) \in Seal
  BY <1>1, <1>2, <1>3 DEF SealPayload, Seal, PassSound, PayloadSound, BoundaryInv, TypeOK
<1>5. rec \in PassRecord /\ rec.pc = "payload" /\ rec.ord = pass[p].ord
      /\ rec.payload = SealPayload(pass[p].ord)
  BY <1>1, <1>4 DEF PassRecord, PassPc, SealOrNone
<1>6. pass' = [pass EXCEPT ![p] = rec] /\ UNCHANGED <<disk, machine, reader, faults>>
  BY DEF ReadPayload
<1> HIDE DEF rec
<1>7. AttemptSound(rec) /\ WalkSound(rec)
  BY <1>1, <1>2, <1>5 DEF PassSound, AttemptSound, WalkSound, HoldsWalk, HoldsOrdinal
<1>8. PayloadSound(rec)
  BY <1>1, <1>2, <1>4, <1>5 DEF PassSound, PayloadSound, AttemptSound, HoldsOrdinal, SealPayload
<1>9. ManifestRead(rec)
  BY <1>1, <1>2, <1>5 DEF PassSound, ManifestRead, PastManifest, HoldsOrdinal
<1> QED BY <1>5, <1>6, <1>7, <1>8, <1>9, PassMoves DEF PassSound, faults, BoundaryInv, TypeOK

(* The seal a pass publishes fills a free slot: the one after the latest,  *)
(* since a present attempt is never replaced and the attempts have no gap. *)
LEMMA PublishSealHolds ==
    ASSUME BoundaryInv, NEW p \in Pass, PublishSeal(p)
    PROVE  BoundaryInv'
<1> USE NoneAssumption DEF faults
<1> DEFINE rec(pc) == [NoPass EXCEPT !.pc = pc]
           ord == pass[p].ord
           payload == pass[p].payload
<1>1. pass[p] \in PassRecord /\ pass[p].pc = "payload"
  BY DEF BoundaryInv, TypeOK, PassRecord, PublishSeal
<1>2. PassSound(pass[p]) BY DEF BoundaryInv, PassesSound
<1>3. ord \in Ordinal BY <1>1, <1>2 DEF PassSound, AttemptSound, HoldsOrdinal
<1>4. payload \in Seal BY <1>1, <1>2 DEF PassSound, PayloadSound, PassRecord, SealOrNone
<1>5. \A pc \in {"sealed", "refused"} : rec(pc) \in PassRecord /\ rec(pc).pc = pc
  BY BlankRecord DEF PassPc
<1>6. \A pc \in {"sealed", "refused"} : PassSound(rec(pc)) /\ PassSound(rec(pc))'
  <2> SUFFICES ASSUME NEW pc \in {"sealed", "refused"}
               PROVE  PassSound(rec(pc)) /\ PassSound(rec(pc))'
    OBVIOUS
  <2>1. rec(pc).pc = pc BY <1>5
  <2>2. UNCHANGED missed BY DEF PublishSeal
  <2> HIDE DEF rec
  <2>3. ~ManifestFirst => missed = {}
    BY <1>1, <1>2 DEF PassSound, ManifestRead, PastManifest, HoldsOrdinal
  <2>4. ManifestRead(rec(pc)) /\ ManifestRead(rec(pc))'
    BY <2>1, <2>2, <2>3 DEF ManifestRead
  <2>5. WalkSound(rec(pc)) /\ AttemptSound(rec(pc)) /\ PayloadSound(rec(pc))
    BY <2>1 DEF WalkSound, AttemptSound, PayloadSound, HoldsWalk, HoldsOrdinal
  <2>6. WalkSound(rec(pc))' /\ AttemptSound(rec(pc))' /\ PayloadSound(rec(pc))'
    BY <2>1 DEF WalkSound, AttemptSound, PayloadSound, HoldsWalk, HoldsOrdinal
  <2> QED BY <2>4, <2>5, <2>6 DEF PassSound
<1>7. CASE seals[ord] # None
  (* the attempt is already there: reused when equal, refused otherwise *)
  <2>1. PICK pc \in {"sealed", "refused"} : pass' = [pass EXCEPT ![p] = rec(pc)]
    <3>1. CASE Immutable(seals[ord], payload) BY <3>1 DEF PublishSeal
    <3>2. CASE ~Immutable(seals[ord], payload) BY <3>2 DEF PublishSeal
    <3> QED BY <3>1, <3>2
  <2>2. UNCHANGED <<disk, machine, reader, faults>>
    BY <1>3, <1>7 DEF PublishSeal, Immutable, disk, BoundaryInv, TypeOK
  <2>3. rec(pc) \in PassRecord /\ PassSound(rec(pc)) BY <1>5, <1>6
  <2> HIDE DEF rec
  <2> QED BY <2>1, <2>2, <2>3, PassMoves DEF BoundaryInv, TypeOK
<1>8. CASE seals[ord] = None
  <2>1. /\ seals' = [seals EXCEPT ![ord] = payload]
        /\ pass' = [pass EXCEPT ![p] = rec("sealed")]
        /\ UNCHANGED <<published, envs, named, machine, reader, faults>>
    BY <1>8 DEF PublishSeal, Immutable
  <2>2. rec("sealed") \in PassRecord /\ PassSound(rec("sealed"))' BY <1>5, <1>6
  <2> HIDE DEF rec
  <2>3. seals'[ord] = payload /\ \A n \in Ordinal : n # ord => seals'[n] = seals[n]
    BY <1>3, <2>1 DEF BoundaryInv, TypeOK
  <2>4. PICK n \in 0 .. MaxSeal : LatestAttempt(Present, n) /\ ord <= n + 1
    BY <1>1, <1>2 DEF PassSound, AttemptSound, HoldsOrdinal
  <2>5. ord = n + 1
    BY <1>3, <1>8, <2>4, BoundsAssumption DEF LatestAttempt, Present, Stored, Ordinal
  <2>6. Present' = Present \cup {ord} BY <1>3, <1>4, <2>3 DEF Present, Stored
  <2>7. Present' = 1 .. ord /\ ord \in 0 .. MaxSeal
    BY <1>3, <2>4, <2>5, <2>6, BoundsAssumption DEF LatestAttempt, Ordinal
  <2>8. TypeOK' BY <1>4, <2>1, <2>2 DEF BoundaryInv, TypeOK, PassRecord, SealOrNone
  <2>9. PassesSound'
    <3> SUFFICES ASSUME NEW q \in Pass PROVE PassSound(pass[q])'
      BY DEF PassesSound
    <3>1. CASE q = p
      <4>1. pass'[q] = rec("sealed") BY <2>1, <3>1 DEF BoundaryInv, TypeOK
      <4> QED BY <2>2, <4>1 DEF PassSound, WalkSound, AttemptSound, PayloadSound, ManifestRead
    <3>2. CASE q # p
      <4>1. pass'[q] = pass[q] BY <2>1, <3>2 DEF BoundaryInv, TypeOK
      <4>2. PassSound(pass[q]) BY DEF BoundaryInv, PassesSound
      <4>3. WalkSound(pass[q])' BY <2>6, <2>7, <4>1, <4>2 DEF PassSound, WalkSound, LatestAttempt
      <4>4. ASSUME pass[q].pc \in HoldsOrdinal
            PROVE  pass[q].ord \in Ordinal /\ pass[q].ord <= ord
        <5>1. PICK m \in 0 .. MaxSeal : LatestAttempt(Present, m) /\ pass[q].ord <= m + 1
          BY <4>2, <4>4 DEF PassSound, AttemptSound
        <5>2. m = n BY <2>4, <5>1, BoundsAssumption DEF LatestAttempt
        <5> QED BY <2>5, <4>2, <4>4, <5>1, <5>2 DEF PassSound, AttemptSound
      <4>5. AttemptSound(pass[q])'
        <5>1. CASE pass[q].pc = "numbered"
          <6>1. PICK m \in 0 .. MaxSeal : LatestAttempt(Present, m) /\ pass[q].ord <= m
            BY <4>2, <5>1 DEF PassSound, AttemptSound
          <6>2. m = n BY <2>4, <6>1, BoundsAssumption DEF LatestAttempt
          <6>3. pass[q].ord \in Nat BY BoundsAssumption DEF BoundaryInv, TypeOK
          <6>4. pass[q].ord <= ord BY <2>5, <6>1, <6>2, <6>3, BoundsAssumption
          <6> QED BY <2>7, <4>1, <5>1, <6>4 DEF AttemptSound, LatestAttempt, HoldsOrdinal
        <5>2. CASE pass[q].pc \in HoldsOrdinal
          <6>1. \A i \in Ordinal : i < pass[q].ord => seals'[i] = seals[i]
            BY <1>3, <2>3, <4>4, <5>2, BoundsAssumption DEF Ordinal
          <6>2. pass[q].ord <= ord + 1
            BY <1>3, <4>4, <5>2, BoundsAssumption DEF Ordinal
          <6> QED BY <2>1, <2>7, <4>1, <4>2, <4>4, <5>2, <6>1, <6>2
              DEF PassSound, AttemptSound, LatestAttempt, HoldsOrdinal
        <5> QED BY <4>1, <5>1, <5>2 DEF AttemptSound
      <4>6. PayloadSound(pass[q])'
        <5>1. pass[q].pc = "payload" =>
                \A i \in Ordinal : i < pass[q].ord => seals'[i] = seals[i]
          BY <1>3, <2>3, <4>4, BoundsAssumption DEF Ordinal, HoldsOrdinal
        <5> QED BY <2>1, <4>1, <4>2, <5>1 DEF PassSound, PayloadSound
      <4>7. ManifestRead(pass[q])' BY <2>1, <4>1, <4>2 DEF PassSound, ManifestRead
      <4> QED BY <4>3, <4>5, <4>6, <4>7 DEF PassSound
    <3> QED BY <3>1, <3>2
  <2>10. SealsStated'
    <3>1. payload.env = envs[ord] /\ envs[ord] # None /\ payload.inv \subseteq published
      BY <1>1, <1>2 DEF PassSound, PayloadSound
    <3> QED BY <2>1, <2>3, <2>6, <3>1 DEF BoundaryInv, SealsStated, Present, Stored
  <2>11. SealsGrow'
    <3> SUFFICES ASSUME ~damaged, NEW i \in Present', NEW j \in Present', i < j
                 PROVE  seals'[i].inv \subseteq seals'[j].inv /\ seals'[i].inv # seals'[j].inv
      BY <2>1 DEF SealsGrow
    <3>1. i \in Ordinal /\ j \in Ordinal /\ i <= ord /\ j <= ord
      BY <2>7, BoundsAssumption DEF Ordinal
    <3>2. i # ord /\ i < ord /\ seals'[i] = seals[i]
      BY <1>3, <2>3, <3>1, BoundsAssumption DEF Ordinal
    <3>3. CASE j = ord
      BY <1>1, <1>2, <2>3, <3>1, <3>2, <3>3 DEF PassSound, PayloadSound
    <3>4. CASE j # ord
      <4>1. i \in Present /\ j \in Present BY <2>6, <3>2, <3>4
      <4> QED BY <2>3, <3>1, <3>2, <3>4, <4>1 DEF BoundaryInv, SealsGrow
    <3> QED BY <3>3, <3>4
  <2>12. ManifestSound'
    <3>1. ~ManifestFirst => missed = {}
      BY <1>1, <1>2 DEF PassSound, ManifestRead, PastManifest, HoldsOrdinal
    <3> QED BY <2>1, <2>6, <3>1 DEF BoundaryInv, ManifestSound, NamedSealNeverRecreated
  <2>13. ReaderSound'
    <3>1. \A k \in Ordinal : seals[k] # None => seals'[k] = seals[k] BY <1>8, <2>3
    <3>2. reader \in ReaderRecord BY DEF BoundaryInv, TypeOK, ReaderRecord
    <3> QED BY <2>1, <3>1, <3>2
        DEF BoundaryInv, ReaderSound, AcceptedNotBelowNamed, LatestAttempt, Stored
  <2> QED BY <2>8, <2>9, <2>10, <2>11, <2>12, <2>13 DEF BoundaryInv
<1> QED BY <1>7, <1>8

-----------------------------------------------------------------------------
(* The reader's steps, and the machine's.                                  *)

LEMMA VerdictTyped ==
    ASSUME BoundaryInv, NEW pc \in ReaderPc, Verdict(pc)
    PROVE  /\ reader' \in ReaderRecord
           /\ reader'.pc = pc /\ reader'.floor = reader.floor /\ reader'.ord = reader.ord
BY DEF Verdict, NoReader, BoundaryInv, TypeOK, ReaderRecord, SealOrNone

LEMMA ReadSealsHolds ==
    ASSUME BoundaryInv, NEW route \in Route, ReadSeals(route)
    PROVE  BoundaryInv'
<1> USE BoundsAssumption
<1>1. reader' \in ReaderRecord
  BY DEF ReadSeals, BoundaryInv, TypeOK, ReaderRecord, ReaderPc
<1>2. /\ reader'.pc \in {"refused", "listed"}
      /\ reader'.got = seals /\ reader'.floor = named
      /\ UNCHANGED <<seals, missed>>
  BY DEF ReadSeals, disk, faults
<1>3. ~ManifestFirst => named \subseteq Stored(seals) \cup missed
  BY DEF BoundaryInv, ManifestSound, Present
<1>4. ReaderSound'
  BY <1>2, <1>3 DEF ReaderSound, AcceptedNotBelowNamed, Stored
<1> QED BY <1>1, <1>4, ReaderMoves DEF ReadSeals, BoundaryInv, TypeOK

LEMMA ProveAttemptsHolds ==
    ASSUME BoundaryInv, ProveAttempts
    PROVE  BoundaryInv'
<1>1. /\ reader \in ReaderRecord /\ reader.pc = "listed"
      /\ UNCHANGED <<disk, machine, pass, faults>>
  BY DEF ProveAttempts, BoundaryInv, TypeOK, ReaderRecord
<1>2. reader' \in ReaderRecord /\ ReaderSound'
  <2>1. CASE Verdict("refused")
    BY <1>1, <2>1, VerdictTyped DEF ReaderSound, AcceptedNotBelowNamed, ReaderPc
  <2>2. CASE NoDeletedSeal(Stored(reader.got)) /\
             \E n \in Ordinal : /\ LatestAttempt(Stored(reader.got), n)
                               /\ reader' = [reader EXCEPT !.pc = "proved", !.ord = n]
    <3>1. PICK n \in Ordinal : /\ LatestAttempt(Stored(reader.got), n)
                              /\ reader' = [reader EXCEPT !.pc = "proved", !.ord = n]
      BY <2>2
    <3>2. /\ reader' \in ReaderRecord /\ reader'.pc = "proved" /\ reader'.ord = n
          /\ reader'.got = reader.got /\ reader'.floor = reader.floor
      <4>1. n \in 0 .. MaxSeal BY BoundsAssumption DEF Ordinal
      <4> QED BY <1>1, <3>1, <4>1 DEF ReaderRecord, ReaderPc
    <3>3. Stored(reader.got) \subseteq Present
      BY <1>1 DEF BoundaryInv, ReaderSound, Present, Stored
    <3>4. ~ManifestFirst => reader.floor \subseteq Stored(reader.got)
      (* a missed seal is named and not among those read: it would have    *)
      (* been noticed                                                      *)
      <4> SUFFICES ASSUME ~ManifestFirst PROVE reader.floor \subseteq Stored(reader.got)
        OBVIOUS
      <4>1. missed \subseteq Present BY <2>2, <3>3 DEF BoundaryInv, ManifestSound, NoDeletedSeal
      <4>2. missed = {} BY <4>1 DEF BoundaryInv, ManifestSound, NamedSealNeverRecreated, Present, Stored
      <4> QED BY <1>1, <4>2 DEF BoundaryInv, ReaderSound
    <3>5. ReaderSound'
      BY <1>1, <3>1, <3>2, <3>4 DEF BoundaryInv, disk, ReaderSound, AcceptedNotBelowNamed,
                                   LatestAttempt, Stored
    <3> QED BY <3>2, <3>5
  <2> QED BY <2>1, <2>2 DEF ProveAttempts
<1> QED BY <1>1, <1>2, ReaderMoves DEF BoundaryInv, TypeOK

LEMMA CompareInventoryHolds ==
    ASSUME BoundaryInv, CompareInventory
    PROVE  BoundaryInv'
<1>1. reader.pc = "proved" /\ UNCHANGED <<disk, machine, pass, faults>>
  BY DEF CompareInventory
<1>2. PICK pc \in {"accepted", "refused"} : Verdict(pc) BY DEF CompareInventory
<1>3. /\ reader' \in ReaderRecord
      /\ reader'.pc = pc /\ reader'.floor = reader.floor /\ reader'.ord = reader.ord
  BY <1>2, VerdictTyped DEF ReaderPc
<1>4. ~ManifestFirst => \A n \in reader.floor : n <= reader.ord
  BY <1>1, BoundsAssumption DEF BoundaryInv, ReaderSound, LatestAttempt, Ordinal
<1>5. ReaderSound' BY <1>3, <1>4 DEF ReaderSound, AcceptedNotBelowNamed
<1> QED BY <1>1, <1>3, <1>5, ReaderMoves DEF BoundaryInv, TypeOK

LEMMA UpgradeHolds ==
    ASSUME BoundaryInv, Upgrade
    PROVE  BoundaryInv'
<1>1. ReaderSound'
  BY DEF Upgrade, disk, faults, BoundaryInv, ReaderSound, AcceptedNotBelowNamed, LatestAttempt, Stored
<1> QED BY <1>1, ReaderMoves DEF Upgrade, BoundaryInv, TypeOK, ReaderRecord

(* At rest nobody relies on a file that is lost.                           *)
LEMMA LossHolds ==
    ASSUME BoundaryInv,
           (\E n \in Ordinal : LoseSeal(n)) \/ (\E a \in Artifact : LoseArtifact(a))
    PROVE  BoundaryInv'
<1> USE NoneAssumption, BoundsAssumption
<1>1. /\ \A p \in Pass : pass[p].pc = "idle"
      /\ reader.pc \in {"idle", "accepted", "refused"}
      /\ UNCHANGED <<envs, named, machine, pass, reader, crashes>>
  BY DEF AtRest, LoseSeal, LoseArtifact
<1>2. TypeOK'
  <2>1. CASE \E n \in Ordinal : LoseSeal(n)
    BY <2>1 DEF LoseSeal, BoundaryInv, TypeOK, SealOrNone
  <2>2. CASE \E a \in Artifact : LoseArtifact(a)
    <3>1. damaged' \in BOOLEAN BY <2>2, Zenon DEF LoseArtifact
    <3> QED BY <2>2, <3>1 DEF LoseArtifact, BoundaryInv, TypeOK
  <2> QED BY <2>1, <2>2
<1>3. PassesSound'
  BY <1>1 DEF PassesSound, PassSound, WalkSound, AttemptSound, PayloadSound, ManifestRead,
              HoldsWalk, HoldsOrdinal, PastManifest
<1>4. SealsStated' /\ SealsGrow'
  <2>1. CASE \E n \in Ordinal : LoseSeal(n)
    <3>1. PICK n \in Ordinal : LoseSeal(n) BY <2>1
    <3>2. Present' = Present \ {n} /\ \A k \in Present' : seals'[k] = seals[k]
      BY <3>1 DEF LoseSeal, Present, Stored, BoundaryInv, TypeOK
    <3> QED BY <3>1, <3>2 DEF LoseSeal, BoundaryInv, SealsStated, SealsGrow
  <2>2. CASE \E a \in Artifact : LoseArtifact(a)
    BY <2>2 DEF LoseArtifact, BoundaryInv, SealsStated, SealsGrow, Present, Stored
  <2> QED BY <2>1, <2>2
<1>5. ManifestSound'
  <2>1. CASE \E n \in Ordinal : LoseSeal(n)
    <3>1. PICK n \in Ordinal : LoseSeal(n) BY <2>1
    <3>2. Present' = Present \ {n} BY <3>1 DEF LoseSeal, Present, Stored, BoundaryInv, TypeOK
    <3>3. missed' = (IF n \in named THEN missed \cup {n} ELSE missed) /\ seals'[n] = None
          /\ \A k \in Ordinal : seals[k] = None => seals'[k] = None
      BY <3>1 DEF LoseSeal, BoundaryInv, TypeOK
    <3> QED BY <1>1, <3>2, <3>3 DEF BoundaryInv, TypeOK, ManifestSound, NamedSealNeverRecreated
  <2>2. CASE \E a \in Artifact : LoseArtifact(a)
    BY <2>2 DEF LoseArtifact, BoundaryInv, ManifestSound, NamedSealNeverRecreated, Present, Stored
  <2> QED BY <2>1, <2>2
<1>6. ReaderSound' BY <1>1 DEF BoundaryInv, ReaderSound, AcceptedNotBelowNamed
<1> QED BY <1>2, <1>3, <1>4, <1>5, <1>6 DEF BoundaryInv

-----------------------------------------------------------------------------
(* Every step of the system preserves the invariant.                       *)
LEMMA NextHolds == BoundaryInv /\ [Next]_vars => BoundaryInv'
<1> SUFFICES ASSUME BoundaryInv, [Next]_vars PROVE BoundaryInv' OBVIOUS
<1>1. CASE UNCHANGED vars
  <2>1. ReaderSound'
    BY <1>1 DEF vars, BoundaryInv, ReaderSound, AcceptedNotBelowNamed, LatestAttempt, Stored
  <2> QED BY <1>1, <2>1, ReaderMoves DEF vars, disk, faults, BoundaryInv, TypeOK, ReaderRecord
<1>2. ASSUME NEW p \in Pass, OpenPass(p) \/ SealStep(p) \/ Crash(p) PROVE BoundaryInv'
  <2>1. CASE OpenPass(p) \/ CheckRefuse(p) \/ ExitRefused(p) \/ Crash(p)
    BY <2>1, QuietStepsHold
  <2>2. CASE FinishEarly(p) \/ CheckList(p) \/ Finish(p) BY <2>2, WalksHold
  <2>3. CASE CheckReuse(p) BY <2>3, CheckReuseHolds
  <2>4. CASE CheckNext(p) BY <2>4, CheckNextHolds
  <2>5. CASE PublishEnv(p) BY <2>5, PublishEnvHolds
  <2>6. CASE ReadPayload(p) BY <2>6, ReadPayloadHolds
  <2>7. CASE PublishSeal(p) BY <2>7, PublishSealHolds
  <2>8. CASE WriteManifest(p) BY <2>8, WriteManifestHolds
  <2>9. CASE CheckPrior(p) BY <2>9, CheckPriorHolds
  <2> QED BY <1>2, <2>1, <2>2, <2>3, <2>4, <2>5, <2>6, <2>7, <2>8, <2>9 DEF SealStep
<1>3. ASSUME NEW p \in Pass, NEW a \in Artifact, Publish(p, a) PROVE BoundaryInv'
  BY <1>3, PublishHolds
<1>4. CASE ReaderStep
  BY <1>4, ReadSealsHolds, ProveAttemptsHolds, CompareInventoryHolds DEF ReaderStep
<1>5. CASE Upgrade BY <1>5, UpgradeHolds
<1>6. CASE (\E n \in Ordinal : LoseSeal(n)) \/ (\E a \in Artifact : LoseArtifact(a))
  BY <1>6, LossHolds
<1> QED BY <1>1, <1>2, <1>3, <1>4, <1>5, <1>6 DEF Next

(* The invariant holds in every reachable state of the boundary.           *)
THEOREM BoundaryInvariant == Spec => []BoundaryInv
BY InitHolds, NextHolds, PTL DEF Spec

(* Type correctness of the seal protocol of common/stage.py.               *)
THEOREM TypeCorrect == Spec => []TypeOK
<1>1. BoundaryInv => TypeOK BY DEF BoundaryInv
<1> QED BY <1>1, BoundaryInvariant, PTL

(* seal_boundary: for any number of overlapping, dying passes, each later  *)
(* seal states strictly more than every earlier one while no artifact is   *)
(* lost.                                                                   *)
THEOREM SealsAlwaysGrow == Spec => []SealsGrow
<1>1. BoundaryInv => SealsGrow BY DEF BoundaryInv
<1> QED BY <1>1, BoundaryInvariant, PTL

(* _verify_stage_seal: a reader of a stage that writes its manifest only   *)
(* after sealing never accepts a boundary below one already named, however *)
(* many files are lost.                                                    *)
THEOREM AcceptsNothingBelowNamed ==
    ASSUME ~ManifestFirst PROVE Spec => []AcceptedNotBelowNamed
<1>1. BoundaryInv => AcceptedNotBelowNamed BY DEF BoundaryInv, ReaderSound
<1> QED BY <1>1, BoundaryInvariant, PTL

(* seal_boundary: in a stage that writes its manifest only after sealing,  *)
(* a seal lost while the manifest named it is never written again, by any  *)
(* number of later or overlapping passes.                                  *)
THEOREM NamedSealsStayGone ==
    ASSUME ~ManifestFirst PROVE Spec => []NamedSealNeverRecreated
<1>1. BoundaryInv => NamedSealNeverRecreated BY DEF BoundaryInv, ManifestSound
<1> QED BY <1>1, BoundaryInvariant, PTL

(* _verify_stage_seal: reading the seals and then walking the disk again   *)
(* accepts only the newest seal, over exactly the inventory it states,     *)
(* whatever passes do between the two reads.                               *)
THEOREM TwoReadsAcceptOnlyCurrent == Spec => AcceptedIsCurrent
<1> DEFINE Accepting == reader.pc = "proved" /\ reader'.pc = "accepted"
                          /\ reader.route = "reread" /\ ~damaged
           Current == /\ \A n \in Present : n <= reader.ord
                      /\ seals[reader.ord] = [inv |-> published, env |-> envs[reader.ord]]
<1>1. BoundaryInv /\ [Next]_vars => [Accepting => Current]_vars
  <2> SUFFICES ASSUME BoundaryInv, [Next]_vars, Accepting PROVE Current
    OBVIOUS
  <2>1. CompareInventory
    BY DEF Next, vars, OpenPass, SealStep, Crash, Publish, FinishEarly, WriteManifest, CheckList,
           CheckPrior, CheckReuse, CheckNext, CheckRefuse, PublishEnv, ReadPayload, PublishSeal,
           Finish, ExitRefused, ReaderStep,
           ReadSeals, ProveAttempts, Upgrade, LoseSeal, LoseArtifact
  <2>2. reader.got[reader.ord] = [inv |-> published, env |-> envs[reader.ord]]
    <3>1. ASSUME NEW pc \in ReaderPc, Verdict(pc) PROVE pc = "accepted"
      BY <3>1, VerdictTyped
    <3> QED BY <2>1, <3>1 DEF CompareInventory, WitnessedNow, ReaderPc
  <2>3. reader.ord \in Ordinal /\ reader.got[reader.ord] # None
    BY BoundsAssumption DEF BoundaryInv, ReaderSound, LatestAttempt, Stored, Ordinal
  <2>4. seals[reader.ord] = reader.got[reader.ord]
    BY <2>3 DEF BoundaryInv, ReaderSound
  <2>5. ASSUME NEW n \in Present PROVE n <= reader.ord
    <3> SUFFICES ASSUME reader.ord < n PROVE FALSE
      BY <2>3, BoundsAssumption DEF Present, Stored, Ordinal
    <3>1. reader.ord \in Present BY <2>3, <2>4 DEF Present, Stored
    <3>2. /\ seals[reader.ord].inv \subseteq seals[n].inv
          /\ seals[reader.ord].inv # seals[n].inv
      BY <3>1 DEF BoundaryInv, SealsGrow
    <3>3. seals[n].inv \subseteq published BY DEF BoundaryInv, SealsStated
    <3>4. seals[reader.ord].inv = published BY <2>2, <2>4
    <3> QED BY <3>2, <3>3, <3>4
  <2> QED BY <2>2, <2>4, <2>5
<1> QED BY <1>1, BoundaryInvariant, PTL DEF Spec, AcceptedIsCurrent

-----------------------------------------------------------------------------
(* The boundary is a SealedBoundary.                                       *)

(* What the seals on disk state, by attempt, and a reader's verdict over   *)
(* the disk it walked: what Boundary's stated and accepted stand for.      *)
Statements == {<<n, seals[n].inv>> : n \in Present}

WalkAccepts == reader.pc = "accepted" /\ reader.route = "reread"

(* A step that leaves the artifacts, the seals and the reader alone is no  *)
(* step of the boundary.                                                   *)
LEMMA BoundaryStands ==
    ASSUME UNCHANGED <<published, seals, reader, damaged>>
    PROVE  UNCHANGED <<published, Statements, WalkAccepts, damaged>>
BY DEF Statements, WalkAccepts, Present, Stored

(* A seal is a new statement: the free attempt follows all present ones,   *)
(* and the inventory it was computed from had outgrown them.               *)
LEMMA SealIsStated ==
    ASSUME BoundaryInv, NEW p \in Pass, PublishSeal(p), ~damaged
    PROVE  Boundary!State \/ UNCHANGED Boundary!vars
<1> USE NoneAssumption DEF faults
<1> DEFINE ord == pass[p].ord
           payload == pass[p].payload
<1>1. pass[p] \in PassRecord /\ pass[p].pc = "payload"
  BY DEF BoundaryInv, TypeOK, PassRecord, PublishSeal
<1>2. AttemptSound(pass[p]) /\ PayloadSound(pass[p])
  BY DEF BoundaryInv, PassesSound, PassSound
<1>3. ord \in Ordinal BY <1>1, <1>2 DEF AttemptSound, HoldsOrdinal
<1>4. CASE seals[ord] # None
  <2>1. UNCHANGED <<published, seals, reader, damaged>>
    BY <1>3, <1>4 DEF PublishSeal, Immutable, BoundaryInv, TypeOK
  <2> QED BY <2>1, BoundaryStands DEF Boundary!vars, Statements, WalkAccepts
<1>5. CASE seals[ord] = None
  <2>1. /\ seals' = [seals EXCEPT ![ord] = payload]
        /\ UNCHANGED <<published, reader, damaged>>
    BY <1>5 DEF PublishSeal, Immutable
  <2>2. seals'[ord] = payload /\ \A n \in Ordinal : n # ord => seals'[n] = seals[n]
    BY <1>3, <2>1 DEF BoundaryInv, TypeOK
  <2>3. payload # None /\ payload.inv \subseteq published
    BY <1>1, <1>2 DEF PayloadSound
  <2>4. Present' = Present \cup {ord}
    BY <1>3, <2>2, <2>3 DEF Present, Stored
  <2> DEFINE new == <<ord, payload.inv>>
  <2>5. Statements' = Statements \cup {new}
    BY <1>5, <2>2, <2>4 DEF Statements, Present, Stored
  <2>6. \A n \in Present : n < ord
    <3>1. PICK n \in 0 .. MaxSeal : LatestAttempt(Present, n) /\ ord <= n + 1
      BY <1>1, <1>2 DEF AttemptSound, HoldsOrdinal
    <3> QED BY <1>3, <1>5, <3>1, BoundsAssumption DEF LatestAttempt, Present, Stored, Ordinal
  <2>7. \A s \in Statements : s[1] < ord /\ s[2] \subseteq payload.inv /\ s[2] # payload.inv
    <3> SUFFICES ASSUME NEW n \in Present
                 PROVE  n < ord /\ seals[n].inv \subseteq payload.inv /\ seals[n].inv # payload.inv
      BY DEF Statements
    <3>1. n \in Ordinal /\ n < ord BY <2>6 DEF Present, Stored
    <3> QED BY <1>1, <1>2, <3>1 DEF PayloadSound
  <2>8. UNCHANGED WalkAccepts BY <2>1 DEF WalkAccepts
  <2>9. new \in Statements' /\ new[1] = ord /\ new[2] = payload.inv BY <2>5
  <2> HIDE DEF ord, payload, new
  <2> QED BY <2>1, <2>3, <2>5, <2>7, <2>8, <2>9 DEF Boundary!State, Statements, WalkAccepts
<1> QED BY <1>4, <1>5

(* What the reader read last is what its verdict is about: it accepts a    *)
(* walked boundary only while a seal on disk states all of the disk.       *)
LEMMA AcceptanceIsStated ==
    ASSUME BoundaryInv, CompareInventory
    PROVE  Boundary!Accept \/ UNCHANGED Boundary!vars
<1>1. reader.pc = "proved" /\ UNCHANGED <<published, seals, damaged>>
  BY DEF CompareInventory, disk, faults
<1>2. UNCHANGED Statements BY <1>1 DEF Statements, Present, Stored
<1>3. reader'.route = reader.route
  BY DEF CompareInventory, Verdict, NoReader
<1>4. CASE ~WalkAccepts'
  <2>1. UNCHANGED WalkAccepts BY <1>1, <1>4 DEF WalkAccepts
  <2> QED BY <1>1, <1>2, <2>1 DEF Boundary!vars, Statements, WalkAccepts
<1>5. CASE WalkAccepts'
  <2>1. reader.got[reader.ord] = [inv |-> published, env |-> envs[reader.ord]]
    <3>1. ASSUME NEW pc \in ReaderPc, Verdict(pc) PROVE reader'.pc = pc
      BY <3>1, VerdictTyped
    <3> QED BY <1>3, <1>5, <3>1 DEF CompareInventory, WitnessedNow, ReaderPc, WalkAccepts
  <2>2. reader.ord \in Ordinal /\ reader.got[reader.ord] # None
    BY <1>1, BoundsAssumption DEF BoundaryInv, ReaderSound, LatestAttempt, Stored, Ordinal
  <2>3. seals[reader.ord] = reader.got[reader.ord]
    BY <1>1, <2>2 DEF BoundaryInv, ReaderSound
  <2>4. \E s \in Statements : s[2] = published
    <3>1. <<reader.ord, published>> \in Statements
      BY <2>1, <2>2, <2>3 DEF Statements, Present, Stored
    <3> QED BY <3>1
  <2>5. ~WalkAccepts BY <1>1 DEF WalkAccepts
  <2> QED BY <1>1, <1>2, <1>5, <2>4, <2>5 DEF Boundary!Accept, Statements, WalkAccepts
<1> QED BY <1>4, <1>5

(* A lost seal is a lost statement.                                        *)
LEMMA LossIsAllowed ==
    ASSUME BoundaryInv, NEW n \in Ordinal, LoseSeal(n)
    PROVE  Boundary!LoseStatements
<1> USE NoneAssumption
<1>1. Present' = Present \ {n} /\ \A k \in Present' : seals'[k] = seals[k]
  BY DEF LoseSeal, Present, Stored, BoundaryInv, TypeOK
<1>2. Statements' \in SUBSET Statements BY <1>1 DEF Statements
<1>3. UNCHANGED <<published, WalkAccepts, damaged>> BY DEF LoseSeal, WalkAccepts
<1> QED BY <1>2, <1>3 DEF Boundary!LoseStatements, Statements, WalkAccepts

(* A reader that looks again gives up what it accepted.                    *)
LEMMA LookingAgainForgets ==
    ASSUME NEW route \in Route, ReadSeals(route)
    PROVE  Boundary!Forget
<1>1. ~WalkAccepts' BY DEF ReadSeals, WalkAccepts
<1>2. UNCHANGED <<published, seals, damaged>> BY DEF ReadSeals, disk, faults
<1>3. UNCHANGED Statements BY <1>2 DEF Statements, Present, Stored
<1>4. WalkAccepts' = FALSE BY <1>1 DEF WalkAccepts
<1> QED BY <1>2, <1>3, <1>4 DEF Boundary!Forget, Statements, WalkAccepts

(* Every step of the protocol is a step of the boundary or none.           *)
LEMMA StepKeepsTheBoundary ==
    BoundaryInv /\ [Next]_vars => [Boundary!Next]_(Boundary!vars)
<1> SUFFICES ASSUME BoundaryInv, [Next]_vars
             PROVE  Boundary!Next \/ UNCHANGED Boundary!vars
  OBVIOUS
<1> USE DEF Boundary!Next
<1>1. CASE damaged' = TRUE BY <1>1 DEF Boundary!Damaged
<1>2. CASE \E n \in Ordinal : LoseSeal(n) BY <1>2, LossIsAllowed
<1>3. ASSUME NEW p \in Pass, PublishSeal(p), damaged' # TRUE
      PROVE  Boundary!Next \/ UNCHANGED Boundary!vars
  <2>1. ~damaged BY <1>3 DEF PublishSeal, faults, BoundaryInv, TypeOK
  <2> QED BY <1>3, <2>1, SealIsStated
<1>4. ASSUME NEW p \in Pass, NEW a \in Artifact, Publish(p, a)
      PROVE  Boundary!Next \/ UNCHANGED Boundary!vars
  <2>1. published' = published \cup {a} /\ UNCHANGED <<seals, reader, damaged>>
    BY <1>4 DEF Publish, faults
  <2>2. UNCHANGED <<Statements, WalkAccepts, damaged>>
    BY <2>1 DEF Statements, WalkAccepts, Present, Stored
  <2> QED BY <2>1, <2>2 DEF Boundary!Publish, Statements, WalkAccepts
<1>5. CASE \E route \in Route : ReadSeals(route) BY <1>5, LookingAgainForgets
<1>6. CASE CompareInventory BY <1>6, AcceptanceIsStated
<1>7. CASE ProveAttempts
  <2>1. UNCHANGED <<published, seals, damaged>> BY <1>7 DEF ProveAttempts, disk, faults
  <2>2. UNCHANGED Statements BY <2>1 DEF Statements, Present, Stored
  <2>3. ~WalkAccepts /\ ~WalkAccepts'
    <3>1. CASE Verdict("refused") BY <1>7, <3>1, VerdictTyped DEF ProveAttempts, WalkAccepts, ReaderPc
    <3>2. CASE \E n \in Ordinal : reader' = [reader EXCEPT !.pc = "proved", !.ord = n]
      BY <1>7, <3>2 DEF ProveAttempts, WalkAccepts, BoundaryInv, TypeOK
    <3> QED BY <1>7, <3>1, <3>2 DEF ProveAttempts
  <2>4. UNCHANGED WalkAccepts BY <2>3 DEF WalkAccepts
  <2> QED BY <2>1, <2>2, <2>4 DEF Boundary!vars, Statements, WalkAccepts
<1>8. CASE UNCHANGED <<published, seals, reader, damaged>>
  BY <1>8, BoundaryStands DEF Boundary!vars, Statements, WalkAccepts
<1>9. \/ \E n \in Ordinal : LoseSeal(n)
      \/ damaged' = TRUE
      \/ \E p \in Pass : PublishSeal(p)
      \/ \E p \in Pass, a \in Artifact : Publish(p, a)
      \/ \E route \in Route : ReadSeals(route)
      \/ CompareInventory
      \/ ProveAttempts
      \/ UNCHANGED <<published, seals, reader, damaged>>
  BY DEF Next, vars, OpenPass, SealStep, Crash, FinishEarly, WriteManifest, CheckList,
         CheckPrior, CheckReuse, CheckNext, CheckRefuse, PublishEnv, ReadPayload, Finish, ExitRefused, ReaderStep, Upgrade, LoseArtifact, disk, faults
<1> QED BY <1>1, <1>2, <1>3, <1>4, <1>5, <1>6, <1>7, <1>8, <1>9

LEMMA InitKeepsTheBoundary == Init => Boundary!Init
<1> SUFFICES ASSUME Init PROVE Boundary!Init OBVIOUS
<1>1. Statements = {} BY DEF Init, Statements, Present, Stored
<1>2. WalkAccepts = FALSE BY DEF Init, NoReader, WalkAccepts
<1>3. damaged = FALSE /\ published = {} BY Zenon DEF Init
<1> QED BY <1>1, <1>2, <1>3 DEF Boundary!Init, Statements, WalkAccepts

(* The seal protocol of common/stage.py implements SealedBoundary, for any *)
(* number of overlapping and dying passes, decoder upgrades and losses:    *)
(* each seal states more than every seal there is, and a reader that walks *)
(* the disk accepts only what a seal states in full.                       *)
THEOREM StageKeepsTheBoundary == Spec => BoundaryKept
<1>1. BoundaryInv /\ [Next]_vars => [Boundary!Next]_(Boundary!vars)
  BY StepKeepsTheBoundary
<1>2. Init => Boundary!Init BY InitKeepsTheBoundary
<1> QED BY <1>1, <1>2, BoundaryInvariant, PTL DEF Spec, BoundaryKept, Boundary!Spec
=============================================================================
