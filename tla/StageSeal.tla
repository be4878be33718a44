----------------------------- MODULE StageSeal -----------------------------
(***************************************************************************)
(* The completion boundary of one pipeline stage (common/stage.py).        *)
(*                                                                         *)
(* A pass of the stage publishes immutable artifacts, then seals: it       *)
(* records the decoders that ran (`decode-environment`, attempt n) and a   *)
(* statement of the whole inventory on disk (`stage-seal`, attempt n), and *)
(* rewrites the stage's derived manifest.  The next stage, the console and *)
(* the driver are readers: they accept the boundary only when its latest   *)
(* seal still describes the disk.                                          *)
(*                                                                         *)
(* Passes may die anywhere, two passes may overlap (a stage process that   *)
(* outlives its killed driver and the one a new driver starts), decoders   *)
(* may be upgraded between passes, and files may be lost while nothing     *)
(* runs.  Nothing locks the stage: a list of seals, the stored manifest    *)
(* and the inventory are read one after the other, and a manifest is       *)
(* walked before it is replaced, with another pass's steps in between.     *)
(***************************************************************************)
EXTENDS Naturals

CONSTANTS
    Artifact,       \* the artifacts the stage may publish, boundary kinds excluded
    Env,            \* decoder versions a machine may have installed
    Pass,           \* stage processes
    None,           \* no such file
    MaxSeal,        \* bound on seal attempts
    MaxLost,        \* bound on files lost at rest
    MaxCrash,       \* bound on passes that die
    ManifestFirst   \* the stage rewrites its manifest before it seals as well
                    \* as after: the Attestatores and the Recensor do

Ordinal == 1 .. MaxSeal

(* A stage-seal payload: the inventory digest and the decode-environment   *)
(* digest.  Digests are injective here, so each is the thing it names.     *)
Seal == [inv : SUBSET Artifact, env : Env]

ASSUME BoundsAssumption == MaxSeal \in Nat /\ MaxLost \in Nat /\ MaxCrash \in Nat
ASSUME NoneAssumption == None \notin Seal /\ None \notin Env
ASSUME ManifestFirstAssumption == ManifestFirst \in BOOLEAN

VARIABLES
    published,  \* artifacts on disk
    envs,       \* decode-environment attempts on disk
    seals,      \* stage-seal attempts on disk
    named,      \* seal attempts the stored manifest names
    missed,     \* history: seal attempts lost while the stored manifest named them
    machine,    \* the decoders installed now
    pass,       \* each stage process: where it is, the seals its last walk found,
                \* its seal attempt, its payload
    reader,     \* one reader of the boundary
    losses,     \* files lost so far
    crashes,    \* passes that died so far
    damaged     \* an artifact was among the lost files

disk == <<published, envs, seals, named>>
faults == <<missed, losses, crashes, damaged>>
vars == <<published, envs, seals, named, missed, machine, pass, reader, losses,
          crashes, damaged>>

(* Where a pass can be.  "refused" is a ContractError on its way out.      *)
PassPc == {"idle", "working", "walkedFirst", "inventoried", "listed", "numbered",
           "checked", "witnessed", "payload", "sealed", "walkedLast", "refused"}

(* Passes that hold the seals they found when they walked the stage.       *)
HoldsWalk == {"walkedFirst", "listed", "walkedLast"}

(* Passes that hold an attempt ordinal they read from disk.                *)
HoldsOrdinal == {"checked", "witnessed", "payload"}

ReaderPc == {"idle", "listed", "proved", "accepted", "refused"}

(* "snapshot": a stage opening its context checks seal and inventory from  *)
(* one manifest.  "reread": an advance, and the Armarium's side branch,    *)
(* build the manifest a second time for the inventory.                     *)
Route == {"snapshot", "reread"}

SealOrNone == Seal \cup {None}

(* The shape of the state: every seal on disk states an inventory and the  *)
(* decoders of a witness that was read, never a missing one.               *)
TypeOK ==
    /\ published \subseteq Artifact
    /\ envs \in [Ordinal -> Env \cup {None}]
    /\ seals \in [Ordinal -> SealOrNone]
    /\ named \subseteq Ordinal
    /\ missed \subseteq Ordinal
    /\ machine \in Env
    /\ pass \in [Pass -> [pc : PassPc, walk : SUBSET Ordinal, ord : 0 .. MaxSeal,
                        payload : SealOrNone]]
    /\ reader \in [pc : ReaderPc, route : Route, got : [Ordinal -> SealOrNone],
                   inv : SUBSET Artifact, floor : SUBSET Ordinal, ord : 0 .. MaxSeal]
    /\ losses \in 0 .. MaxLost
    /\ crashes \in 0 .. MaxCrash
    /\ damaged \in BOOLEAN

-----------------------------------------------------------------------------
Stored(s) == {n \in Ordinal : s[n] # None}

Present == Stored(seals)

(* attempt_ordinals: the attempts run 1..N with no gap, and the latest is  *)
(* the N-th.                                                               *)
LatestAttempt(present, n) == present = 1 .. n

(* Mutant: only the absence of every seal is noticed, not of some.         *)
SomeSealLeft(present) == named = {} \/ present # {}

(* _refuse_deleted_seal: every seal the stored manifest names is present.  *)
NoDeletedSeal(present) == named \subseteq present

(* _stage_seal_payload for attempt n over the disk as it is now.           *)
SealPayload(n) == [inv |-> published, env |-> envs[n]]

NoPass == [pc |-> "idle", walk |-> {}, ord |-> 0, payload |-> None]

NoReader == [pc |-> "idle", route |-> "reread", got |-> [n \in Ordinal |-> None],
             inv |-> {}, floor |-> {}, ord |-> 0]

AtRest ==
    /\ \A p \in Pass : pass[p].pc = "idle"
    /\ reader.pc \in {"idle", "accepted", "refused"}

Init ==
    /\ published = {}
    /\ envs = [n \in Ordinal |-> None]
    /\ seals = [n \in Ordinal |-> None]
    /\ named = {}
    /\ missed = {}
    /\ machine \in Env
    /\ pass = [p \in Pass |-> NoPass]
    /\ reader = NoReader
    /\ losses = 0
    /\ crashes = 0
    /\ damaged = FALSE

-----------------------------------------------------------------------------
(* The producer.                                                           *)

Goto(p, pc) == pass' = [pass EXCEPT ![p].pc = pc]

(* open_context: the bindings and the predecessor's seal held.             *)
OpenPass(p) ==
    /\ pass[p].pc = "idle"
    /\ Goto(p, "working")
    /\ UNCHANGED <<disk, machine, reader, faults>>

(* StageContext.publish.  A byte-identical artifact is reused; which work  *)
(* a pass finds to do depends on its inputs, so any artifact may be next.  *)
Publish(p, a) ==
    /\ pass[p].pc = "working"
    /\ published' = published \cup {a}
    /\ UNCHANGED <<envs, seals, named, machine, pass, reader, faults>>

(* build_manifest: the stage is walked and what is there is listed.        *)
Walk(p, next) == pass' = [pass EXCEPT ![p].pc = next, ![p].walk = Present]

(* The first finish() of a ManifestFirst stage walks the stage before the  *)
(* boundary is looked at.                                                  *)
FinishEarly(p) ==
    /\ ManifestFirst
    /\ pass[p].pc = "working"
    /\ Walk(p, "walkedFirst")
    /\ UNCHANGED <<disk, machine, reader, faults>>

(* write_manifest: the stored manifest is replaced by what the walk found, *)
(* which may be less than what another pass has stored meanwhile.  After   *)
(* the last finish() the stage exits.                                      *)
WriteManifest(p) ==
    /\ pass[p].pc \in {"walkedFirst", "walkedLast"}
    /\ named' = pass[p].walk
    /\ pass' = [pass EXCEPT ![p] = IF pass[p].pc = "walkedLast" THEN NoPass
                                   ELSE [NoPass EXCEPT !.pc = "inventoried"]]
    /\ UNCHANGED <<published, envs, seals, machine, reader, faults>>

ReadyToSeal(p) == pass[p].pc = IF ManifestFirst THEN "inventoried" ELSE "working"

(* Mutant: the next attempt is taken without looking for deleted seals.    *)
PriorUnproved(p) ==
    /\ pass[p].pc = "listed"
    /\ \E n \in 0 .. MaxSeal :
          /\ LatestAttempt(pass[p].walk, n)
          /\ pass' = [pass EXCEPT ![p] = [NoPass EXCEPT !.pc = "numbered", !.ord = n]]
    /\ UNCHANGED <<disk, machine, reader, faults>>

(* seal_boundary lists the seals on disk ...                               *)
CheckList(p) ==
    /\ ReadyToSeal(p)
    /\ Walk(p, "listed")
    /\ UNCHANGED <<disk, machine, reader, faults>>

(* ... reads the stored manifest to refuse a deleted seal, takes the       *)
(* latest of those listed as the prior one ...                             *)
CheckPrior(p) ==
    /\ pass[p].pc = "listed"
    /\ NoDeletedSeal(pass[p].walk)
    /\ \E n \in 0 .. MaxSeal :
          /\ LatestAttempt(pass[p].walk, n)
          /\ pass' = [pass EXCEPT ![p] = [NoPass EXCEPT !.pc = "numbered", !.ord = n]]
    /\ UNCHANGED <<disk, machine, reader, faults>>

(* ... or refuses a deleted seal or a gap in the attempts.                 *)
CheckRefuse(p) ==
    /\ pass[p].pc = "listed"
    /\ \/ ~NoDeletedSeal(pass[p].walk)
       \/ \A n \in 0 .. MaxSeal : ~LatestAttempt(pass[p].walk, n)
    /\ pass' = [pass EXCEPT ![p] = [NoPass EXCEPT !.pc = "refused"]]
    /\ UNCHANGED <<disk, machine, reader, faults>>

StatesTheDisk(n) == n > 0 /\ seals[n] = SealPayload(n)

(* The prior seal is reused when it still states the disk, walked again    *)
(* for the comparison ...                                                  *)
CheckReuse(p) ==
    /\ pass[p].pc = "numbered"
    /\ StatesTheDisk(pass[p].ord)
    /\ pass' = [pass EXCEPT ![p] = [NoPass EXCEPT !.pc = "sealed"]]
    /\ UNCHANGED <<disk, machine, reader, faults>>

(* Mutant: every pass mints a seal, an unchanged disk included.            *)
MintEveryPass(p) ==
    /\ pass[p].pc = "numbered"
    /\ pass[p].ord < MaxSeal
    /\ pass' = [pass EXCEPT ![p].pc = "checked", ![p].ord = @ + 1]
    /\ UNCHANGED <<disk, machine, reader, faults>>

(* ... else the next attempt is taken.                                     *)
CheckNext(p) ==
    /\ pass[p].pc = "numbered"
    /\ pass[p].ord < MaxSeal
    /\ ~StatesTheDisk(pass[p].ord)
    /\ pass' = [pass EXCEPT ![p].pc = "checked", ![p].ord = @ + 1]
    /\ UNCHANGED <<disk, machine, reader, faults>>

(* Mutant: an existing file is refused even when it holds the same bytes.  *)
NeverReuse(old, new) == old = None

(* _publish_bytes: a file is created, found to hold the same bytes, or     *)
(* refused; it is never replaced.                                          *)
Immutable(old, new) == old = None \/ old = new

(* seal_boundary publishes decode-environment attempt n ...                *)
PublishEnv(p) ==
    /\ pass[p].pc = "checked"
    /\ IF Immutable(envs[pass[p].ord], machine)
       THEN /\ envs' = [envs EXCEPT ![pass[p].ord] = machine]
            /\ Goto(p, "witnessed")
       ELSE /\ pass' = [pass EXCEPT ![p] = [NoPass EXCEPT !.pc = "refused"]]
            /\ UNCHANGED envs
    /\ UNCHANGED <<published, seals, named, machine, reader, faults>>

(* ... reads the inventory again for the payload ...                       *)
ReadPayload(p) ==
    /\ pass[p].pc = "witnessed"
    /\ pass' = [pass EXCEPT ![p].pc = "payload",
                            ![p].payload = SealPayload(pass[p].ord)]
    /\ UNCHANGED <<disk, machine, reader, faults>>

(* ... and publishes stage-seal attempt n.                                 *)
PublishSeal(p) ==
    /\ pass[p].pc = "payload"
    /\ IF Immutable(seals[pass[p].ord], pass[p].payload)
       THEN /\ seals' = [seals EXCEPT ![pass[p].ord] = pass[p].payload]
            /\ pass' = [pass EXCEPT ![p] = [NoPass EXCEPT !.pc = "sealed"]]
       ELSE /\ pass' = [pass EXCEPT ![p] = [NoPass EXCEPT !.pc = "refused"]]
            /\ UNCHANGED seals
    /\ UNCHANGED <<published, envs, named, machine, reader, faults>>

(* finish: the stage is walked once more, for the manifest it leaves.      *)
Finish(p) ==
    /\ pass[p].pc = "sealed"
    /\ Walk(p, "walkedLast")
    /\ UNCHANGED <<disk, machine, reader, faults>>

ExitRefused(p) ==
    /\ pass[p].pc = "refused"
    /\ pass' = [pass EXCEPT ![p] = NoPass]
    /\ UNCHANGED <<disk, machine, reader, faults>>

Crash(p) ==
    /\ pass[p].pc # "idle"
    /\ crashes < MaxCrash
    /\ crashes' = crashes + 1
    /\ pass' = [pass EXCEPT ![p] = NoPass]
    /\ UNCHANGED <<disk, machine, reader, missed, losses, damaged>>

-----------------------------------------------------------------------------
(* The reader: _verify_stage_seal.                                         *)

(* The manifest is built and the seals it lists are read.                  *)
ReadSeals(route) ==
    /\ reader.pc \in {"idle", "accepted", "refused"}
    /\ reader' = [pc |-> IF Present = {} THEN "refused" ELSE "listed",
                  route |-> route, got |-> seals, inv |-> published,
                  floor |-> named, ord |-> 0]
    /\ UNCHANGED <<disk, machine, pass, faults>>

(* The reader ends: only what it proved and when it began is kept.         *)
Verdict(pc) == reader' = [NoReader EXCEPT !.pc = pc, !.route = reader.route,
                                          !.floor = reader.floor, !.ord = reader.ord]

(* The stored manifest is read and the latest attempt derived.             *)
ProveAttempts ==
    /\ reader.pc = "listed"
    /\ \/ /\ NoDeletedSeal(Stored(reader.got))
          /\ \E n \in Ordinal : /\ LatestAttempt(Stored(reader.got), n)
                                /\ reader' = [reader EXCEPT !.pc = "proved", !.ord = n]
       \/ /\ \/ ~NoDeletedSeal(Stored(reader.got))
             \/ \A n \in Ordinal : ~LatestAttempt(Stored(reader.got), n)
          /\ Verdict("refused")
    /\ UNCHANGED <<disk, machine, pass, faults>>

(* Mutant: the second walk of the disk is saved on every route.            *)
SnapshotOnly == reader.inv

(* The inventory the seal is compared with: the snapshot's, or the disk    *)
(* walked again.                                                           *)
WitnessedNow == IF reader.route = "snapshot" THEN reader.inv ELSE published

(* The payload is rebuilt and compared.                                    *)
CompareInventory ==
    /\ reader.pc = "proved"
    /\ Verdict(IF reader.got[reader.ord] = [inv |-> WitnessedNow, env |-> envs[reader.ord]]
               THEN "accepted" ELSE "refused")
    /\ UNCHANGED <<disk, machine, pass, faults>>

-----------------------------------------------------------------------------
(* What happens to the machine and the disk between passes.                *)

(* A library upgrade: the next process loads other decoders.               *)
Upgrade ==
    /\ \A p \in Pass : pass[p].pc = "idle"
    /\ machine' \in Env \ {machine}
    /\ UNCHANGED <<disk, pass, reader, faults>>

LoseSeal(n) ==
    /\ AtRest
    /\ losses < MaxLost
    /\ seals[n] # None
    /\ seals' = [seals EXCEPT ![n] = None]
    /\ missed' = IF n \in named THEN missed \cup {n} ELSE missed
    /\ losses' = losses + 1
    /\ UNCHANGED <<published, envs, named, machine, pass, reader, crashes, damaged>>

LoseArtifact(a) ==
    /\ AtRest
    /\ losses < MaxLost
    /\ a \in published
    /\ published' = published \ {a}
    /\ losses' = losses + 1
    /\ damaged' = TRUE
    /\ UNCHANGED <<envs, seals, named, missed, machine, pass, reader, crashes>>

-----------------------------------------------------------------------------
SealStep(p) ==
    \/ FinishEarly(p) \/ WriteManifest(p)
    \/ CheckList(p) \/ CheckPrior(p) \/ CheckRefuse(p) \/ CheckReuse(p) \/ CheckNext(p)
    \/ PublishEnv(p) \/ ReadPayload(p) \/ PublishSeal(p)
    \/ Finish(p) \/ ExitRefused(p)

ReaderStep == (\E route \in Route : ReadSeals(route)) \/ ProveAttempts \/ CompareInventory

Next ==
    \/ \E p \in Pass : OpenPass(p) \/ SealStep(p) \/ Crash(p)
    \/ \E p \in Pass, a \in Artifact : Publish(p, a)
    \/ ReaderStep
    \/ Upgrade
    \/ \E n \in Ordinal : LoseSeal(n)
    \/ \E a \in Artifact : LoseArtifact(a)

Spec == Init /\ [][Next]_vars

(* The driver is run again until the stage completes, and a process that   *)
(* has started runs on unless it dies.                                     *)
Fairness == \A p \in Pass : WF_vars(OpenPass(p)) /\ WF_vars(SealStep(p))

FairSpec == Spec /\ Fairness

-----------------------------------------------------------------------------
(* The seals a stage leaves are an ever-growing account of it: a later     *)
(* attempt always states strictly more than an earlier one, whatever       *)
(* passes overlapped or died, as long as no artifact was lost.             *)
SealsGrow ==
    ~damaged => \A i, j \in Present :
        i < j => seals[i].inv \subseteq seals[j].inv /\ seals[i].inv # seals[j].inv

(* The promise of the boundary: what is on disk, what its seals state of   *)
(* it, and whether a reader that walked the disk again accepted them.      *)
Boundary == INSTANCE SealedBoundary WITH
    records <- published,
    stated <- {<<n, seals[n].inv>> : n \in Present},
    accepted <- reader.pc = "accepted" /\ reader.route = "reread",
    damaged <- damaged

(* Whatever passes overlapped or died and whichever seals were lost, every *)
(* step of the seal protocol is one SealedBoundary allows: seals only come *)
(* to state strictly more than all seals there are, and only a boundary    *)
(* whose seal states the whole disk is accepted by a reader that walks it. *)
BoundaryKept == Boundary!Spec

(* A seal that was lost while the stored manifest named it is never        *)
(* written again, whichever passes overlap, die or replace the manifest    *)
(* later (seal_boundary: "a missing seal that a prior manifest names is    *)
(* refused, never recreated").                                             *)
NamedSealNeverRecreated == \A n \in missed : seals[n] = None

(* A reader that proves a boundary in two reads of the disk accepts only   *)
(* the newest seal, and only over exactly the inventory that seal states,  *)
(* even if passes seal and publish between its reads.                      *)
AcceptedIsCurrent ==
    [][reader.pc = "proved" /\ reader'.pc = "accepted"
         /\ reader.route = "reread" /\ ~damaged =>
           /\ \A n \in Present : n <= reader.ord
           /\ seals[reader.ord] = [inv |-> published, env |-> envs[reader.ord]]]_vars

(* No reader accepts a boundary older than one the manifest already named  *)
(* when it began, whatever files were lost.                                *)
AcceptedNotBelowNamed ==
    reader.pc = "accepted" => \A n \in reader.floor : n <= reader.ord

(* After the last crash and the last artifact, the boundary becomes        *)
(* acceptable and stays so: its newest seal states the disk.               *)
Acceptable ==
    /\ NoDeletedSeal(Present)
    /\ \E n \in Ordinal : LatestAttempt(Present, n) /\ StatesTheDisk(n)

BoundarySettles == <>[]Acceptable

-----------------------------------------------------------------------------
(* The inductive strengthening of the safety properties.                   *)

(* What a walk found is still there: nothing leaves the disk while a pass  *)
(* runs.  Seals published since follow those found without a gap.          *)
WalkSound(rec) ==
    /\ rec.pc \in HoldsWalk => rec.walk \subseteq Present
    /\ rec.pc = "listed" =>
         Present = rec.walk \/ \E n \in 0 .. MaxSeal : LatestAttempt(Present, n)

(* A pass that took an attempt found every earlier one on disk, and the    *)
(* inventory has outgrown them all.                                        *)
AttemptSound(rec) ==
    /\ rec.pc = "numbered" =>
         \E n \in 0 .. MaxSeal : LatestAttempt(Present, n) /\ rec.ord <= n
    /\ rec.pc \in HoldsOrdinal =>
        /\ rec.ord \in Ordinal
        /\ \E n \in 0 .. MaxSeal : LatestAttempt(Present, n) /\ rec.ord <= n + 1
        /\ ~damaged => \A i \in Ordinal : i < rec.ord =>
                          seals[i].inv \subseteq published /\ seals[i].inv # published

PayloadSound(rec) ==
    /\ rec.pc \in {"witnessed", "payload"} => envs[rec.ord] # None
    /\ rec.pc = "payload" =>
         /\ rec.payload # None
         /\ rec.payload.env = envs[rec.ord]
         /\ rec.payload.inv \subseteq published
         /\ ~damaged => \A i \in Ordinal : i < rec.ord =>
               seals[i].inv \subseteq rec.payload.inv /\ seals[i].inv # rec.payload.inv

(* Passes that read the stored manifest and were not refused.              *)
PastManifest == {"numbered", "sealed", "walkedLast"} \cup HoldsOrdinal

(* A stage that writes its manifest only after sealing gets past its check *)
(* only while no seal it ever named is gone.                               *)
ManifestRead(rec) ==
    ~ManifestFirst =>
        /\ rec.pc \in PastManifest => missed = {}
        /\ rec.pc \notin {"walkedFirst", "inventoried"}

PassSound(rec) ==
    /\ WalkSound(rec)
    /\ AttemptSound(rec)
    /\ PayloadSound(rec)
    /\ ManifestRead(rec)

PassesSound == \A p \in Pass : PassSound(pass[p])

SealsStated ==
    /\ \A n \in Present : envs[n] # None /\ seals[n].env = envs[n]
    /\ ~damaged => \A n \in Present : seals[n].inv \subseteq published

(* The manifest may fall behind the seals when passes overlap, but a seal  *)
(* it named when it was lost stays named: no pass gets to replace it.      *)
ManifestSound ==
    ~ManifestFirst =>
        /\ missed \subseteq named
        /\ named \subseteq Present \cup missed
        /\ NamedSealNeverRecreated

ReaderSound ==
    /\ reader.pc \in {"listed", "proved"} =>
         \A n \in Ordinal : reader.got[n] # None => seals[n] = reader.got[n]
    /\ reader.pc = "proved" =>
         /\ reader.ord \in Ordinal
         /\ LatestAttempt(Stored(reader.got), reader.ord)
    /\ ~ManifestFirst =>
         /\ reader.pc = "listed" => reader.floor \subseteq Stored(reader.got) \cup missed
         /\ reader.pc = "proved" => reader.floor \subseteq Stored(reader.got)
         /\ AcceptedNotBelowNamed

BoundaryInv ==
    /\ TypeOK
    /\ PassesSound
    /\ SealsStated
    /\ SealsGrow
    /\ ManifestSound
    /\ ReaderSound
=============================================================================
