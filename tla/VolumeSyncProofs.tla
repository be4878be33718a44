-------------------------- MODULE VolumeSyncProofs --------------------------
(***************************************************************************)
(* What holds of a run and its copy on the volume for any stages, units,   *)
(* selections, workers and threshold, and any number of invocations and    *)
(* faults.                                                                 *)
(*                                                                         *)
(* The argument is about what a time says: a file is held when the volume  *)
(* has the bytes the disk has, or lost them.  A line of the ledger, a file *)
(* a worker linked and a file the copy passed over are each held as long   *)
(* as the file was not written since; times only grow, so a file that was  *)
(* written since never looks unwritten again.                              *)
(***************************************************************************)
EXTENDS VolumeSync, FiniteSetTheorems, TLAPS

Phases == {"off", "hydrate", "drive", "final", "ended"}
Places == {"off", "next", "stage", "boundary", "check", "return", "raise", "done"}
Results == {"none", "halted", "complete", "held"}
Exits == {"none", "halted", "complete", "held", "fatal"}
Syncs == {"none", "planned", "copying", "copied", "refused", "broken"}

Plans == UNION {[F -> Nat] : F \in SUBSET File}

TypedFiles ==
  /\ DOMAIN disk = File
  /\ \A f \in File : disk[f] = Absent \/ disk[f] \in [bytes : ContentOf(f), time : Nat]
  /\ DOMAIN vol = File /\ \A f \in File : vol[f] = Absent \/ vol[f] \in ContentOf(f)
  /\ ledger \in [File -> Nat \cup {Absent}]
  /\ known = Unread \/ known \in [File -> Nat \cup {Absent}]
  /\ sync \in [st : Syncs, plan : Plans, todo : SUBSET File, linked : SUBSET File]

TypedPlaces ==
  /\ phase \in Phases
  /\ drv \in [pc : Places, from : Nat, at : Nat, to : Nat, result : Results, exit : Exits]
  /\ drv.from \in 1 .. drv.at /\ drv.at \in 1 .. drv.to /\ drv.to \in 1 .. Last
  /\ runs \in Nat /\ halted \in BOOLEAN /\ whole \in BOOLEAN

Typed == TypedFiles /\ TypedPlaces

Held(f) == f \in lost \/ vol[f] = Bytes(f)

\* A line of the ledger was true when it was written, and is while the file's time is it.
LinesTrue ==
  /\ \A f \in lost : vol[f] = Absent
  /\ \A f \in File : ledger[f] # Absent =>
       /\ f \in OnDisk /\ ledger[f] <= disk[f].time
       /\ ledger[f] = disk[f].time => Held(f)
  /\ known # Unread => \A f \in File : known[f] \in {Absent, ledger[f]}

\* A copy freezes the times the disk had, and what it passed over, linked or recorded
\* is held while the file's time is the planned one.
CopyTrue ==
  /\ \A f \in DOMAIN sync.plan : f \in OnDisk /\ sync.plan[f] <= disk[f].time
  /\ sync.linked \subseteq sync.todo /\ sync.todo \subseteq DOMAIN sync.plan
  /\ \A f \in sync.linked : Unchanged(f) => Held(f)
  /\ sync.st \notin {"none", "planned"} => known \in [File -> Nat \cup {Absent}]
  /\ sync.st \in {"copying", "copied"} =>
       \A f \in DOMAIN sync.plan \ sync.todo : Unchanged(f) => Held(f)
  /\ sync.st \in {"planned", "copied"} => sync.todo = {}
  /\ sync.st = "none" => sync = NoSync

\* The final copy is of everything as it is, and trusts no line of a file that is not there.
FinalTrue ==
  /\ phase = "final" =>
       /\ sync.st # "none"
       /\ \A f \in OnDisk : f \in DOMAIN sync.plan /\ sync.plan[f] = disk[f].time
       /\ sync.st = "planned" => known = Unread
       /\ sync.st \in {"copying", "copied"} =>
            /\ \A f \in File : known[f] # Absent => f \in OnVolume
            /\ \A f \in DOMAIN sync.plan \ sync.todo : f \in OnVolume
            /\ sync.linked \subseteq OnVolume
  /\ phase \in {"off", "hydrate", "ended"} => sync = NoSync

Copies == Typed /\ LinesTrue /\ CopyTrue /\ FinalTrue /\ EndedHoldsAll

------------------------------------------------------------------------------
(* The stages of an invocation.                                               *)

Files(s) == Artifact(s) \cup {Manifest(s)}

Planned(s) ==
  sync.st # "none" /\ \A f \in Files(s) \cap OnDisk :
                        f \in DOMAIN sync.plan /\ sync.plan[f] = disk[f].time

\* Where the orchestrator is, and what the copy of the stage before is by then.
Driven ==
  /\ phase = "hydrate" => drv.at = drv.from
  /\ phase = "drive" /\ drv.at > drv.from =>
       /\ drv.pc \in {"next", "stage"} => Planned(drv.at - 1)
       /\ drv.pc = "boundary" =>
            IF sync.st = "none" THEN Copied(drv.at - 1) ELSE Planned(drv.at - 1)
       /\ drv.pc = "check" => Copied(drv.at - 1)
       /\ drv.pc = "return" => Copied(drv.at - 1) \/ Planned(drv.at - 1)
  /\ phase = "drive" /\ drv.pc = "check" => Planned(drv.at)

------------------------------------------------------------------------------
(* What may differ between the disk, the volume and a plan.                   *)

WrittenOnce ==
  /\ \A f \in OnDisk \cap OnVolume : f \notin Manifests => vol[f] = Bytes(f)
  /\ \A f \in DOMAIN sync.plan : f \notin Manifests => Unchanged(f)
  /\ phase = "drive" => OnVolume \subseteq OnDisk /\ DOMAIN sync.plan \cap Logs = {}
  /\ \A r \in 1 .. MaxRuns : r > runs => Log(r) \notin OnDisk \cup OnVolume
  /\ phase = "hydrate" =>
       Differs # {} \/ (runs \in 1 .. MaxRuns /\ Log(runs) \notin OnDisk \cup OnVolume)
  /\ phase = "drive" => runs \in 1 .. MaxRuns /\ Log(runs) \notin OnVolume

------------------------------------------------------------------------------
(* A halt.                                                                    *)

VolumeFailures == {f \in OnVolume : f[1] = "artifact" /\ vol[f] = "failed"}

StaysHalted ==
  /\ halted =>
       Breached \/ (phase \in {"off", "hydrate"} /\ Cardinality(VolumeFailures) > Threshold)
  /\ halted /\ phase = "drive" => drv.pc # "stage"
  /\ phase = "drive" /\ drv.pc = "return" /\ drv.exit = "halted" => Breached

Inv == Copies /\ Driven /\ BehindByOne /\ WrittenOnce /\ OnlyManifestsRefused /\ StaysHalted

------------------------------------------------------------------------------
(* The files.                                                                 *)

LEMMA Kinds ==
  /\ \A s : \A f \in Artifact(s) : f[1] = "artifact" /\ f[2] = s
  /\ \A s : Manifest(s)[1] = "manifest" /\ Manifest(s)[2] = s
  /\ \A r : Log(r)[1] = "log" /\ Log(r)[2] = r
  /\ \A s \in Stage : Artifact(s) \subseteq File /\ Manifest(s) \in File
  /\ \A r \in 1 .. MaxRuns : Log(r) \in File
  /\ \A f \in File : /\ f[1] = "artifact" => f \in Artifact(f[2]) /\ f[2] \in Stage
                     /\ f[1] = "manifest" <=> f \in Manifests
                     /\ f[1] = "log" <=> f \in Logs
                     /\ f[1] \in {"artifact", "manifest", "log"}
<1>1. /\ \A s : \A f \in Artifact(s) : f[1] = "artifact" /\ f[2] = s
      /\ \A s : Manifest(s)[1] = "manifest" /\ Manifest(s)[2] = s
      /\ \A r : Log(r)[1] = "log" /\ Log(r)[2] = r
  BY DEF Artifact, Manifest, Log
<1>2. /\ \A s \in Stage : Artifact(s) \subseteq File /\ Manifest(s) \in File
      /\ \A r \in 1 .. MaxRuns : Log(r) \in File
  <2>1. \A s \in Stage : Artifact(s) \subseteq Artifacts
    BY DEF Artifacts
  <2>2. \A s \in Stage : Manifest(s) \in Manifests
    BY DEF Manifests
  <2>3. \A r \in 1 .. MaxRuns : Log(r) \in Logs
    BY DEF Logs
  <2> QED
    BY <2>1, <2>2, <2>3 DEF File
<1>3. \A f \in Manifests : f[1] = "manifest"
  BY <1>1 DEF Manifests
<1>4. \A f \in Logs : f[1] = "log"
  BY <1>1 DEF Logs
<1>5. \A f \in File : (\E s \in Stage : f \in Artifact(s)) \/ f \in Manifests \/ f \in Logs
  <2>1. \A f \in Artifacts : \E s \in Stage : f \in Artifact(s)
    BY DEF Artifacts
  <2> QED
    BY <2>1 DEF File
<1> QED
  BY <1>1, <1>2, <1>3, <1>4, <1>5

\* What a function on a finite set takes is finite.
LEMMA FiniteRange ==
  ASSUME NEW S, IsFiniteSet(S), NEW g, DOMAIN g = S
  PROVE  IsFiniteSet({g[x] : x \in S})
<1> DEFINE T == {g[x] : x \in S}
           h == [x \in S |-> g[x]]
<1>1. h \in Surjection(S, T)
  BY DEF Surjection
<1> QED
  BY <1>1, FS_Surjection

LEMMA FileFinite == IsFiniteSet(File)
<1>1. IsFiniteSet(Stage) /\ IsFiniteSet(1 .. MaxRuns)
  BY FS_Interval, VolumeSyncAssumption DEF Stage
<1>2. IsFiniteSet(Manifests)
  <2> DEFINE g == [s \in Stage |-> Manifest(s)]
  <2>1. Manifests = {g[s] : s \in Stage}
    BY DEF Manifests
  <2> HIDE DEF g
  <2> QED
    BY <1>1, <2>1, FiniteRange DEF g
<1>3. IsFiniteSet(Logs)
  <2> DEFINE g == [r \in 1 .. MaxRuns |-> Log(r)]
  <2>1. Logs = {g[r] : r \in 1 .. MaxRuns}
    BY DEF Logs
  <2> QED
    BY <1>1, <2>1, FiniteRange
<1>4. IsFiniteSet(Artifacts)
  <2> DEFINE g == [u \in Units |-> <<"artifact", u[1], u[2]>>]
  <2>1. IsFiniteSet({g[u] : u \in Units})
    BY VolumeSyncAssumption, FiniteRange
  <2>2. \A s \in Stage : Artifact(s) \subseteq {g[u] : u \in Units}
    BY DEF Artifact
  <2>3. Artifacts \subseteq {g[u] : u \in Units}
    BY <2>2 DEF Artifacts
  <2> HIDE DEF g
  <2> QED
    BY <2>1, <2>3, FS_Subset
<1> QED
  BY <1>2, <1>3, <1>4, FS_Union DEF File

LEMMA PlansAre ==
  /\ Unread \in Plans
  /\ \A p \in Plans : DOMAIN p \subseteq File /\ \A f \in DOMAIN p : p[f] \in Nat
  /\ \A F \in SUBSET File : \A p \in [F -> Nat] : p \in Plans
  /\ DOMAIN Unread = {}
<1>1. Unread \in [{} -> Nat] /\ DOMAIN Unread = {}
  BY DEF Unread
<1> QED
  BY <1>1 DEF Plans

\* A file that is there has content and a time.
LEMMA There ==
  ASSUME TypedFiles, NEW f \in OnDisk
  PROVE  f \in File /\ Bytes(f) \in ContentOf(f) /\ Bytes(f) # Absent /\ disk[f].time \in Nat
BY AbsentAssumption DEF OnDisk, TypedFiles, Bytes

\* A file that is written is there, with a later time; no other file changes.
LEMMA Wrote ==
  ASSUME TypedFiles, NEW f \in File, NEW b \in ContentOf(f), Write(f, b)
  PROVE  /\ DOMAIN disk' = File
         /\ \A g \in File : disk'[g] = Absent \/ disk'[g] \in [bytes : ContentOf(g), time : Nat]
         /\ \A g \in File : g # f => disk'[g] = disk[g]
         /\ OnDisk' = OnDisk \cup {f}
         /\ Bytes(f)' = b
         /\ f \in OnDisk => disk'[f].time = disk[f].time + 1
<1> DEFINE t == IF f \in OnDisk THEN disk[f].time + 1 ELSE 1
<1>1. t \in Nat
  BY There
<1>2. disk' = [disk EXCEPT ![f] = [bytes |-> b, time |-> t]] /\ DOMAIN disk = File
  BY DEF Write, TypedFiles
<1> HIDE DEF t
<1>3. disk'[f] = [bytes |-> b, time |-> t] /\ disk'[f] \in [bytes : ContentOf(f), time : Nat]
  BY <1>1, <1>2
<1>4. disk'[f] # Absent
  BY <1>3, AbsentAssumption
<1>5. \A g \in File : g # f => disk'[g] = disk[g]
  BY <1>2
<1>6. OnDisk' = OnDisk \cup {f}
  BY <1>4, <1>5 DEF OnDisk
<1>7. f \in OnDisk => disk'[f].time = disk[f].time + 1
  BY <1>3 DEF t
<1>8. \A g \in File : disk'[g] = Absent \/ disk'[g] \in [bytes : ContentOf(g), time : Nat]
  BY <1>3, <1>5 DEF TypedFiles
<1> QED
  BY <1>2, <1>3, <1>5, <1>6, <1>7, <1>8 DEF Bytes

------------------------------------------------------------------------------
(* What a step may be to the copies.                                          *)

\* A file is written, by the stage that runs or from the volume.
Writes(g, c) ==
  /\ Write(g, c) /\ UNCHANGED <<vol, ledger, sync, known, pod, history>>
  /\ drv' \in {drv, [drv EXCEPT !.pc = "boundary",
                               !.result = IF Artifact(drv.at) \subseteq OnDisk
                                          THEN "complete" ELSE "held"]}
  /\ \/ phase = "hydrate" /\ g \in OnVolume \ OnDisk /\ c = vol[g] /\ drv' = drv
     \/ /\ phase = "drive" /\ drv.pc = "stage"
        /\ g \in Artifact(drv.at) \ OnDisk \/ g = Manifest(drv.at) \/ g = Log(runs)

\* No file is touched; the copy goes on, is let go of or is planned anew.
Controls ==
  /\ UNCHANGED <<disk, vol, ledger, lost>>
  /\ \/ sync' = sync /\ known' = known
     \/ known' \in {known, Unread} /\ sync' = NoSync
     \/ known' \in {known, Unread} /\ \E F \in SUBSET OnDisk : sync' = Plan(F)

LEMMA AtStage == ASSUME TypedPlaces PROVE drv.at \in Stage /\ drv.at - 1 \in Nat
BY VolumeSyncAssumption DEF TypedPlaces, Stage

LEMMA PublishWrites ==
  ASSUME Inv, NEW f, NEW b \in {"read", "failed"}, Publish(f, b)
  PROVE  f \in File /\ b \in ContentOf(f) /\ Writes(f, b)
<1>1. f \in Artifact(drv.at) \ OnDisk /\ drv.at \in Stage
  BY AtStage DEF Publish, Inv, Copies, Typed
<1>2. f \in File /\ f[1] = "artifact"
  BY <1>1, Kinds
<1> QED
  BY <1>1, <1>2 DEF Publish, Writes, At, ContentOf

LEMMA EngineWritesOne ==
  ASSUME Inv, EngineWrites
  PROVE  \E f \in File : \E b \in ContentOf(f) : Writes(f, b)
<1> DEFINE f == Log(runs)
           b == IF drv.at = Resident THEN 1 ELSE 2
<1>1. phase = "drive" /\ runs \in 1 .. MaxRuns
  BY DEF EngineWrites, At, Inv, WrittenOnce
<1>2. f \in File /\ f[1] = "log"
  BY <1>1, Kinds
<1>3. b \in ContentOf(f)
  BY <1>2 DEF ContentOf
<1>4. Writes(f, b)
  BY DEF EngineWrites, Writes, At
<1> QED
  BY <1>2, <1>3, <1>4

LEMMA StageEndsWrites ==
  ASSUME Inv, StageEnds
  PROVE  \E f \in File : \E b \in ContentOf(f) : Writes(f, b)
<1> DEFINE f == Manifest(drv.at)
           b == Published(drv.at)
<1>1. drv.at \in Stage
  BY AtStage DEF Inv, Copies, Typed
<1>2. f \in File /\ f[1] = "manifest"
  BY <1>1, Kinds
<1>3. b \in ContentOf(f)
  BY <1>2 DEF ContentOf, Published, OnDisk
<1>4. Writes(f, b)
  BY DEF StageEnds, Writes, At
<1> QED
  BY <1>2, <1>3, <1>4

LEMMA HydrateWrites ==
  ASSUME Inv, NEW f, HydrateOne(f)
  PROVE  f \in File /\ vol[f] \in ContentOf(f) /\ Writes(f, vol[f])
<1>1. f \in OnVolume \ OnDisk
  BY DEF HydrateOne, FirstOf
<1> QED
  BY <1>1 DEF HydrateOne, Writes, OnVolume, Inv, Copies, Typed, TypedFiles

LEMMA DriverControls ==
  ASSUME Inv, HeldRecensor \/ Invoke \/ StageFails \/ JoinPrevious \/ StartSync
                \/ CheckBoundary \/ DriveEnds
  PROVE  Controls
<1>1. CASE HeldRecensor \/ Invoke \/ StageFails \/ CheckBoundary
  BY <1>1 DEF HeldRecensor, Invoke, StageFails, CheckBoundary, Controls, history
<1>2. CASE JoinPrevious
  BY <1>2 DEF JoinPrevious, Controls, history
<1>3. CASE StartSync
  BY <1>3 DEF StartSync, Controls, history, StageFiles
<1>4. CASE DriveEnds
  BY <1>4 DEF DriveEnds, FinalSync, Controls
<1> QED
  BY <1>1, <1>2, <1>3, <1>4

LEMMA PodControls ==
  ASSUME Inv, \/ HydrateRefused \/ Hydrated \/ RunEnds \/ Killed
              \/ \E c \in Selections : Launch(c[1], c[2])
              \/ UNCHANGED vars
  PROVE  Controls
<1>1. CASE HydrateRefused \/ RunEnds \/ Killed \/ UNCHANGED vars
  BY <1>1 DEF HydrateRefused, RunEnds, Killed, vars, Controls, history
<1>2. CASE Hydrated
  BY <1>2 DEF Hydrated, Controls, history, Inv, Copies, FinalTrue
<1>3. CASE \E c \in Selections : Launch(c[1], c[2])
  BY <1>3 DEF Launch, Controls, history
<1> QED
  BY <1>1, <1>2, <1>3

LEMMA Steps ==
  ASSUME Inv, [Next]_vars
  PROVE  \/ \E f \in File : \E b \in ContentOf(f) : Writes(f, b)
         \/ Controls \/ BeginCopy \/ CopyEnds \/ VolumeError \/ PodGone
         \/ \E f \in File : LinkOne(f) \/ RecordOne(f) \/ Loss(f)
<1>1. CASE CopyStep
  BY <1>1 DEF CopyStep
<1>2. CASE DriverStep
  BY <1>2, PublishWrites, EngineWritesOne, StageEndsWrites, DriverControls DEF DriverStep
<1>3. CASE PodStep
  BY <1>3, HydrateWrites, PodControls DEF PodStep
<1>4. CASE Fault
  BY <1>4, PodControls DEF Fault
<1>5. CASE (\E c \in Selections : Launch(c[1], c[2])) \/ UNCHANGED vars
  BY <1>5, PodControls
<1> QED
  BY <1>1, <1>2, <1>3, <1>4, <1>5 DEF Next

------------------------------------------------------------------------------
(* What is true of the lines and of the copy stays so.                        *)

LEMMA WritesCopies ==
  ASSUME TypedFiles, LinesTrue, CopyTrue, NEW g \in File, NEW c \in ContentOf(g), Writes(g, c)
  PROVE  TypedFiles' /\ LinesTrue' /\ CopyTrue'
<1>1. /\ DOMAIN disk' = File
      /\ \A f \in File : disk'[f] = Absent \/ disk'[f] \in [bytes : ContentOf(f), time : Nat]
      /\ \A f \in File : f # g => disk'[f] = disk[f]
      /\ OnDisk' = OnDisk \cup {g}
      /\ g \in OnDisk => disk'[g].time = disk[g].time + 1 /\ disk[g].time \in Nat
      /\ UNCHANGED <<vol, ledger, sync, known, lost>>
  BY Wrote, There DEF Writes, history
<1>2. TypedFiles'
  BY <1>1 DEF TypedFiles
<1>3. /\ \A f \in File : f # g => (Held(f) => Held(f)')
      /\ \A f \in File : f # g => (Unchanged(f)' => Unchanged(f))
  BY <1>1 DEF Held, Bytes, Unchanged
<1>4. g \in OnDisk => ledger[g] = Absent \/ ledger[g] < disk'[g].time
  BY <1>1 DEF LinesTrue, TypedFiles
<1>5. g \notin OnDisk => ledger[g] = Absent /\ g \notin DOMAIN sync.plan
  BY DEF LinesTrue, CopyTrue
<1>6. LinesTrue'
  <2> SUFFICES ASSUME NEW f \in File, ledger[f] # Absent
               PROVE  /\ f \in OnDisk' /\ ledger[f] <= disk'[f].time
                      /\ ledger[f] = disk'[f].time => Held(f)'
    BY <1>1 DEF LinesTrue
  <2>1. CASE f = g
    BY <2>1, <1>1, <1>4, <1>5 DEF TypedFiles
  <2>2. CASE f # g
    BY <2>2, <1>1, <1>3 DEF LinesTrue
  <2> QED
    BY <2>1, <2>2
<1>7. sync.plan \in Plans /\ DOMAIN sync.plan \subseteq File
      /\ \A f \in DOMAIN sync.plan : sync.plan[f] \in Nat
  BY PlansAre DEF TypedFiles
<1>8. \A f \in DOMAIN sync.plan :
        /\ f \in OnDisk' /\ sync.plan[f] <= disk'[f].time
        /\ (Unchanged(f) => Held(f)) => (Unchanged(f)' => Held(f)')
  <2> TAKE f \in DOMAIN sync.plan
  <2>1. CASE f = g
    <3>1. g \in OnDisk /\ sync.plan[g] <= disk[g].time
      BY <2>1 DEF CopyTrue
    <3>2. sync.plan[g] < disk'[g].time
      BY <3>1, <1>1, <1>7, <2>1
    <3>3. ~Unchanged(g)'
      BY <3>2, <1>1, <1>7, <2>1 DEF Unchanged
    <3> QED
      BY <2>1, <3>1, <3>2, <3>3, <1>1, <1>7
  <2>2. CASE f # g
    BY <2>2, <1>1, <1>3, <1>7 DEF CopyTrue
  <2> QED
    BY <2>1, <2>2
<1>9. CopyTrue'
  BY <1>1, <1>8 DEF CopyTrue
<1> QED
  BY <1>2, <1>6, <1>9

\* A plan of files that are there is of their times.
LEMMA Planning ==
  ASSUME TypedFiles, NEW F \in SUBSET OnDisk
  PROVE  /\ Plan(F) \in [st : Syncs, plan : Plans, todo : SUBSET File, linked : SUBSET File]
         /\ Plan(F).st = "planned" /\ Plan(F).plan = [f \in F |-> disk[f].time]
         /\ Plan(F).todo = {} /\ Plan(F).linked = {}
<1>1. NoSync \in [st : Syncs, plan : Plans, todo : SUBSET File, linked : SUBSET File]
  BY PlansAre DEF NoSync, Syncs
<1>2. [f \in F |-> disk[f].time] \in [F -> Nat] /\ F \in SUBSET File
  BY There DEF OnDisk
<1>3. [f \in F |-> disk[f].time] \in Plans
  BY <1>2, PlansAre
<1> QED
  BY <1>1, <1>3 DEF Syncs, Plan, NoSync

LEMMA ControlsCopies ==
  ASSUME TypedFiles, LinesTrue, CopyTrue, Controls
  PROVE  TypedFiles' /\ LinesTrue' /\ CopyTrue'
<1>1. /\ UNCHANGED <<disk, vol, ledger, lost>> /\ OnDisk' = OnDisk
      /\ \A f : (Held(f) => Held(f)') /\ Bytes(f)' = Bytes(f)
  BY DEF Controls, OnDisk, Held, Bytes
<1>2. known' \in {known, Unread}
  BY DEF Controls
<1>3. LinesTrue'
  BY <1>1, <1>2 DEF LinesTrue
<1>4. CASE sync' = sync /\ known' = known
  <2>1. \A f : Unchanged(f)' = Unchanged(f)
    BY <1>1, <1>4 DEF Unchanged
  <2>2. CopyTrue'
    BY <1>1, <1>4, <2>1 DEF CopyTrue
  <2> QED
    BY <1>1, <1>3, <1>4, <2>2 DEF TypedFiles
<1>5. CASE sync' = NoSync
  <2>1. NoSync \in [st : Syncs, plan : Plans, todo : SUBSET File, linked : SUBSET File]
    BY PlansAre DEF NoSync, Syncs
  <2>2. CopyTrue'
    BY <1>5, PlansAre DEF CopyTrue, NoSync
  <2> QED
    BY <1>1, <1>2, <1>3, <1>5, <2>1, <2>2 DEF TypedFiles
<1>6. CASE \E F \in SUBSET OnDisk : sync' = Plan(F)
  <2>1. PICK F \in SUBSET OnDisk : sync' = Plan(F)
    BY <1>6
  <2>2. /\ sync' \in [st : Syncs, plan : Plans, todo : SUBSET File, linked : SUBSET File]
        /\ sync'.st = "planned" /\ sync'.plan = [f \in F |-> disk[f].time]
        /\ sync'.todo = {} /\ sync'.linked = {}
    BY <2>1, Planning
  <2>3. \A f \in F : f \in OnDisk /\ disk[f].time \in Nat
    BY There
  <2>4. CopyTrue'
    BY <1>1, <2>2, <2>3 DEF CopyTrue
  <2> QED
    BY <1>1, <1>2, <1>3, <2>2, <2>4 DEF TypedFiles
<1> QED
  BY <1>4, <1>5, <1>6 DEF Controls

\* The types of the copy's parts, as its steps use them.
LEMMA SyncTyped ==
  ASSUME TypedFiles
  PROVE  /\ DOMAIN sync.plan \subseteq File /\ \A f \in DOMAIN sync.plan : sync.plan[f] \in Nat
         /\ \A st \in Syncs, todo \in SUBSET File, linked \in SUBSET File :
              /\ [sync EXCEPT !.st = st] \in [st : Syncs, plan : Plans, todo : SUBSET File,
                                              linked : SUBSET File]
              /\ [sync EXCEPT !.todo = todo, !.st = st]
                   \in [st : Syncs, plan : Plans, todo : SUBSET File, linked : SUBSET File]
              /\ [sync EXCEPT !.linked = linked]
                   \in [st : Syncs, plan : Plans, todo : SUBSET File, linked : SUBSET File]
              /\ [sync EXCEPT !.linked = linked, !.todo = todo]
                   \in [st : Syncs, plan : Plans, todo : SUBSET File, linked : SUBSET File]
BY PlansAre DEF TypedFiles

LEMMA BeginCopyCopies ==
  ASSUME TypedFiles, LinesTrue, CopyTrue, BeginCopy
  PROVE  TypedFiles' /\ LinesTrue' /\ CopyTrue'
<1> DEFINE skipped == {f \in DOMAIN sync.plan : known'[f] = sync.plan[f]}
           end == IF \A f \in skipped : Unchanged(f) THEN "copying" ELSE "refused"
<1>1. /\ UNCHANGED <<disk, vol, ledger, lost>> /\ OnDisk' = OnDisk
      /\ sync.st = "planned"
      /\ known' = IF known = Unread THEN ReadLedger ELSE known
      /\ sync' = [sync EXCEPT !.todo = DOMAIN sync.plan \ skipped, !.st = end]
  BY DEF BeginCopy, history, OnDisk
<1>2. /\ known' \in [File -> Nat \cup {Absent}]
      /\ \A f \in File : known'[f] \in {Absent, ledger[f]}
  <2>1. CASE known = Unread
    BY <2>1, <1>1 DEF ReadLedger, TypedFiles
  <2>2. CASE known # Unread
    BY <2>2, <1>1 DEF LinesTrue, TypedFiles
  <2> QED
    BY <2>1, <2>2
<1>3. /\ DOMAIN sync.plan \subseteq File /\ \A f \in DOMAIN sync.plan : sync.plan[f] \in Nat
      /\ end \in Syncs /\ DOMAIN sync.plan \ skipped \in SUBSET File
  <2>1. end \in Syncs
    BY DEF Syncs
  <2>2. DOMAIN sync.plan \subseteq File /\ \A f \in DOMAIN sync.plan : sync.plan[f] \in Nat
    BY SyncTyped
  <2> HIDE DEF end
  <2> QED
    BY <2>1, <2>2
<1>4. \A f \in skipped : Unchanged(f) => Held(f)
  <2> SUFFICES ASSUME NEW f \in skipped, Unchanged(f) PROVE Held(f)
    OBVIOUS
  <2>1. f \in File /\ known'[f] = sync.plan[f] /\ sync.plan[f] \in Nat
    BY <1>3
  <2>2. ledger[f] = sync.plan[f] /\ ledger[f] # Absent
    BY <2>1, <1>2, AbsentAssumption
  <2>3. ledger[f] = disk[f].time
    BY <2>2 DEF Unchanged
  <2> QED
    BY <2>1, <2>2, <2>3 DEF LinesTrue
<1>5. /\ sync' \in [st : Syncs, plan : Plans, todo : SUBSET File, linked : SUBSET File]
      /\ sync'.plan = sync.plan /\ sync'.linked = sync.linked
      /\ sync'.todo = DOMAIN sync.plan \ skipped /\ sync'.st = end
  <2> HIDE DEF skipped, end
  <2> QED
    BY <1>1, <1>3, SyncTyped DEF TypedFiles
<1>6. \A f : Held(f)' = Held(f) /\ Unchanged(f)' = Unchanged(f)
  BY <1>1, <1>5 DEF Held, Bytes, Unchanged
<1>7. TypedFiles'
  BY <1>1, <1>2, <1>5 DEF TypedFiles
<1>8. LinesTrue'
  BY <1>1, <1>2, <1>6 DEF LinesTrue
<1>9. sync.linked = {}
  BY <1>1 DEF CopyTrue
<1>10. CopyTrue'
  <2> HIDE DEF skipped
  <2>1. end \in {"copying", "refused"}
    OBVIOUS
  <2> HIDE DEF end
  <2>2. \A f \in DOMAIN sync'.plan \ sync'.todo : f \in skipped
    BY <1>5
  <2>3. \A f \in DOMAIN sync'.plan \ sync'.todo : Unchanged(f)' => Held(f)'
    BY <2>2, <1>4, <1>6
  <2>4. \A f \in DOMAIN sync'.plan : f \in OnDisk' /\ sync'.plan[f] <= disk'[f].time
    BY <1>1, <1>5 DEF CopyTrue
  <2> QED
    BY <1>2, <1>5, <1>9, <2>1, <2>3, <2>4 DEF CopyTrue
<1> QED
  BY <1>7, <1>8, <1>10

\* A copy that only ends or breaks.
LEMMA EndsCopies ==
  ASSUME TypedFiles, LinesTrue, CopyTrue, CopyEnds \/ VolumeError
  PROVE  TypedFiles' /\ LinesTrue' /\ CopyTrue'
<1>1. PICK st \in {"copied", "broken"} :
        /\ sync' = [sync EXCEPT !.st = st] /\ (st = "copied" => sync.todo = {})
        /\ sync.st = "copying" /\ UNCHANGED <<disk, vol, ledger, known, lost>>
  BY DEF CopyEnds, VolumeError, history
<1>2. /\ sync' \in [st : Syncs, plan : Plans, todo : SUBSET File, linked : SUBSET File]
      /\ sync'.plan = sync.plan /\ sync'.todo = sync.todo /\ sync'.linked = sync.linked
      /\ sync'.st = st
  <2>1. st \in Syncs
    BY DEF Syncs
  <2> QED
    BY <1>1, <2>1, SyncTyped DEF TypedFiles
<1>3. /\ OnDisk' = OnDisk
      /\ \A f : Held(f)' = Held(f) /\ Unchanged(f)' = Unchanged(f)
  BY <1>1, <1>2 DEF Held, Bytes, Unchanged, OnDisk
<1>4. TypedFiles' /\ LinesTrue'
  BY <1>1, <1>2, <1>3 DEF TypedFiles, LinesTrue
<1>5. CopyTrue'
  BY <1>1, <1>2, <1>3 DEF CopyTrue
<1> QED
  BY <1>4, <1>5

LEMMA LinkCopies ==
  ASSUME TypedFiles, LinesTrue, CopyTrue, NEW g \in File, LinkOne(g)
  PROVE  TypedFiles' /\ LinesTrue' /\ CopyTrue'
<1>1. /\ UNCHANGED <<disk, ledger, known>> /\ OnDisk' = OnDisk
      /\ sync.st = "copying" /\ g \in sync.todo
  BY DEF LinkOne, OnDisk, FirstOf
<1>2. CASE /\ g \in OnDisk /\ vol[g] \in {Absent, Bytes(g)}
           /\ vol' = [vol EXCEPT ![g] = Bytes(g)]
           /\ sync' = [sync EXCEPT !.linked = @ \cup {g}]
           /\ lost' = lost \ {g}
  <2>1. /\ sync' \in [st : Syncs, plan : Plans, todo : SUBSET File, linked : SUBSET File]
        /\ sync'.plan = sync.plan /\ sync'.linked = sync.linked \cup {g}
        /\ sync'.todo = sync.todo /\ sync'.st = sync.st
    BY <1>2, SyncTyped DEF TypedFiles
  <2>2. /\ DOMAIN vol' = File /\ vol'[g] = Bytes(g)
        /\ \A f \in File : f # g => vol'[f] = vol[f]
    BY <1>2 DEF TypedFiles
  <2>3. \A f \in File : Held(f) \/ f = g => Held(f)'
    BY <1>1, <1>2, <2>2 DEF Held, Bytes
  <2>4. \A f : Unchanged(f)' = Unchanged(f)
    BY <1>1, <2>1 DEF Unchanged
  <2>5. TypedFiles'
    BY <1>1, <1>2, <2>1, <2>2, There DEF TypedFiles
  <2>6. LinesTrue'
    BY <1>1, <1>2, <2>2, <2>3 DEF LinesTrue, TypedFiles
  <2>7. DOMAIN sync.plan \subseteq File
    BY SyncTyped
  <2>8. CopyTrue'
    BY <1>1, <2>1, <2>3, <2>4, <2>7 DEF CopyTrue
  <2> QED
    BY <2>5, <2>6, <2>8
<1>3. CASE CopyFails /\ UNCHANGED <<vol, lost>>
  <2>1. /\ sync' \in [st : Syncs, plan : Plans, todo : SUBSET File, linked : SUBSET File]
        /\ sync'.plan = sync.plan /\ sync'.todo = sync.todo /\ sync'.linked = sync.linked
        /\ sync'.st = "refused"
    <3>1. "refused" \in Syncs
      BY DEF Syncs
    <3> QED
      BY <1>3, <3>1, SyncTyped DEF TypedFiles, CopyFails
  <2>2. \A f : Held(f)' = Held(f) /\ Unchanged(f)' = Unchanged(f)
    BY <1>1, <1>3, <2>1 DEF Held, Bytes, Unchanged
  <2>3. TypedFiles' /\ LinesTrue'
    BY <1>1, <1>3, <2>1, <2>2 DEF TypedFiles, LinesTrue
  <2>4. CopyTrue'
    BY <1>1, <2>1, <2>2 DEF CopyTrue
  <2> QED
    BY <2>3, <2>4
<1> QED
  BY <1>2, <1>3 DEF LinkOne

LEMMA RecordCopies ==
  ASSUME TypedFiles, LinesTrue, CopyTrue, NEW g \in File, RecordOne(g)
  PROVE  TypedFiles' /\ LinesTrue' /\ CopyTrue'
<1>1. /\ UNCHANGED <<disk, vol, lost>> /\ OnDisk' = OnDisk
      /\ sync.st = "copying" /\ g \in sync.linked /\ g \in DOMAIN sync.plan
      /\ known \in [File -> Nat \cup {Absent}]
  BY DEF RecordOne, OnDisk, history, CopyTrue
<1>2. CASE /\ Unchanged(g)
           /\ ledger' = [ledger EXCEPT ![g] = sync.plan[g]]
           /\ known' = [known EXCEPT ![g] = sync.plan[g]]
           /\ sync' = [sync EXCEPT !.linked = @ \ {g}, !.todo = @ \ {g}]
  <2>1. /\ sync' \in [st : Syncs, plan : Plans, todo : SUBSET File, linked : SUBSET File]
        /\ sync'.plan = sync.plan /\ sync'.linked = sync.linked \ {g}
        /\ sync'.todo = sync.todo \ {g} /\ sync'.st = sync.st
    BY <1>2, SyncTyped DEF TypedFiles
  <2>2. sync.plan[g] \in Nat /\ DOMAIN sync.plan \subseteq File
    BY <1>1, SyncTyped
  <2>3. /\ ledger' \in [File -> Nat \cup {Absent}] /\ known' \in [File -> Nat \cup {Absent}]
        /\ ledger'[g] = sync.plan[g] /\ known'[g] = sync.plan[g]
        /\ \A f \in File : f # g => ledger'[f] = ledger[f] /\ known'[f] = known[f]
    BY <1>1, <1>2, <2>2 DEF TypedFiles
  <2>4. \A f : Held(f)' = Held(f) /\ Unchanged(f)' = Unchanged(f)
    BY <1>1, <2>1 DEF Held, Bytes, Unchanged
  <2>5. Held(g) /\ g \in OnDisk /\ sync.plan[g] = disk[g].time
    BY <1>1, <1>2 DEF CopyTrue, Unchanged
  <2>6. TypedFiles'
    BY <1>1, <2>1, <2>3 DEF TypedFiles
  <2>7. LinesTrue'
    <3>1. \A f \in File : ledger'[f] # Absent =>
            /\ f \in OnDisk /\ ledger'[f] <= disk[f].time
            /\ ledger'[f] = disk[f].time => Held(f)
      <4> TAKE f \in File
      <4>1. CASE f = g
        BY <4>1, <2>2, <2>3, <2>5
      <4>2. CASE f # g
        BY <4>2, <2>3 DEF LinesTrue
      <4> QED
        BY <4>1, <4>2
    <3>2. \A f \in File : known'[f] \in {Absent, ledger'[f]}
      <4>1. CASE known = Unread
        BY <4>1, <1>1, <2>3, PlansAre
      <4>2. CASE known # Unread
        BY <4>2, <2>3 DEF LinesTrue
      <4> QED
        BY <4>1, <4>2
    <3> QED
      BY <3>1, <3>2, <1>1, <2>4 DEF LinesTrue
  <2>8. CopyTrue'
    BY <1>1, <2>1, <2>3, <2>4, <2>5 DEF CopyTrue
  <2> QED
    BY <2>6, <2>7, <2>8
<1>3. CASE CopyFails /\ UNCHANGED <<ledger, known>>
  <2>1. /\ sync' \in [st : Syncs, plan : Plans, todo : SUBSET File, linked : SUBSET File]
        /\ sync'.plan = sync.plan /\ sync'.todo = sync.todo /\ sync'.linked = sync.linked
        /\ sync'.st = "refused"
    <3>1. "refused" \in Syncs
      BY DEF Syncs
    <3> QED
      BY <1>3, <3>1, SyncTyped DEF TypedFiles, CopyFails
  <2>2. \A f : Held(f)' = Held(f) /\ Unchanged(f)' = Unchanged(f)
    BY <1>1, <1>3, <2>1 DEF Held, Bytes, Unchanged
  <2>3. TypedFiles' /\ LinesTrue'
    BY <1>1, <1>3, <2>1, <2>2 DEF TypedFiles, LinesTrue
  <2>4. CopyTrue'
    BY <1>1, <1>3, <2>1, <2>2 DEF CopyTrue
  <2> QED
    BY <2>3, <2>4
<1> QED
  BY <1>2, <1>3 DEF RecordOne

LEMMA FaultCopies ==
  ASSUME TypedFiles, LinesTrue, CopyTrue, PodGone \/ \E f \in File : Loss(f)
  PROVE  TypedFiles' /\ LinesTrue' /\ CopyTrue'
<1>1. CASE PodGone
  <2>1. /\ disk' = [f \in File |-> Absent] /\ ledger' = [f \in File |-> Absent]
        /\ sync' = NoSync /\ known' = Unread /\ UNCHANGED <<vol, lost>>
    BY <1>1 DEF PodGone
  <2>2. NoSync \in [st : Syncs, plan : Plans, todo : SUBSET File, linked : SUBSET File]
    BY PlansAre DEF NoSync, Syncs
  <2>3. TypedFiles'
    BY <2>1, <2>2 DEF TypedFiles
  <2>4. LinesTrue'
    BY <2>1 DEF LinesTrue
  <2>5. CopyTrue'
    BY <2>1, PlansAre DEF CopyTrue, NoSync
  <2> QED
    BY <2>3, <2>4, <2>5
<1>2. ASSUME NEW g \in File, Loss(g) PROVE TypedFiles' /\ LinesTrue' /\ CopyTrue'
  <2>1. /\ vol' = [vol EXCEPT ![g] = Absent] /\ lost' = lost \cup {g}
        /\ UNCHANGED <<disk, ledger, sync, known>> /\ OnDisk' = OnDisk
    BY <1>2 DEF Loss, OnDisk
  <2>2. /\ DOMAIN vol' = File /\ vol'[g] = Absent
        /\ \A f \in File : f # g => vol'[f] = vol[f]
    BY <2>1 DEF TypedFiles
  <2>3. \A f \in File : Held(f) => Held(f)'
    BY <2>1, <2>2 DEF Held, Bytes
  <2>4. \A f : Unchanged(f)' = Unchanged(f)
    BY <2>1 DEF Unchanged
  <2>5. DOMAIN sync.plan \subseteq File
    BY SyncTyped
  <2>6. TypedFiles'
    BY <2>1, <2>2 DEF TypedFiles
  <2>7. \A f \in lost' : vol'[f] = Absent
    <3>1. \A f : f \notin File => vol'[f] = vol[f]
      BY <2>1
    <3> QED
      BY <3>1, <2>1, <2>2 DEF LinesTrue
  <2>8. LinesTrue'
    BY <2>1, <2>3, <2>7 DEF LinesTrue
  <2>9. CopyTrue'
    BY <2>1, <2>3, <2>4, <2>5 DEF CopyTrue
  <2> QED
    BY <2>6, <2>8, <2>9
<1> QED
  BY <1>1, <1>2

LEMMA CopiesStay ==
  ASSUME Inv, [Next]_vars
  PROVE  TypedFiles' /\ LinesTrue' /\ CopyTrue'
<1> USE DEF Inv, Copies, Typed
<1>1. CASE \E f \in File : \E b \in ContentOf(f) : Writes(f, b)
  BY <1>1, WritesCopies
<1>2. CASE Controls
  BY <1>2, ControlsCopies
<1>3. CASE BeginCopy \/ CopyEnds \/ VolumeError
  BY <1>3, BeginCopyCopies, EndsCopies
<1>4. CASE \E f \in File : LinkOne(f) \/ RecordOne(f)
  BY <1>4, LinkCopies, RecordCopies
<1>5. CASE PodGone \/ \E f \in File : Loss(f)
  BY <1>5, FaultCopies
<1> QED
  BY <1>1, <1>2, <1>3, <1>4, <1>5, Steps

------------------------------------------------------------------------------
(* Where the invocation is, and the copy made of everything at its end.       *)

LEMMA PlacesStay ==
  ASSUME Inv, [Next]_vars
  PROVE  TypedPlaces'
<1> USE DEF Places, Results, Exits, Phases
<1>1. TypedPlaces
  BY DEF Inv, Copies, Typed
<1>2. CASE CopyStep
  BY <1>1, <1>2 DEF CopyStep, BeginCopy, CopyEnds, LinkOne, RecordOne, TypedPlaces, pod, history
<1>3. CASE HeldRecensor \/ Invoke \/ StageFails \/ JoinPrevious \/ StartSync
  BY <1>1, <1>3
     DEF HeldRecensor, Invoke, StageFails, JoinPrevious, StartSync, To, Return, TypedPlaces,
         pod, history
<1>4. CASE CheckBoundary
  <2>1. UNCHANGED <<phase, runs, halted, whole>>
    BY <1>4 DEF CheckBoundary, pod, history
  <2>2. CASE Return("halted") \/ Return("held") \/ Return("complete")
    BY <1>1, <2>1, <2>2 DEF Return, TypedPlaces
  <2>3. CASE drv.at # drv.to /\ drv' = [drv EXCEPT !.pc = "next", !.at = @ + 1, !.result = "none"]
    <3>1. /\ drv.from \in Nat /\ drv.at \in Nat /\ drv.to \in Nat
          /\ drv.from \in 1 .. drv.at /\ drv.at \in 1 .. drv.to /\ drv.to \in 1 .. Last
      BY <1>1 DEF TypedPlaces
    <3>2. /\ drv' \in [pc : Places, from : Nat, at : Nat, to : Nat, result : Results, exit : Exits]
          /\ drv'.at = drv.at + 1 /\ drv'.from = drv.from /\ drv'.to = drv.to
      <4>1. drv.at + 1 \in Nat /\ "next" \in Places /\ "none" \in Results
        BY <3>1
      <4>2. drv \in [pc : Places, from : Nat, at : Nat, to : Nat, result : Results, exit : Exits]
        BY <1>1 DEF TypedPlaces
      <4> HIDE DEF Places, Results, Exits
      <4> QED
        BY <2>3, <4>1, <4>2
    <3>3. drv'.from \in 1 .. drv'.at /\ drv'.at \in 1 .. drv'.to /\ drv'.to \in 1 .. Last
      BY <2>3, <3>1, <3>2
    <3> QED
      BY <1>1, <2>1, <3>2, <3>3 DEF TypedPlaces
  <2> QED
    BY <1>4, <2>2, <2>3 DEF CheckBoundary
<1>5. CASE DriveEnds
  BY <1>1, <1>5 DEF DriveEnds, FinalSync, TypedPlaces
<1>6. CASE EngineWrites \/ StageEnds \/ \E f \in File, b \in {"read", "failed"} : Publish(f, b)
  BY <1>1, <1>6 DEF EngineWrites, StageEnds, Publish, TypedPlaces, pod, history
<1>7. CASE PodStep
  BY <1>1, <1>7
     DEF PodStep, HydrateRefused, Hydrated, RunEnds, HydrateOne, To, TypedPlaces, pod, history
<1>8. CASE Fault
  <2>1. NoDriver \in [pc : Places, from : Nat, at : Nat, to : Nat, result : Results, exit : Exits]
        /\ NoDriver.from \in 1 .. NoDriver.at /\ NoDriver.at \in 1 .. NoDriver.to
        /\ NoDriver.to \in 1 .. Last
    BY VolumeSyncAssumption DEF NoDriver
  <2> QED
    BY <1>1, <1>8, <2>1 DEF Fault, PodGone, Killed, VolumeError, Loss, TypedPlaces, pod
<1>9. ASSUME NEW c \in Selections, Launch(c[1], c[2]) PROVE TypedPlaces'
  <2>1. /\ c[1] \in 1 .. c[2] /\ c[2] \in 1 .. Last
        /\ c[1] \in Nat /\ c[2] \in Nat
    BY VolumeSyncAssumption
  <2>2. drv' = [NoDriver EXCEPT !.from = c[1], !.at = c[1], !.to = c[2]]
    BY <1>9 DEF Launch
  <2>3. /\ drv' \in [pc : Places, from : Nat, at : Nat, to : Nat, result : Results, exit : Exits]
        /\ drv'.from = c[1] /\ drv'.at = c[1] /\ drv'.to = c[2]
    BY <2>1, <2>2 DEF NoDriver
  <2> QED
    <3>1. /\ phase' = "hydrate" /\ whole' = FALSE /\ halted' = halted
          /\ runs' = runs + 1 \/ runs' = runs
      BY <1>9 DEF Launch, history
    <3>2. runs' \in Nat /\ halted' \in BOOLEAN /\ whole' \in BOOLEAN /\ phase' \in Phases
      <4>1. runs' \in Nat
        BY <1>1, <3>1 DEF TypedPlaces
      <4>2. halted' \in BOOLEAN /\ whole' \in BOOLEAN /\ phase' \in Phases
        BY <1>1, <3>1, Zenon DEF TypedPlaces
      <4> QED
        BY <4>1, <4>2
    <3> QED
      BY <2>1, <2>3, <3>2 DEF TypedPlaces
<1>10. CASE UNCHANGED vars
  BY <1>1, <1>10 DEF vars, pod, history, TypedPlaces
<1> QED
  BY <1>2, <1>3, <1>4, <1>5, <1>6, <1>7, <1>8, <1>9, <1>10 DEF Next, DriverStep

LEMMA FinalStays ==
  ASSUME Inv, [Next]_vars
  PROVE  FinalTrue' /\ EndedHoldsAll'
<1>1. TypedFiles /\ LinesTrue /\ CopyTrue /\ FinalTrue /\ EndedHoldsAll
  BY DEF Inv, Copies, Typed
<1>2. NoSync.st = "none"
  BY DEF NoSync
<1>3. phase \in Phases
  BY DEF Inv, Copies, Typed, TypedPlaces
<1>4. CASE BeginCopy
  <2>1. /\ phase' = phase /\ phase \notin {"off", "hydrate", "ended"}
        /\ UNCHANGED <<disk, vol, ledger>> /\ sync.st = "planned"
        /\ OnDisk' = OnDisk /\ OnVolume' = OnVolume
    BY <1>1, <1>2, <1>4 DEF BeginCopy, pod, FinalTrue, OnDisk, OnVolume
  <2>2. phase = "final" => FinalTrue'
    <3> SUFFICES ASSUME phase = "final" PROVE FinalTrue'
      OBVIOUS
    <3>1. known' = ReadLedger /\ sync.linked = {}
      BY <1>1, <1>4, <2>1 DEF BeginCopy, FinalTrue, CopyTrue
    <3>2. \A f \in File : known'[f] # Absent => f \in OnVolume
      BY <3>1 DEF ReadLedger
    <3>3. /\ sync'.plan = sync.plan /\ sync'.linked = {} /\ sync'.st \notin {"none", "planned"}
          /\ \A f \in DOMAIN sync.plan \ sync'.todo : known'[f] = sync.plan[f]
      BY <1>1, <1>4, <3>1 DEF BeginCopy, TypedFiles
    <3>4. \A f \in DOMAIN sync.plan : f \in File /\ sync.plan[f] # Absent
      BY <1>1, SyncTyped, AbsentAssumption
    <3>5. \A f \in DOMAIN sync.plan \ sync'.todo : f \in OnVolume
      BY <3>2, <3>3, <3>4
    <3> QED
      BY <1>1, <2>1, <3>2, <3>3, <3>5 DEF FinalTrue
  <2> QED
    BY <1>3, <2>1, <2>2 DEF FinalTrue, EndedHoldsAll, Phases
<1>5. CASE CopyEnds \/ VolumeError
  <2>1. PICK st \in {"copied", "broken"} :
          /\ sync' = [sync EXCEPT !.st = st]
          /\ sync.st = "copying" /\ UNCHANGED <<disk, vol, ledger, known, phase>>
    BY <1>5 DEF CopyEnds, VolumeError, pod
  <2>2. /\ sync'.plan = sync.plan /\ sync'.todo = sync.todo /\ sync'.linked = sync.linked
        /\ sync'.st = st /\ OnDisk' = OnDisk /\ OnVolume' = OnVolume
    BY <1>1, <2>1 DEF TypedFiles, OnDisk, OnVolume
  <2>3. phase \notin {"off", "hydrate", "ended"}
    BY <1>1, <1>2, <2>1 DEF FinalTrue
  <2> QED
    BY <1>1, <2>1, <2>2, <2>3 DEF FinalTrue, EndedHoldsAll
<1>6. ASSUME NEW g \in File, LinkOne(g) PROVE FinalTrue' /\ EndedHoldsAll'
  <2>1. /\ UNCHANGED <<disk, ledger, known, phase>> /\ OnDisk' = OnDisk
        /\ sync.st = "copying" /\ g \in sync.todo
    BY <1>6 DEF LinkOne, OnDisk, FirstOf, pod
  <2>2. phase \notin {"off", "hydrate", "ended"}
    BY <1>1, <1>2, <2>1 DEF FinalTrue
  <2>3. CASE /\ g \in OnDisk /\ vol' = [vol EXCEPT ![g] = Bytes(g)]
             /\ sync' = [sync EXCEPT !.linked = @ \cup {g}]
    <3>1. OnVolume' = OnVolume \cup {g}
      BY <1>1, <2>3, There DEF OnVolume, TypedFiles
    <3>2. /\ sync'.plan = sync.plan /\ sync'.linked = sync.linked \cup {g}
          /\ sync'.todo = sync.todo /\ sync'.st = sync.st
      BY <1>1, <2>3 DEF TypedFiles
    <3> QED
      BY <1>1, <2>1, <2>2, <3>1, <3>2 DEF FinalTrue, EndedHoldsAll
  <2>4. CASE CopyFails /\ UNCHANGED vol
    <3>1. /\ sync'.plan = sync.plan /\ sync'.st = "refused" /\ OnVolume' = OnVolume
      BY <1>1, <2>4 DEF TypedFiles, CopyFails, OnVolume
    <3> QED
      BY <1>1, <2>1, <2>2, <3>1 DEF FinalTrue, EndedHoldsAll
  <2> QED
    BY <1>6, <2>3, <2>4 DEF LinkOne
<1>7. ASSUME NEW g \in File, RecordOne(g) PROVE FinalTrue' /\ EndedHoldsAll'
  <2>1. /\ UNCHANGED <<disk, vol, phase>> /\ OnDisk' = OnDisk /\ OnVolume' = OnVolume
        /\ sync.st = "copying" /\ g \in sync.linked
    BY <1>7 DEF RecordOne, OnDisk, OnVolume, pod
  <2>2. phase \notin {"off", "hydrate", "ended"}
    BY <1>1, <1>2, <2>1 DEF FinalTrue
  <2>3. CASE /\ known' = [known EXCEPT ![g] = sync.plan[g]]
             /\ sync' = [sync EXCEPT !.linked = @ \ {g}, !.todo = @ \ {g}]
    <3>1. /\ sync'.plan = sync.plan /\ sync'.linked = sync.linked \ {g}
          /\ sync'.todo = sync.todo \ {g} /\ sync'.st = sync.st
      BY <1>1, <2>3 DEF TypedFiles
    <3>2. \A f : f # g => known'[f] = known[f]
      BY <1>1, <2>1, <2>3 DEF CopyTrue
    <3> QED
      BY <1>1, <2>1, <2>2, <3>1, <3>2 DEF FinalTrue, EndedHoldsAll
  <2>4. CASE CopyFails /\ UNCHANGED known
    <3>1. /\ sync'.plan = sync.plan /\ sync'.st = "refused"
      BY <1>1, <2>4 DEF TypedFiles, CopyFails
    <3> QED
      BY <1>1, <2>1, <2>2, <3>1 DEF FinalTrue, EndedHoldsAll
  <2> QED
    BY <1>7, <2>3, <2>4 DEF RecordOne
<1>8. CASE HeldRecensor \/ Invoke \/ StageFails \/ JoinPrevious \/ StartSync \/ CheckBoundary
           \/ EngineWrites \/ StageEnds \/ \E f \in File, b \in {"read", "failed"} : Publish(f, b)
  <2>1. phase = "drive" /\ phase' = "drive"
    BY <1>8 DEF HeldRecensor, Invoke, StageFails, JoinPrevious, StartSync, CheckBoundary,
                EngineWrites, StageEnds, Publish, At, pod
  <2> QED
    BY <2>1 DEF FinalTrue, EndedHoldsAll
<1>9. CASE DriveEnds
  <2>1. phase' = "final" /\ sync' = Plan(OnDisk) /\ known' = Unread /\ disk' = disk
    BY <1>9 DEF DriveEnds, FinalSync
  <2>2. sync'.st = "planned" /\ sync'.plan = [f \in OnDisk |-> disk[f].time] /\ OnDisk' = OnDisk
    BY <1>1, <2>1, Planning DEF OnDisk
  <2> QED
    BY <2>1, <2>2 DEF FinalTrue, EndedHoldsAll
<1>10. CASE HydrateRefused \/ Hydrated \/ \E f \in File : HydrateOne(f)
  BY <1>1, <1>10 DEF HydrateRefused, Hydrated, HydrateOne, FinalTrue, EndedHoldsAll, pod
<1>11. CASE RunEnds
  <2>1. /\ phase = "final" /\ phase' = "ended" /\ whole' = (sync.st = "copied") /\ sync' = NoSync
        /\ UNCHANGED <<disk, vol>> /\ OnDisk' = OnDisk /\ \A f : Bytes(f)' = Bytes(f)
    BY <1>11 DEF RunEnds, OnDisk, Bytes
  <2>2. ASSUME sync.st = "copied", NEW f \in OnDisk PROVE vol[f] = Bytes(f)
    <3>1. /\ f \in DOMAIN sync.plan /\ Unchanged(f) /\ f \notin sync.todo /\ f \in OnVolume
      BY <1>1, <2>1, <2>2 DEF FinalTrue, CopyTrue, Unchanged
    <3>2. Held(f) /\ f \notin lost
      BY <1>1, <2>2, <3>1 DEF CopyTrue, LinesTrue, OnVolume
    <3> QED
      BY <3>2 DEF Held
  <2> QED
    BY <2>1, <2>2 DEF FinalTrue, EndedHoldsAll
<1>12. CASE PodGone \/ Killed \/ \E f \in File : Loss(f)
  BY <1>1, <1>12 DEF PodGone, Killed, Loss, FinalTrue, EndedHoldsAll, pod
<1>13. CASE \E c \in Selections : Launch(c[1], c[2])
  BY <1>1, <1>13 DEF Launch, FinalTrue, EndedHoldsAll
<1>14. CASE UNCHANGED vars
  BY <1>1, <1>14
     DEF vars, pod, history, FinalTrue, EndedHoldsAll, OnDisk, OnVolume, Bytes
<1> QED
  BY <1>4, <1>5, <1>6, <1>7, <1>8, <1>9, <1>10, <1>11, <1>12, <1>13, <1>14
     DEF Next, CopyStep, DriverStep, PodStep, Fault

------------------------------------------------------------------------------
(* The copy of a stage's files while the next stage runs.                     *)

LEMMA SyncGoesOn ==
  ASSUME Inv, BeginCopy \/ CopyEnds \/ VolumeError \/ \E f \in File : LinkOne(f) \/ RecordOne(f)
  PROVE  /\ sync.st \in {"planned", "copying"} /\ sync'.plan = sync.plan /\ sync'.st # "none"
         /\ UNCHANGED <<disk, drv, phase, runs, halted>>
<1>1. sync \in [st : Syncs, plan : Plans, todo : SUBSET File, linked : SUBSET File]
  BY DEF Inv, Copies, Typed, TypedFiles
<1>2. CASE BeginCopy
  BY <1>1, <1>2 DEF BeginCopy, pod, history
<1>3. CASE CopyEnds \/ VolumeError
  BY <1>1, <1>3 DEF CopyEnds, VolumeError, pod, history
<1>4. CASE \E f \in File : LinkOne(f)
  BY <1>1, <1>4 DEF LinkOne, CopyFails, pod
<1>5. CASE \E f \in File : RecordOne(f)
  BY <1>1, <1>5 DEF RecordOne, CopyFails, pod, history
<1> QED
  BY <1>2, <1>3, <1>4, <1>5

\* Only the stage that runs writes, and only its own files and its engine's log.
LEMMA OthersStay ==
  ASSUME Inv, [Next]_vars, ~PodGone, phase \in {"drive", "final"}
  PROVE  /\ \A s : (phase = "final" \/ s # drv.at \/ drv.pc # "stage") =>
              \A f \in Files(s) : disk'[f] = disk[f]
         /\ \A f \in File : Held(f) /\ disk'[f] = disk[f] => Held(f)'
<1>1. ASSUME NEW g \in File, NEW c \in ContentOf(g), Writes(g, c)
      PROVE  /\ phase = "drive" /\ drv.pc = "stage"
             /\ \A s : s # drv.at => \A f \in Files(s) : disk'[f] = disk[f]
             /\ UNCHANGED <<vol, lost>>
  <2>1. /\ phase = "drive" /\ drv.pc = "stage" /\ UNCHANGED <<vol, lost>>
        /\ g \in Artifact(drv.at) \/ g = Manifest(drv.at) \/ g = Log(runs)
    BY <1>1 DEF Writes, history
  <2>2. \A s : s # drv.at => g \notin Files(s)
    BY <2>1, Kinds DEF Files
  <2>3. \A f : f # g => disk'[f] = disk[f]
    BY <1>1 DEF Writes, Write
  <2> QED
    BY <2>1, <2>2, <2>3
<1>2. CASE \E f \in File : \E b \in ContentOf(f) : Writes(f, b)
  BY <1>1, <1>2 DEF Held, Bytes
<1>3. CASE Controls \/ BeginCopy \/ CopyEnds \/ VolumeError
  BY <1>3 DEF Controls, BeginCopy, CopyEnds, VolumeError, Held, Bytes, history
<1>4. ASSUME NEW g \in File, LinkOne(g) \/ RecordOne(g) \/ Loss(g)
      PROVE  /\ disk' = disk /\ \A f \in File : Held(f) => Held(f)'
  <2>1. DOMAIN vol = File
    BY DEF Inv, Copies, Typed, TypedFiles
  <2>2. CASE LinkOne(g)
    BY <2>1, <2>2 DEF LinkOne, Held, Bytes
  <2>3. CASE RecordOne(g) \/ Loss(g)
    BY <2>1, <2>3 DEF RecordOne, Loss, Held, Bytes, history
  <2> QED
    BY <1>4, <2>2, <2>3
<1> QED
  BY <1>2, <1>3, <1>4, Steps

LEMMA FilesAre == \A s \in Stage : Files(s) \subseteq File /\ Files(s) \cap Logs = {}
BY Kinds DEF Files

LEMMA PlannedStays ==
  ASSUME Inv, NEW s \in Stage, Planned(s), sync'.plan = sync.plan, sync'.st # "none",
         \A f \in Files(s) : disk'[f] = disk[f]
  PROVE  Planned(s)'
BY FilesAre DEF Planned, OnDisk, Files

LEMMA CopiedStays ==
  ASSUME Inv, [Next]_vars, ~PodGone, phase \in {"drive", "final"}, NEW s \in Stage, Copied(s),
         \A f \in Files(s) : disk'[f] = disk[f]
  PROVE  Copied(s)'
<1>1. \A f \in Files(s) : f \in File /\ (f \in OnDisk' <=> f \in OnDisk)
  BY FilesAre DEF OnDisk
<1>2. \A f \in Files(s) : f \in OnDisk => Held(f)
  BY DEF Copied, Held, Files
<1>3. \A f \in Files(s) : f \in OnDisk' => Held(f)'
  BY <1>1, <1>2, OthersStay
<1> QED
  BY <1>3 DEF Copied, Held, Files

\* A copy that was made of a stage's files as they are holds them.
LEMMA JoinedCopied ==
  ASSUME Inv, NEW s, Planned(s), sync.st = "copied"
  PROVE  Copied(s)
<1>1. \A f \in Files(s) \cap OnDisk : f \in DOMAIN sync.plan /\ Unchanged(f) /\ f \notin sync.todo
  BY DEF Planned, Unchanged, Inv, Copies, CopyTrue
<1>2. \A f \in Files(s) \cap OnDisk : Held(f)
  BY <1>1 DEF Inv, Copies, CopyTrue
<1> QED
  BY <1>2 DEF Copied, Held, Files

\* What a step of a driven invocation leaves as it was of the stages before.
LEMMA DriveKeeps ==
  ASSUME Inv, [Next]_vars, ~PodGone, phase \in {"drive", "final"}
  PROVE  /\ \A s \in drv.from .. drv.at - 1 : s \in Stage /\ (Copied(s) => Copied(s)')
         /\ \A s \in drv.from .. drv.at - 1 :
              sync'.plan = sync.plan /\ sync'.st # "none" /\ Planned(s) => Planned(s)'
<1>1. \A s \in drv.from .. drv.at - 1 : s \in Stage /\ s # drv.at
  BY VolumeSyncAssumption DEF Inv, Copies, Typed, TypedPlaces, Stage
<1>2. \A s \in drv.from .. drv.at - 1 : \A f \in Files(s) : disk'[f] = disk[f]
  BY <1>1, OthersStay
<1> QED
  BY <1>1, <1>2, CopiedStays, PlannedStays

LEMMA DrivenStays ==
  ASSUME Inv, [Next]_vars
  PROVE  Driven' /\ BehindByOne'
<1> PICK at, from : at = drv.at /\ from = drv.from
  OBVIOUS
<1>1. /\ Driven /\ BehindByOne /\ TypedPlaces
      /\ from \in Nat /\ at \in Nat /\ from >= 1 /\ at >= from /\ at \in Stage
      /\ sync \in [st : Syncs, plan : Plans, todo : SUBSET File, linked : SUBSET File]
      /\ drv \in [pc : Places, from : Nat, at : Nat, to : Nat, result : Results, exit : Exits]
  BY AtStage DEF Inv, Copies, Typed, TypedFiles, TypedPlaces
<1>2. at > from => at - 1 \in from .. at - 1 /\ at - 1 \in Stage
  BY <1>1, VolumeSyncAssumption DEF Stage
<1>3. \A s \in from .. at - 2 : s \in from .. at - 1
  BY <1>1
\* The copies of the stages before stay, as long as the place and the plan do.
<1>4. ASSUME phase = "drive", phase' = "drive", ~PodGone, drv'.from = from, drv'.at = at
      PROVE  BehindByOne'
  BY <1>1, <1>3, <1>4, DriveKeeps DEF BehindByOne
<1>5. ASSUME phase = "drive", phase' = "drive", ~PodGone, drv' = drv,
             \/ sync' = sync
             \/ sync'.plan = sync.plan /\ sync'.st # "none" /\ sync.st # "none",
             \A f \in Files(at) : disk'[f] = disk[f] \/ drv.pc # "check"
      PROVE  Driven'
  <2>1. at > from => /\ Copied(at - 1) => Copied(at - 1)'
                     /\ Planned(at - 1) => Planned(at - 1)'
    BY <1>2, <1>5, DriveKeeps DEF Planned
  <2>2. drv.pc = "check" => Planned(at)'
    BY <1>1, <1>5, PlannedStays DEF Driven, Planned
  <2> QED
    BY <1>1, <1>5, <2>1, <2>2 DEF Driven
<1>6. CASE BeginCopy \/ CopyEnds \/ VolumeError \/ \E f \in File : LinkOne(f) \/ RecordOne(f)
  <2>1. /\ sync.st # "none" /\ sync'.plan = sync.plan /\ sync'.st # "none"
        /\ UNCHANGED <<disk, drv, phase>>
    BY <1>6, SyncGoesOn
  <2>2. CASE phase = "drive" /\ ~PodGone
    BY <2>1, <2>2, <1>1, <1>4, <1>5
  <2>3. CASE phase = "final" /\ ~PodGone
    BY <2>1, <2>3, <1>1, DriveKeeps DEF Driven, BehindByOne
  <2>4. CASE phase \notin {"drive", "final"} \/ PodGone
    BY <2>1, <2>4, <1>1 DEF Driven, BehindByOne, PodGone
  <2> QED
    BY <2>2, <2>3, <2>4
<1>7. CASE PodGone \/ Killed \/ HydrateRefused
  BY <1>7 DEF PodGone, Killed, HydrateRefused, Driven, BehindByOne
<1>8. ASSUME NEW f \in File, Loss(f) PROVE Driven' /\ BehindByOne'
  <2>1. /\ UNCHANGED <<disk, drv, sync, phase>> /\ phase \in {"off", "drive"}
    BY <1>8 DEF Loss, pod
  <2>2. CASE phase = "drive" /\ ~PodGone
    BY <2>1, <2>2, <1>1, <1>4, <1>5
  <2>3. CASE phase = "off" \/ PodGone
    BY <2>1, <2>3 DEF Driven, BehindByOne, PodGone
  <2> QED
    BY <2>1, <2>2, <2>3
<1>9. CASE EngineWrites \/ \E f \in File, b \in {"read", "failed"} : Publish(f, b)
  <2>1. /\ phase = "drive" /\ phase' = "drive" /\ drv.pc = "stage" /\ drv' = drv /\ sync' = sync
    BY <1>9 DEF EngineWrites, Publish, At, pod
  <2> QED
    BY <2>1, <1>1, <1>4, <1>5 DEF PodGone
<1>10. CASE StageEnds
  <2>1. /\ phase = "drive" /\ phase' = "drive" /\ drv.pc = "stage" /\ sync' = sync
        /\ drv'.pc = "boundary" /\ drv'.from = from /\ drv'.at = at
    BY <1>1, <1>10 DEF StageEnds, At, pod
  <2>2. at > from => Planned(at - 1) /\ Planned(at - 1)'
    BY <2>1, <1>1, <1>2, DriveKeeps DEF Driven, Planned, PodGone
  <2>3. BehindByOne'
    BY <2>1, <1>4 DEF PodGone
  <2>4. Driven'
    BY <2>1, <2>2 DEF Driven, Planned
  <2> QED
    BY <2>3, <2>4
<1>11. CASE HeldRecensor \/ Invoke \/ StageFails
  <2>1. /\ phase = "drive" /\ phase' = "drive" /\ drv.pc \in {"next", "stage"} /\ sync' = sync
        /\ disk' = disk /\ drv'.from = from /\ drv'.at = at
        /\ drv'.pc \in {"return", "raise", "boundary", "stage"}
    BY <1>1, <1>11 DEF HeldRecensor, Invoke, StageFails, To, Return, At, pod
  <2>2. at > from => Planned(at - 1) /\ Planned(at - 1)'
    BY <2>1, <1>1, <1>2, DriveKeeps DEF Driven, Planned, PodGone
  <2>3. BehindByOne'
    BY <2>1, <1>4 DEF PodGone
  <2>4. Driven'
    BY <2>1, <2>2 DEF Driven, Planned
  <2> QED
    BY <2>3, <2>4
<1>12. CASE JoinPrevious
  <2>1. /\ phase = "drive" /\ phase' = "drive" /\ drv.pc = "boundary" /\ sync' = NoSync
        /\ sync.st # "none" /\ disk' = disk /\ drv'.from = from /\ drv'.at = at
        /\ \/ drv' = drv /\ sync.st = "copied"
           \/ drv'.pc = "raise"
    BY <1>1, <1>12 DEF JoinPrevious, To, At, pod, Over, Failed
  <2>2. BehindByOne'
    BY <2>1, <1>4 DEF PodGone
  <2>3. at > from /\ sync.st = "copied" => Copied(at - 1)'
    <3>1. at > from /\ sync.st = "copied" => Copied(at - 1)
      BY <2>1, <1>1, JoinedCopied DEF Driven
    <3> QED
      BY <3>1, <2>1, <1>2, DriveKeeps DEF PodGone
  <2>4. Driven'
    BY <2>1, <2>3 DEF Driven, NoSync
  <2> QED
    BY <2>2, <2>4
<1>13. CASE StartSync
  <2>1. /\ phase = "drive" /\ phase' = "drive" /\ drv.pc = "boundary" /\ sync.st = "none"
        /\ sync' = Plan(StageFiles) /\ disk' = disk /\ drv'.from = from /\ drv'.at = at
        /\ drv'.pc = "check"
    BY <1>1, <1>13 DEF StartSync, To, At, pod
  <2>2. BehindByOne'
    BY <2>1, <1>4 DEF PodGone
  <2>3. at > from => Copied(at - 1)'
    BY <2>1, <1>1, <1>2, DriveKeeps DEF Driven, PodGone
  <2>4. sync'.st = "planned" /\ sync'.plan = [f \in StageFiles |-> disk[f].time]
    BY <2>1, Planning DEF StageFiles, Inv, Copies, Typed
  <2>5. \A f \in Files(at) \cap OnDisk : f \in StageFiles
    BY <1>1, FilesAre DEF StageFiles
  <2>6. Planned(at)'
    <3>1. OnDisk' = OnDisk /\ Files(at)' = Files(at)
      BY <2>1 DEF OnDisk, Files
    <3> QED
      BY <2>1, <2>4, <2>5, <3>1 DEF Planned
  <2>7. Driven'
    BY <2>1, <2>3, <2>6 DEF Driven
  <2> QED
    BY <2>2, <2>7
<1>14. CASE CheckBoundary
  <2>1. /\ phase = "drive" /\ phase' = "drive" /\ drv.pc = "check" /\ sync' = sync
        /\ disk' = disk /\ drv'.from = from
        /\ \/ drv'.pc = "return" /\ drv'.at = at
           \/ drv'.pc = "next" /\ drv'.at = at + 1
    BY <1>1, <1>14 DEF CheckBoundary, Return, At, pod
  <2>2. at > from => Copied(at - 1)'
    BY <2>1, <1>1, <1>2, DriveKeeps DEF Driven, PodGone
  <2>3. CASE drv'.pc = "return" /\ drv'.at = at
    <3>1. BehindByOne'
      BY <2>1, <2>3, <1>4 DEF PodGone
    <3>2. Driven'
      BY <2>1, <2>2, <2>3 DEF Driven
    <3> QED
      BY <3>1, <3>2
  <2>4. CASE drv'.pc = "next" /\ drv'.at = at + 1
    <3>1. Planned(at)'
      BY <2>1, <1>1, PlannedStays DEF Driven, Planned
    <3>2. \A s \in from .. at - 1 : Copied(s)'
      <4> TAKE s \in from .. at - 1
      <4>1. CASE s = at - 1
        BY <4>1, <2>2, <1>1
      <4>2. CASE s # at - 1
        <5>1. s \in from .. at - 2
          BY <4>2, <1>1
        <5> QED
          BY <5>1, <2>1, <1>1, DriveKeeps DEF BehindByOne, PodGone
      <4> QED
        BY <4>1, <4>2
    <3>3. Driven'
      BY <2>1, <2>4, <3>1, <1>1 DEF Driven
    <3>4. BehindByOne'
      BY <2>1, <2>4, <3>2, <1>1 DEF BehindByOne
    <3> QED
      BY <3>3, <3>4
  <2> QED
    BY <2>1, <2>3, <2>4
<1>15. CASE DriveEnds
  <2>1. /\ phase = "drive" /\ phase' = "final" /\ drv.pc \in {"return", "raise"}
        /\ disk' = disk /\ drv'.from = from /\ drv'.at = at
        /\ sync.st = "none" \/ Over
        /\ drv'.exit = IF drv.pc = "raise" \/ Failed THEN "fatal" ELSE drv.exit
    BY <1>1, <1>15 DEF DriveEnds, FinalSync, At
  <2>2. drv'.exit # "fatal" /\ at > from => Copied(at - 1)
    BY <2>1, <1>1, JoinedCopied DEF Driven, Planned, Over
  <2>3. ASSUME drv'.exit # "fatal", NEW s \in from .. at - 1 PROVE Copied(s)'
    <3>1. Copied(s)
      <4>1. CASE s = at - 1
        BY <4>1, <2>2, <2>3, <1>1
      <4>2. CASE s # at - 1
        <5>1. s \in from .. at - 2
          BY <4>2, <1>1
        <5> QED
          BY <5>1, <2>1, <1>1 DEF BehindByOne
      <4> QED
        BY <4>1, <4>2
    <3> QED
      BY <3>1, <2>1, <1>1, DriveKeeps DEF PodGone
  <2> QED
    BY <2>1, <2>3 DEF Driven, BehindByOne
<1>16. CASE Hydrated
  <2>1. /\ phase = "hydrate" /\ phase' = "drive" /\ drv'.from = from /\ drv'.at = at
        /\ drv'.pc = "next"
    BY <1>1, <1>16 DEF Hydrated, To
  <2>2. at = from
    BY <2>1, <1>1 DEF Driven
  <2> QED
    BY <2>1, <2>2, <1>1 DEF Driven, BehindByOne
<1>17. CASE RunEnds \/ \E f \in File : HydrateOne(f)
  BY <1>1, <1>17 DEF RunEnds, HydrateOne, Driven, BehindByOne, pod
<1>18. ASSUME NEW c \in Selections, Launch(c[1], c[2]) PROVE Driven' /\ BehindByOne'
  <2>1. phase' = "hydrate" /\ drv'.from = c[1] /\ drv'.at = c[1]
    BY <1>18 DEF Launch, NoDriver
  <2> QED
    BY <2>1 DEF Driven, BehindByOne
<1>19. CASE UNCHANGED vars
  BY <1>1, <1>19
     DEF vars, pod, history, Driven, BehindByOne, Planned, Copied, OnDisk, Bytes
<1> QED
  BY <1>6, <1>7, <1>8, <1>9, <1>10, <1>11, <1>12, <1>13, <1>14, <1>15, <1>16, <1>17, <1>18, <1>19
     DEF Next, CopyStep, DriverStep, PodStep, Fault

------------------------------------------------------------------------------
(* What is written once is never at odds with the volume or a plan.           *)

LEMMA WrittenBy ==
  ASSUME Inv, NEW g \in File, NEW c \in ContentOf(g), Writes(g, c)
  PROVE  WrittenOnce' /\ OnlyManifestsRefused'
<1>1. /\ WrittenOnce /\ OnlyManifestsRefused /\ CopyTrue /\ TypedFiles /\ FinalTrue
  BY DEF Inv, Copies, Typed
<1>2. /\ \A f \in File : f # g => disk'[f] = disk[f]
      /\ OnDisk' = OnDisk \cup {g} /\ OnVolume' = OnVolume
      /\ Bytes(g)' = c
      /\ g \in OnDisk => disk'[g].time = disk[g].time + 1 /\ disk[g].time \in Nat
      /\ UNCHANGED <<vol, sync, phase, runs>>
  BY <1>1, Wrote, There DEF Writes, pod, OnVolume
<1>3. /\ \A f \in File : f # g => Bytes(f)' = Bytes(f)
      /\ \A f \in File : f # g => Unchanged(f)' = Unchanged(f)
  BY <1>2 DEF Bytes, Unchanged
<1>4. DOMAIN sync.plan \subseteq File /\ \A f \in DOMAIN sync.plan : sync.plan[f] \in Nat
  BY <1>1, SyncTyped
<1>5. g \in DOMAIN sync.plan => ~Unchanged(g)'
  BY <1>1, <1>2, <1>4 DEF CopyTrue, Unchanged
<1>6. CASE phase = "hydrate" /\ g \in OnVolume \ OnDisk /\ c = vol[g]
  <2>1. sync = NoSync /\ DOMAIN sync.plan = {}
    BY <1>1, <1>6, PlansAre DEF FinalTrue, NoSync
  <2>2. \A f \in OnDisk' \cap OnVolume' : f \notin Manifests => vol'[f] = Bytes(f)'
    BY <1>1, <1>2, <1>3, <1>6 DEF WrittenOnce, OnDisk
  <2>3. \A r : Log(r) \notin OnDisk \cup OnVolume => Log(r) \notin OnDisk' \cup OnVolume'
    BY <1>2, <1>6
  <2>4. Differs \subseteq Differs'
    BY <1>2, <1>3, <1>6 DEF Differs, OnDisk
  <2> QED
    BY <1>1, <1>2, <1>6, <2>1, <2>2, <2>3, <2>4 DEF WrittenOnce, OnlyManifestsRefused, NoSync
<1>7. CASE /\ phase = "drive"
           /\ g \in Artifact(drv.at) \ OnDisk \/ g = Manifest(drv.at) \/ g = Log(runs)
  <2>1. \/ g \in Artifact(drv.at) /\ g \notin OnDisk /\ g \notin OnVolume
        \/ g \in Manifests
        \/ g = Log(runs) /\ g \in Logs /\ g \notin OnVolume
    <3>1. CASE g \in Artifact(drv.at) \ OnDisk
      BY <1>1, <1>7, <3>1 DEF WrittenOnce
    <3>2. CASE g = Manifest(drv.at)
      BY <3>2, Kinds
    <3>3. CASE g = Log(runs)
      BY <1>1, <1>7, <3>3, Kinds DEF WrittenOnce
    <3> QED
      BY <1>7, <3>1, <3>2, <3>3
  <2>2. \A f \in OnDisk' \cap OnVolume' : f \notin Manifests => vol'[f] = Bytes(f)'
    BY <1>1, <1>2, <1>3, <2>1 DEF WrittenOnce, OnDisk
  <2>3. \A f \in DOMAIN sync.plan : f \notin Manifests => Unchanged(f)'
    <3>1. g \in DOMAIN sync.plan => g \in Manifests
      BY <1>1, <1>7, <2>1 DEF WrittenOnce, CopyTrue
    <3> QED
      BY <1>1, <1>3, <1>4, <3>1 DEF WrittenOnce
  <2>4. \A r \in 1 .. MaxRuns : r > runs => Log(r) \notin OnDisk' \cup OnVolume'
    <3> SUFFICES ASSUME NEW r \in 1 .. MaxRuns, r > runs PROVE Log(r) # g
      BY <1>1, <1>2 DEF WrittenOnce
    <3>1. runs \in 1 .. MaxRuns
      BY <1>1, <1>7 DEF WrittenOnce
    <3>2. r # runs
      BY <3>1
    <3> QED
      BY <1>7, <3>2, Kinds
  <2>5. WrittenOnce'
    BY <1>1, <1>2, <1>7, <2>2, <2>3, <2>4 DEF WrittenOnce
  <2>6. OnlyManifestsRefused'
    <3> SUFFICES ASSUME sync.st = "refused"
                 PROVE  \E f \in Manifests \cap DOMAIN sync.plan :
                          ~Unchanged(f)' \/ vol[f] \notin {Absent, Bytes(f)'}
      BY <1>2 DEF OnlyManifestsRefused
    <3>1. PICK f \in Manifests \cap DOMAIN sync.plan :
            ~Unchanged(f) \/ vol[f] \notin {Absent, Bytes(f)}
      BY <1>1 DEF OnlyManifestsRefused
    <3>2. CASE f = g
      BY <3>1, <3>2, <1>5
    <3>3. CASE f # g
      BY <3>1, <3>3, <1>3, <1>4
    <3> QED
      BY <3>1, <3>2, <3>3
  <2> QED
    BY <2>5, <2>6
<1> QED
  BY <1>6, <1>7 DEF Writes

LEMMA ControlsWritten ==
  ASSUME Inv, Controls
  PROVE  /\ \A f \in OnDisk' \cap OnVolume' : f \notin Manifests => vol'[f] = Bytes(f)'
         /\ \A f \in DOMAIN sync'.plan : f \notin Manifests => Unchanged(f)'
         /\ OnDisk' = OnDisk /\ OnVolume' = OnVolume /\ Differs' = Differs
         /\ OnlyManifestsRefused'
<1>1. WrittenOnce /\ OnlyManifestsRefused /\ TypedFiles
  BY DEF Inv, Copies, Typed
<1>2. /\ UNCHANGED <<disk, vol>> /\ OnDisk' = OnDisk /\ OnVolume' = OnVolume
      /\ \A f : Bytes(f)' = Bytes(f)
      /\ Differs' = Differs
  BY DEF Controls, OnDisk, OnVolume, Bytes, Differs
<1>3. CASE sync' = sync
  BY <1>1, <1>2, <1>3 DEF WrittenOnce, OnlyManifestsRefused, Unchanged
<1>4. CASE sync' = NoSync
  BY <1>1, <1>2, <1>4, PlansAre DEF WrittenOnce, OnlyManifestsRefused, NoSync
<1>5. ASSUME NEW F \in SUBSET OnDisk, sync' = Plan(F)
      PROVE  /\ \A f \in DOMAIN sync'.plan : Unchanged(f)'
             /\ sync'.st # "refused"
  <2>1. sync'.st = "planned" /\ sync'.plan = [f \in F |-> disk[f].time]
    BY <1>1, <1>5, Planning
  <2> QED
    BY <1>2, <2>1 DEF Unchanged
<1> QED
  BY <1>1, <1>2, <1>3, <1>4, <1>5 DEF Controls, WrittenOnce, OnlyManifestsRefused

LEMMA WrittenStays ==
  ASSUME Inv, [Next]_vars
  PROVE  WrittenOnce' /\ OnlyManifestsRefused'
<1>1. /\ WrittenOnce /\ OnlyManifestsRefused /\ CopyTrue /\ TypedFiles /\ FinalTrue
      /\ runs \in Nat
  BY DEF Inv, Copies, Typed, TypedPlaces
<1>2. CASE \E f \in File : \E b \in ContentOf(f) : Writes(f, b)
  BY <1>2, WrittenBy
<1>3. CASE HeldRecensor \/ Invoke \/ StageFails \/ JoinPrevious \/ StartSync \/ CheckBoundary
  <2>1. Controls /\ phase = "drive" /\ phase' = "drive" /\ runs' = runs
    BY <1>3, DriverControls
       DEF HeldRecensor, Invoke, StageFails, JoinPrevious, StartSync, CheckBoundary, At, pod
  <2>2. sync' \in {sync, NoSync, Plan(StageFiles)}
    BY <1>3 DEF HeldRecensor, Invoke, StageFails, JoinPrevious, StartSync, CheckBoundary
  <2>3. Plan(StageFiles).plan = [f \in StageFiles |-> disk[f].time]
    BY <1>1, Planning DEF StageFiles
  <2>4. DOMAIN sync'.plan \cap Logs = {}
    BY <1>1, <2>1, <2>2, <2>3, PlansAre DEF WrittenOnce, NoSync, StageFiles
  <2> QED
    BY <1>1, <2>1, <2>4, ControlsWritten DEF WrittenOnce
<1>4. CASE DriveEnds \/ RunEnds \/ Killed \/ HydrateRefused
  <2>1. Controls /\ phase' \in {"final", "ended", "off"} /\ runs' = runs
    BY <1>4, DriverControls, PodControls DEF DriveEnds, RunEnds, Killed, HydrateRefused, FinalSync
  <2> QED
    BY <1>1, <2>1, ControlsWritten DEF WrittenOnce
<1>5. CASE Hydrated
  <2>1. /\ Controls /\ phase = "hydrate" /\ phase' = "drive" /\ runs' = runs /\ sync' = NoSync
        /\ OnVolume \subseteq OnDisk /\ Differs = {}
    BY <1>1, <1>5, PodControls DEF Hydrated, FinalTrue
  <2>2. DOMAIN sync'.plan = {}
    BY <2>1, PlansAre DEF NoSync
  <2> QED
    BY <1>1, <2>1, <2>2, ControlsWritten DEF WrittenOnce
<1>6. ASSUME NEW k \in Selections, Launch(k[1], k[2])
      PROVE  WrittenOnce' /\ OnlyManifestsRefused'
  <2>1. /\ Controls /\ phase' = "hydrate"
        /\ \/ runs < MaxRuns /\ runs' = runs + 1
           \/ Differs # {} /\ runs' = runs
    BY <1>6, PodControls DEF Launch
  <2>2. runs < MaxRuns => runs + 1 \in 1 .. MaxRuns
    BY <1>1, VolumeSyncAssumption
  <2>3. \A r \in 1 .. MaxRuns : r > runs' => r > runs
    BY <1>1, <2>1
  <2>4. WrittenOnce'
    <3>1. CASE runs < MaxRuns /\ runs' = runs + 1
      <4>1. Log(runs + 1) \notin OnDisk \cup OnVolume
        BY <1>1, <2>2, <3>1 DEF WrittenOnce
      <4> QED
        BY <1>1, <2>1, <2>2, <2>3, <3>1, <4>1, ControlsWritten DEF WrittenOnce
    <3>2. CASE Differs # {} /\ runs' = runs
      BY <1>1, <2>1, <3>2, ControlsWritten DEF WrittenOnce
    <3> QED
      BY <2>1, <3>1, <3>2
  <2> QED
    BY <2>1, <2>4, ControlsWritten
<1>7. CASE UNCHANGED vars
  <2>1. Controls /\ UNCHANGED <<phase, runs, sync>>
    BY <1>7, PodControls DEF vars, pod
  <2> QED
    BY <1>1, <2>1, ControlsWritten DEF WrittenOnce
<1>8. CASE BeginCopy \/ CopyEnds \/ VolumeError \/ \E f \in File : LinkOne(f) \/ RecordOne(f)
  <2>1. /\ sync.st \in {"planned", "copying"} /\ sync'.plan = sync.plan
        /\ UNCHANGED <<disk, phase, runs>>
    BY <1>8, SyncGoesOn
  <2>2. /\ OnDisk' = OnDisk /\ \A f : Bytes(f)' = Bytes(f) /\ Unchanged(f)' = Unchanged(f)
    BY <2>1 DEF OnDisk, Bytes, Unchanged
  <2>3. phase # "hydrate"
    BY <1>1, <2>1 DEF FinalTrue, NoSync
  <2>4. CASE vol' = vol
    <3>1. OnVolume' = OnVolume
      BY <2>4 DEF OnVolume
    <3> QED
      <4>1. WrittenOnce'
        BY <1>1, <2>1, <2>2, <2>3, <2>4, <3>1 DEF WrittenOnce
      <4>2. ASSUME sync'.st = "refused"
            PROVE  \E f \in Manifests \cap DOMAIN sync.plan :
                     ~Unchanged(f) \/ vol[f] \notin {Absent, Bytes(f)}
        <5>1. CASE BeginCopy
          <6>1. \E f \in DOMAIN sync.plan : ~Unchanged(f)
            BY <1>1, <4>2, <5>1 DEF BeginCopy, TypedFiles
          <6> QED
            BY <1>1, <6>1 DEF WrittenOnce
        <5>2. CASE CopyEnds \/ VolumeError
          BY <1>1, <4>2, <5>2 DEF CopyEnds, VolumeError, TypedFiles
        <5>3. ASSUME NEW f \in File, LinkOne(f)
              PROVE  f \in Manifests \cap DOMAIN sync.plan /\ vol[f] \notin {Absent, Bytes(f)}
          <6>1. f \in DOMAIN sync.plan /\ f \in OnDisk
            BY <1>1, <5>3 DEF LinkOne, FirstOf, CopyTrue
          <6>2. vol[f] \notin {Absent, Bytes(f)}
            BY <1>1, <2>1, <4>2, <5>3, <6>1 DEF LinkOne, TypedFiles
          <6>3. f \in OnVolume
            BY <5>3, <6>2 DEF OnVolume
          <6> QED
            BY <1>1, <6>1, <6>2, <6>3 DEF WrittenOnce
        <5>4. ASSUME NEW f \in File, RecordOne(f)
              PROVE  f \in Manifests \cap DOMAIN sync.plan /\ ~Unchanged(f)
          <6>1. f \in DOMAIN sync.plan
            BY <1>1, <5>4 DEF RecordOne, CopyTrue
          <6>2. ~Unchanged(f)
            BY <1>1, <2>1, <4>2, <5>4 DEF RecordOne, TypedFiles
          <6> QED
            BY <1>1, <6>1, <6>2 DEF WrittenOnce
        <5> QED
          BY <1>8, <5>1, <5>2, <5>3, <5>4
      <4>3. OnlyManifestsRefused'
        BY <2>1, <2>2, <2>4, <4>2 DEF OnlyManifestsRefused
      <4> QED
        BY <4>1, <4>3
  <2>5. ASSUME NEW f \in File, LinkOne(f), vol' # vol
        PROVE  WrittenOnce' /\ OnlyManifestsRefused'
    <3>1. /\ f \in OnDisk /\ f \in DOMAIN sync.plan /\ vol' = [vol EXCEPT ![f] = Bytes(f)]
          /\ sync'.st = "copying"
      BY <1>1, <2>5 DEF LinkOne, FirstOf, CopyTrue, TypedFiles
    <3>2. /\ vol'[f] = Bytes(f) /\ \A g \in File : g # f => vol'[g] = vol[g]
          /\ OnVolume' \subseteq OnVolume \cup {f}
      BY <1>1, <3>1 DEF TypedFiles, OnVolume
    <3>3. \A g \in OnDisk' \cap OnVolume' : g \notin Manifests => vol'[g] = Bytes(g)'
      BY <1>1, <2>2, <3>2 DEF WrittenOnce, OnDisk
    <3>4. phase = "drive" => f \notin Logs
      BY <1>1, <3>1 DEF WrittenOnce
    <3>5. runs \in 1 .. MaxRuns => Log(runs) \in Logs
      BY DEF Logs
    <3>6. WrittenOnce'
      BY <1>1, <2>1, <2>2, <2>3, <3>1, <3>2, <3>3, <3>4, <3>5 DEF WrittenOnce
    <3> QED
      BY <3>1, <3>6 DEF OnlyManifestsRefused
  <2>6. ASSUME vol' # vol PROVE \E f \in File : LinkOne(f)
    BY <1>8, <2>6 DEF BeginCopy, CopyEnds, VolumeError, RecordOne
  <2> QED
    BY <2>4, <2>5, <2>6
<1>9. CASE PodGone
  <2>1. OnDisk' = {} /\ OnVolume' = OnVolume /\ sync' = NoSync /\ phase' = "off" /\ runs' = runs
    BY <1>9 DEF PodGone, OnDisk, OnVolume
  <2> QED
    BY <1>1, <2>1, PlansAre DEF WrittenOnce, OnlyManifestsRefused, NoSync
<1>10. ASSUME NEW f \in File, Loss(f) PROVE WrittenOnce' /\ OnlyManifestsRefused'
  <2>1. /\ UNCHANGED <<disk, sync, phase, runs>> /\ vol' = [vol EXCEPT ![f] = Absent]
        /\ phase # "hydrate" /\ sync.st # "refused" /\ OnDisk' = OnDisk
    BY <1>10 DEF Loss, pod, Failed, OnDisk
  <2>2. /\ OnVolume' \subseteq OnVolume /\ \A g \in OnVolume' : vol'[g] = vol[g]
        /\ \A g : Bytes(g)' = Bytes(g) /\ Unchanged(g)' = Unchanged(g)
    BY <1>1, <2>1 DEF OnVolume, TypedFiles, Bytes, Unchanged
  <2> QED
    BY <1>1, <2>1, <2>2 DEF WrittenOnce, OnlyManifestsRefused
<1>11. CASE EngineWrites \/ StageEnds \/ (\E f \in File : HydrateOne(f))
            \/ \E f \in File, b \in {"read", "failed"} : Publish(f, b)
  BY <1>2, <1>11, PublishWrites, EngineWritesOne, StageEndsWrites, HydrateWrites
<1> QED
  BY <1>3, <1>4, <1>5, <1>6, <1>7, <1>8, <1>9, <1>10, <1>11
     DEF Next, CopyStep, DriverStep, PodStep, Fault

------------------------------------------------------------------------------
(* A halt.                                                                    *)

\* More of the files are more hard failures.
LEMMA More ==
  ASSUME NEW S \in SUBSET File, NEW T \in SUBSET S, Cardinality(T) > Threshold
  PROVE  Cardinality(S) > Threshold
<1>1. IsFiniteSet(S) /\ IsFiniteSet(T)
  BY FileFinite, FS_Subset
<1>2. Cardinality(T) <= Cardinality(S) /\ Cardinality(S) \in Nat /\ Cardinality(T) \in Nat
  BY <1>1, FS_Subset, FS_CardinalityType
<1> QED
  BY <1>2, VolumeSyncAssumption

\* A hard failure is an artifact, which nothing rewrites while the pod is there.
LEMMA BreachedStays ==
  ASSUME Inv, [Next]_vars, ~PodGone, Breached
  PROVE  Breached'
<1>1. HardFailures \subseteq HardFailures'
  <2>1. CASE \E f \in File : \E b \in ContentOf(f) : Writes(f, b)
    <3>1. PICK g \in File : \E b \in ContentOf(g) : Writes(g, b)
      BY <2>1
    <3>2. g \notin OnDisk \/ g[1] # "artifact"
      BY <3>1, Kinds DEF Writes
    <3>3. \A f \in File : f # g => disk'[f] = disk[f]
      BY <3>1 DEF Writes, Write
    <3> QED
      BY <3>2, <3>3 DEF HardFailures, OnDisk, Bytes
  <2>2. CASE disk' = disk
    BY <2>2 DEF HardFailures, OnDisk, Bytes
  <2>3. \/ disk' = disk
        \/ \E f \in File : \E b \in ContentOf(f) : Writes(f, b)
    <3>1. CASE BeginCopy \/ CopyEnds \/ VolumeError \/ \E f \in File : LinkOne(f) \/ RecordOne(f)
      BY <3>1, SyncGoesOn
    <3>2. CASE Controls \/ \E f \in File : Loss(f)
      BY <3>2 DEF Controls, Loss
    <3> QED
      BY <3>1, <3>2, Steps
  <2> QED
    BY <2>1, <2>2, <2>3
<1>2. HardFailures' \subseteq File
  BY DEF HardFailures, OnDisk
<1> QED
  BY <1>1, <1>2, More DEF Breached

LEMMA HaltedStays ==
  ASSUME Inv, [Next]_vars
  PROVE  StaysHalted'
<1>1. /\ StaysHalted /\ FinalTrue /\ EndedHoldsAll /\ TypedPlaces /\ TypedFiles
      /\ drv \in [pc : Places, from : Nat, at : Nat, to : Nat, result : Results, exit : Exits]
  BY DEF Inv, Copies, Typed, TypedPlaces
<1>2. Breached /\ ~PodGone => Breached'
  BY BreachedStays
<1>3. CASE BeginCopy \/ CopyEnds \/ VolumeError \/ \E f \in File : LinkOne(f) \/ RecordOne(f)
  <2>1. UNCHANGED <<disk, drv, phase, halted>> /\ sync.st # "none" /\ HardFailures' = HardFailures
    BY <1>3, SyncGoesOn DEF HardFailures, OnDisk, Bytes
  <2>2. phase \notin {"off", "hydrate"}
    BY <1>1, <2>1 DEF FinalTrue, NoSync
  <2> QED
    BY <1>1, <2>1, <2>2 DEF StaysHalted, Breached
<1>4. CASE HeldRecensor \/ StageFails \/ JoinPrevious \/ StartSync \/ EngineWrites \/ StageEnds
           \/ \E f \in File, b \in {"read", "failed"} : Publish(f, b)
  <2>1. /\ phase = "drive" /\ phase' = "drive" /\ halted' = halted
        /\ \/ drv' = drv
           \/ drv'.pc \in {"raise", "check", "boundary"}
           \/ drv'.pc = "return" /\ drv'.exit = "held"
    BY <1>1, <1>4
       DEF HeldRecensor, StageFails, JoinPrevious, StartSync, EngineWrites, StageEnds, Publish,
           At, To, Return, pod, history
  <2>2. ~PodGone
    BY <2>1 DEF PodGone
  <2> QED
    BY <1>1, <1>2, <2>1, <2>2 DEF StaysHalted
<1>5. CASE Invoke
  <2>1. /\ phase = "drive" /\ phase' = "drive" /\ halted' = halted
        /\ drv'.pc \in {"raise", "boundary", "stage"} /\ (drv'.pc = "stage" => ~Breached)
    BY <1>1, <1>5 DEF Invoke, At, To, pod, history
  <2>2. ~PodGone
    BY <2>1 DEF PodGone
  <2> QED
    BY <1>1, <1>2, <2>1, <2>2 DEF StaysHalted
<1>6. CASE CheckBoundary
  <2>1. /\ phase = "drive" /\ phase' = "drive" /\ halted' = halted
        /\ \/ drv'.pc = "return" /\ (drv'.exit = "halted" => Breached)
           \/ drv'.pc = "next"
    BY <1>1, <1>6 DEF CheckBoundary, At, Return, pod, history
  <2>2. ~PodGone
    BY <2>1 DEF PodGone
  <2> QED
    BY <1>1, <1>2, <2>1, <2>2 DEF StaysHalted
<1>7. CASE DriveEnds
  <2>1. phase = "drive" /\ phase' = "final" /\ ~PodGone
    BY <1>7 DEF DriveEnds, FinalSync, At, PodGone
  <2>2. halted' => halted \/ (drv.pc = "return" /\ drv.exit = "halted")
    BY <1>7, Zenon DEF DriveEnds, At
  <2> QED
    BY <1>1, <1>2, <2>1, <2>2 DEF StaysHalted
<1>8. CASE /\ ~PodGone
           /\ \/ HydrateRefused \/ (\E f \in File : HydrateOne(f)) \/ Killed
              \/ \E c \in Selections : Launch(c[1], c[2])
  <2>1. phase' \in {"off", "hydrate"} /\ halted' = halted /\ vol' = vol
    BY <1>8 DEF HydrateRefused, HydrateOne, Killed, Launch, pod, history
  <2>2. VolumeFailures' = VolumeFailures
    BY <2>1 DEF VolumeFailures, OnVolume
  <2> QED
    BY <1>1, <1>2, <1>8, <2>1, <2>2 DEF StaysHalted
<1>9. CASE Hydrated
  <2>1. /\ phase = "hydrate" /\ phase' = "drive" /\ drv'.pc = "next"
        /\ UNCHANGED <<disk, vol, halted>>
    BY <1>1, <1>9 DEF Hydrated, To, history
  <2>2. VolumeFailures \subseteq HardFailures
    BY <1>9 DEF Hydrated, Differs, VolumeFailures, HardFailures
  <2>3. HardFailures \subseteq File
    BY DEF HardFailures, OnDisk
  <2>4. HardFailures' = HardFailures
    BY <2>1 DEF HardFailures, OnDisk, Bytes
  <2>5. halted => Breached
    BY <1>1, <2>2, <2>3, More DEF StaysHalted, Breached
  <2> QED
    BY <2>1, <2>4, <2>5 DEF StaysHalted, Breached
<1>10. CASE RunEnds
  <2>1. phase = "final" /\ phase' = "ended" /\ UNCHANGED <<disk, halted>>
    BY <1>10 DEF RunEnds, history
  <2>2. HardFailures' = HardFailures
    BY <2>1 DEF HardFailures, OnDisk, Bytes
  <2> QED
    BY <1>1, <2>1, <2>2 DEF StaysHalted, Breached
<1>11. CASE PodGone
  <2>1. phase' = "off" /\ vol' = vol /\ (halted' => halted /\ phase = "ended" /\ whole)
    BY <1>11 DEF PodGone
  <2>2. ASSUME halted' PROVE Cardinality(VolumeFailures) > Threshold
    <3>1. Breached /\ \A f \in OnDisk : vol[f] = Bytes(f)
      BY <1>1, <2>1, <2>2 DEF StaysHalted, EndedHoldsAll
    <3>2. HardFailures \subseteq VolumeFailures
      BY <1>1, <3>1, There DEF HardFailures, VolumeFailures, OnVolume
    <3>3. VolumeFailures \subseteq File
      BY DEF VolumeFailures, OnVolume
    <3> QED
      BY <3>1, <3>2, <3>3, More DEF Breached
  <2>3. VolumeFailures' = VolumeFailures
    BY <2>1 DEF VolumeFailures, OnVolume
  <2> QED
    BY <2>1, <2>2, <2>3 DEF StaysHalted
<1>12. CASE (\E f \in File : Loss(f)) \/ UNCHANGED vars
  <2>1. /\ UNCHANGED <<disk, phase, drv>>
        /\ halted' => halted /\ vol' = vol
    BY <1>12 DEF Loss, pod, vars, history
  <2>2. HardFailures' = HardFailures /\ (halted' => VolumeFailures' = VolumeFailures)
    BY <2>1 DEF HardFailures, OnDisk, Bytes, VolumeFailures, OnVolume
  <2> QED
    BY <1>1, <2>1, <2>2 DEF StaysHalted, Breached
<1> QED
  BY <1>3, <1>4, <1>5, <1>6, <1>7, <1>8, <1>9, <1>10, <1>11, <1>12
     DEF Next, CopyStep, DriverStep, PodStep, Fault

------------------------------------------------------------------------------
(* The theorems.                                                              *)

LEMMA InitInv == Init => Inv
<1> SUFFICES ASSUME Init PROVE Inv
  OBVIOUS
<1>1. OnDisk = {} /\ OnVolume = {} /\ lost = {} /\ phase = "off" /\ halted = FALSE
  BY DEF Init, OnDisk, OnVolume
<1>2. sync = NoSync /\ known = Unread /\ drv = NoDriver
  BY DEF Init
<1>3. TypedFiles
  <2>1. NoSync \in [st : Syncs, plan : Plans, todo : SUBSET File, linked : SUBSET File]
    BY PlansAre DEF NoSync, Syncs
  <2> QED
    BY <1>2, <2>1 DEF Init, TypedFiles
<1>4. TypedPlaces
  <2>1. /\ drv \in [pc : Places, from : Nat, at : Nat, to : Nat, result : Results, exit : Exits]
        /\ drv.from = 1 /\ drv.at = 1 /\ drv.to = 1
    BY <1>2 DEF NoDriver, Places, Results, Exits
  <2>2. 1 \in 1 .. 1 /\ 1 \in 1 .. Last
    BY VolumeSyncAssumption
  <2>3. phase \in Phases /\ runs \in Nat /\ halted \in BOOLEAN /\ whole \in BOOLEAN
    BY DEF Init, Phases
  <2> QED
    BY <2>1, <2>2, <2>3 DEF TypedPlaces
<1>5. LinesTrue
  BY <1>1, <1>2 DEF Init, LinesTrue
<1>6. CopyTrue /\ FinalTrue /\ OnlyManifestsRefused
  BY <1>1, <1>2, PlansAre DEF CopyTrue, FinalTrue, OnlyManifestsRefused, NoSync
<1>7. EndedHoldsAll /\ Driven /\ BehindByOne /\ StaysHalted
  BY <1>1 DEF EndedHoldsAll, Driven, BehindByOne, StaysHalted
<1>8. WrittenOnce
  BY <1>1, <1>2, PlansAre DEF WrittenOnce, NoSync
<1> QED
  BY <1>3, <1>4, <1>5, <1>6, <1>7, <1>8 DEF Inv, Copies, Typed

LEMMA NextInv == Inv /\ [Next]_vars => Inv'
BY CopiesStay, PlacesStay, FinalStays, DrivenStays, WrittenStays, HaltedStays
   DEF Inv, Copies, Typed

(* The times of the disk, the ledger and the plan together say truly what the *)
(* volume holds, through any losses, kills and relaunches: what the ledger's  *)
(* lines, the copy's skips and the boundary's freeze in runtree/sync.py       *)
(* promise.                                                                   *)
THEOREM CopiesAreTrue == Spec => []Inv
<1>1. Inv /\ [Next]_vars => Inv'
  BY NextInv
<1> QED
  BY InitInv, <1>1, PTL DEF Spec

(* When pod_run has made the final copy and says the pod may go, every file   *)
(* of the pod's disk is on the volume byte for byte.                          *)
THEOREM EndedAlwaysHoldsAll == Spec => []EndedHoldsAll
<1>1. Inv => EndedHoldsAll
  BY DEF Inv, Copies
<1> QED
  BY CopiesAreTrue, <1>1, PTL

(* By the end of the stage that follows it, all a stage published is on the   *)
(* volume: the join at the boundary, and the fatal exit of a failed copy.     *)
THEOREM AlwaysBehindByOne == Spec => []BehindByOne
<1>1. Inv => BehindByOne
  BY DEF Inv
<1> QED
  BY CopiesAreTrue, <1>1, PTL

(* A copy is refused only over a manifest: artifacts are written once, and    *)
(* the logs of a running engine are in no plan made at a boundary.            *)
THEOREM OnlyManifestsAreRefused == Spec => []OnlyManifestsRefused
<1>1. Inv => OnlyManifestsRefused
  BY DEF Inv
<1> QED
  BY CopiesAreTrue, <1>1, PTL

\* The only steps that add a file to the disk are a running stage's and the hydration's.
LEMMA HaltKeepsOut ==
  ASSUME Inv, [Next]_vars, halted,
         NEW s \in Stage, NEW f \in Artifact(s), disk[f] = Absent, disk'[f] # Absent
  PROVE  phase = "hydrate"
<1>1. StaysHalted /\ f \in File
  BY Kinds DEF Inv
<1>2. CASE \E g \in File : \E b \in ContentOf(g) : Writes(g, b)
  BY <1>1, <1>2 DEF Writes, StaysHalted
<1>3. CASE PodGone
  BY <1>1, <1>3 DEF PodGone
<1>4. CASE Controls \/ BeginCopy \/ CopyEnds \/ VolumeError
           \/ \E g \in File : LinkOne(g) \/ RecordOne(g) \/ Loss(g)
  <2>1. disk' = disk
    BY <1>4 DEF Controls, BeginCopy, CopyEnds, VolumeError, LinkOne, RecordOne, Loss
  <2> QED
    BY <2>1
<1> QED
  BY <1>2, <1>3, <1>4, Steps

(* After a run reported its halt at the hard-failure cap nothing is published *)
(* in it, on that pod or on the next one: the count at the stage's entry sees *)
(* the failures the final copy kept.                                          *)
THEOREM HaltAlwaysStands == Spec => HaltStands
<1>1. Inv /\ [Next]_vars =>
        [halted => \A s \in Stage : \A f \in Artifact(s) :
           disk[f] = Absent /\ disk'[f] # Absent => phase = "hydrate"]_vars
  BY HaltKeepsOut
<1> QED
  BY CopiesAreTrue, <1>1, PTL DEF Spec, HaltStands
==============================================================================
