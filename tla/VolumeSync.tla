----------------------------- MODULE VolumeSync -----------------------------
(* A run on a rented pod, between the pod's own disk and the volume that     *)
(* outlives the pod (pipeline/orchestrator/run.py, common/runtree/sync.py,    *)
(* common/hard_failure.py, operations/pod/pod_run.py).                        *)
(*                                                                            *)
(* pod_run first brings the volume's copy of the run to the pod's disk, then  *)
(* starts the orchestrator.  The orchestrator invokes the selected stages one *)
(* after the other.  At each boundary it joins the copy that ran beside the   *)
(* stage that ended, freezes the list of files, starts the next copy on a     *)
(* thread, and recounts the run's hard failures from the disk.  When the      *)
(* orchestrator has ended pod_run copies everything once more, the engines'   *)
(* logs included, and only then lets go of the pod.                           *)
(*                                                                            *)
(* A stage publishes artifacts, which are written once, and rewrites its      *)
(* manifest, an inventory of them; the engine of the stage Resident writes a  *)
(* log until the stage after it has ended.  What a stage reads in its pages   *)
(* is a choice: the bytes of an artifact say only whether it is a hard        *)
(* failure.  Times are those of the last write of each file, counted.         *)
EXTENDS Naturals, FiniteSets

CONSTANTS
  Last,        \* the stages of the sequence are 1 .. Last; the last one exports
  Units,       \* <<stage, subject>>: what each stage publishes an artifact about
  Gate,        \* the Attestatores: held, it stops every mode
  Resident,    \* the Perlector: its engine is handed to the next stage
  Threshold,   \* HARD_FAILURE_THRESHOLD
  COPY_WORKERS,
  Selections,  \* bound: the selections <<from, to>> that are launched
  MaxRuns,     \* bound: invocations of pod_run
  MaxFaults,   \* bound: pods or files lost, processes killed, the volume full
  Absent       \* no file; no line of the ledger

ASSUME VolumeSyncAssumption ==
  /\ Last \in Nat \ {0} /\ Gate \in 1 .. Last /\ Resident \in 1 .. Last
  /\ IsFiniteSet(Units) /\ \A u \in Units : u[1] \in 1 .. Last
  /\ \A c \in Selections : c[1] \in 1 .. c[2] /\ c[2] \in 1 .. Last
  /\ Threshold \in Nat /\ COPY_WORKERS \in Nat \ {0}
  /\ MaxRuns \in Nat /\ MaxFaults \in Nat

Stage == 1 .. Last
Artifact(s) == {<<"artifact", s, u[2]>> : u \in {v \in Units : v[1] = s}}
Manifest(s) == <<"manifest", s>>
Log(r) == <<"log", r>>                       \* the engine started in invocation r
Manifests == {Manifest(s) : s \in Stage}
Logs == {Log(r) : r \in 1 .. MaxRuns}
Artifacts == UNION {Artifact(s) : s \in Stage}
File == Artifacts \cup Manifests \cup Logs

(* What a file may hold: what was read or that it failed, the artifacts a      *)
(* manifest lists, or how far a log has been written.                          *)
ContentOf(f) ==
  IF f[1] = "artifact" THEN {"read", "failed"}
  ELSE IF f[1] = "manifest" THEN SUBSET File ELSE {1, 2}

(* No file is none of these, and no line of the ledger is no time.             *)
ASSUME AbsentAssumption ==
  /\ Absent \notin Nat
  /\ \A f \in File : /\ \A b \in ContentOf(f) : Absent # b
                     /\ Absent \notin [bytes : ContentOf(f), time : Nat]

VARIABLES
  disk,     \* [File -> [bytes, time] or Absent]: the pod's own disk
  vol,      \* [File -> bytes or Absent]: the volume's run directory
  ledger,   \* [File -> time or Absent]: the ledger, on the pod's disk
  phase,    \* pod_run: "off", "hydrate", "drive", "final", "ended"
  drv,      \* the orchestrator's place, selection, current stage and exits
  sync,     \* the copy to the volume, if there is one: a stage's, or the final one
  known,    \* _verified: the ledger as the process that copies has it, or Unread
  whole,    \* sync_failure is None: the final copy was made
  runs, faults,
  halted,   \* history: a halt was reported and nothing of that disk was lost since
  lost      \* history: files lost on the volume and not copied again

pod == <<phase, whole, runs>>
history == <<faults, halted, lost>>
vars == <<disk, vol, ledger, pod, drv, sync, known, history>>

Unread == [f \in {} |-> Absent]
NoSync == [st |-> "none", plan |-> Unread, todo |-> {}, linked |-> {}]
NoDriver ==
  [pc |-> "off", from |-> 1, at |-> 1, to |-> 1, result |-> "none", exit |-> "none"]

OnDisk == {f \in File : disk[f] # Absent}
OnVolume == {f \in File : vol[f] # Absent}
Bytes(f) == disk[f].bytes

Write(f, b) ==
  disk' = [disk EXCEPT ![f] =
             [bytes |-> b, time |-> IF f \in OnDisk THEN disk[f].time + 1 ELSE 1]]

------------------------------------------------------------------------------
(* The hard failures, counted as (stage, subject) pairs from what is on disk. *)

HardFailures == {f \in OnDisk : f[1] = "artifact" /\ Bytes(f) = "failed"}
Breached == Cardinality(HardFailures) > Threshold

Published(s) == Artifact(s) \cap OnDisk

(* A stage's boundary is current: sealed (StageSeal), in the pass that wrote   *)
(* its manifest, over what it published.                                       *)
Settled(s) == Manifest(s) \in OnDisk /\ Bytes(Manifest(s)) = Published(s)
Enters(s) == s = 1 \/ Settled(s - 1)

------------------------------------------------------------------------------
(* RunTreeSync: plan, ledger, copy.                                           *)

(* Mutant: the engines' logs are copied at the boundary too.                   *)
StageFilesWithLogs == OnDisk

(* What a sync freezes: the time of every file on the disk, the engines' logs  *)
(* left out while an engine may still write them.                              *)
StageFiles == OnDisk \ Logs

Plan(F) ==
  [NoSync EXCEPT !.st = "planned", !.plan = [f \in F |-> disk[f].time]]

(* Mutant: a line is trusted without a look at the volume.                     *)
ReadLedgerBlindly == ledger

(* The lines of the ledger whose file is still on the volume.                  *)
ReadLedger == [f \in File |-> IF f \in OnVolume THEN ledger[f] ELSE Absent]

(* The walk goes through the stages' directories in turn, and the pool takes   *)
(* and gives back the files in the order of the walk.                          *)
Directory(f) == IF f \in Logs THEN Resident ELSE f[2]
FirstOf(F) == {f \in F : \A g \in F : Directory(f) <= Directory(g)}

Unchanged(f) == f \in OnDisk /\ disk[f].time = sync.plan[f]

(* copy() begins: it reads the ledger if this process has not, passes over     *)
(* what it verified, and refuses if one of those changed since the plan.       *)
BeginCopy ==
  /\ sync.st = "planned"
  /\ known' = IF known = Unread THEN ReadLedger ELSE known
  /\ LET skipped == {f \in DOMAIN sync.plan : known'[f] = sync.plan[f]}
     IN sync' = [sync EXCEPT
          !.todo = DOMAIN sync.plan \ skipped,
          !.st = IF \A f \in skipped : Unchanged(f) THEN "copying" ELSE "refused"]
  /\ UNCHANGED <<disk, vol, ledger, drv, pod, history>>

CopyFails == sync' = [sync EXCEPT !.st = "refused"]

(* _copy_one up to the link: a file the volume holds must have the same        *)
(* bytes; one it does not is written beside its name, synced and linked.       *)
LinkOne(f) ==
  /\ sync.st = "copying" /\ f \in FirstOf(sync.todo \ sync.linked)
  /\ Cardinality(sync.linked) < COPY_WORKERS
  /\ \/ /\ f \in OnDisk /\ vol[f] \in {Absent, Bytes(f)}
        /\ vol' = [vol EXCEPT ![f] = Bytes(f)]
        /\ sync' = [sync EXCEPT !.linked = @ \cup {f}]
        /\ lost' = lost \ {f}
     \/ /\ ~(f \in OnDisk /\ vol[f] \in {Absent, Bytes(f)})
        /\ CopyFails
        /\ UNCHANGED <<vol, lost>>
  /\ UNCHANGED <<disk, ledger, drv, known, faults, halted, pod>>

(* _copy_one after the link, and _record: the source is still the planned      *)
(* file, so its line is appended to the ledger.                                *)
RecordOne(f) ==
  /\ sync.st = "copying" /\ f \in sync.linked \cap FirstOf(sync.todo)
  /\ \/ /\ Unchanged(f)
        /\ ledger' = [ledger EXCEPT ![f] = sync.plan[f]]
        /\ known' = [known EXCEPT ![f] = sync.plan[f]]
        /\ sync' = [sync EXCEPT !.linked = @ \ {f}, !.todo = @ \ {f}]
     \/ /\ ~Unchanged(f)
        /\ CopyFails
        /\ UNCHANGED <<ledger, known>>
  /\ UNCHANGED <<disk, vol, drv, pod, history>>

CopyEnds ==
  /\ sync.st = "copying" /\ sync.todo = {}
  /\ sync' = [sync EXCEPT !.st = "copied"]
  /\ UNCHANGED <<disk, vol, ledger, drv, known, pod, history>>

Failed == sync.st \in {"refused", "broken"}
Over == sync.st = "copied" \/ Failed

CopyStep == BeginCopy \/ CopyEnds \/ \E f \in File : LinkOne(f) \/ RecordOne(f)

------------------------------------------------------------------------------
(* The orchestrator: _drive and _drive_stages.                                *)

At(pc) == phase = "drive" /\ drv.pc = pc
To(pc) == drv' = [drv EXCEPT !.pc = pc]
Return(code) == drv' = [drv EXCEPT !.pc = "return", !.exit = code]

(* A Recensor that holds anything stops the run before the Archetypus and the  *)
(* Armarium (ReviewedRun says when); the last stage stands for them.           *)
HeldRecensor ==
  /\ At("next") /\ drv.at = Last
  /\ Return("held")
  /\ UNCHANGED <<disk, vol, ledger, sync, known, pod, history>>

(* Mutant: the stage's entry does not count the hard failures.                 *)
InvokeUncounted ==
  /\ At("next")
  /\ To(IF Enters(drv.at) THEN "stage" ELSE "raise")
  /\ UNCHANGED <<disk, vol, ledger, sync, known, pod, history>>

(* invoke: at its entry the stage refuses a predecessor without a current      *)
(* boundary, which raises, and then a halted run, before it writes anything.   *)
Invoke ==
  /\ At("next")
  /\ \/ ~Enters(drv.at) /\ To("raise")
     \/ Enters(drv.at) /\ Breached
        /\ drv' = [drv EXCEPT !.pc = "boundary", !.result = "halted"]
     \/ Enters(drv.at) /\ ~Breached /\ To("stage")
  /\ UNCHANGED <<disk, vol, ledger, sync, known, pod, history>>

(* The running stage publishes an artifact it has not.                         *)
Publish(f, b) ==
  /\ At("stage") /\ f \in Artifact(drv.at) \ OnDisk
  /\ Write(f, b)
  /\ UNCHANGED <<vol, ledger, drv, sync, known, pod, history>>

(* Resident launches its engine, which opens a log no one wrote before, and    *)
(* goes on writing it in the stage it is handed to.                            *)
EngineWrites ==
  /\ At("stage")
  /\ \/ drv.at = Resident /\ Log(runs) \notin OnDisk
     \/ drv.at = Resident + 1 /\ Log(runs) \in OnDisk /\ Bytes(Log(runs)) = 1
  /\ Write(Log(runs), IF drv.at = Resident THEN 1 ELSE 2)
  /\ UNCHANGED <<vol, ledger, drv, sync, known, pod, history>>

(* The stage ends complete, or held over a subject it could not settle: its    *)
(* manifest is derived again from what it published.                           *)
StageEnds ==
  /\ At("stage")
  /\ Write(Manifest(drv.at), Published(drv.at))
  /\ drv' = [drv EXCEPT
       !.pc = "boundary",
       !.result = IF Artifact(drv.at) \subseteq OnDisk THEN "complete" ELSE "held"]
  /\ UNCHANGED <<vol, ledger, sync, known, pod, history>>

StageFails ==
  /\ At("stage")
  /\ To("raise")
  /\ UNCHANGED <<disk, vol, ledger, sync, known, pod, history>>

(* Mutant: how the earlier copy ended is printed and not raised.               *)
JoinPreviousQuietly ==
  /\ At("boundary") /\ Over
  /\ sync' = NoSync
  /\ UNCHANGED <<disk, vol, ledger, drv, known, pod, history>>

(* Mutant: the thread's error is not kept, and the join waits for its count.   *)
JoinPreviousCopied ==
  /\ At("boundary") /\ sync.st = "copied"
  /\ sync' = NoSync
  /\ UNCHANGED <<disk, vol, ledger, drv, known, pod, history>>

(* The copy that ran beside this stage ends before this stage's begins; if it  *)
(* failed, the invocation is refused here.                                     *)
JoinPrevious ==
  /\ At("boundary") /\ Over
  /\ IF sync.st = "copied" THEN UNCHANGED drv ELSE To("raise")
  /\ sync' = NoSync
  /\ UNCHANGED <<disk, vol, ledger, known, pod, history>>

StartSync ==
  /\ At("boundary") /\ sync.st = "none"
  /\ sync' = Plan(StageFiles)
  /\ To("check")
  /\ UNCHANGED <<disk, vol, ledger, known, pod, history>>

(* The cap before every other stop; then a held Attestatores, and a held stage *)
(* of a selection that does not end at the Armarium.                           *)
CheckBoundary ==
  /\ At("check")
  /\ \/ Breached /\ Return("halted")
     \/ /\ ~Breached /\ drv.result = "held" /\ (drv.at = Gate \/ drv.to # Last)
        /\ Return("held")
     \/ /\ ~Breached /\ ~(drv.result = "held" /\ (drv.at = Gate \/ drv.to # Last))
        /\ IF drv.at = drv.to THEN Return("complete")
           ELSE drv' = [drv EXCEPT !.pc = "next", !.at = @ + 1, !.result = "none"]
  /\ UNCHANGED <<disk, vol, ledger, sync, known, pod, history>>

(* A new RunTreeSync over everything, by pod_run, when the orchestrator is     *)
(* over.                                                                       *)
FinalSync ==
  /\ phase' = "final"
  /\ sync' = Plan(OnDisk) /\ known' = Unread

(* The last copy is joined before the invocation says how it ended: a failed   *)
(* one makes it fatal, and a raised refusal stays one.                         *)
DriveEnds ==
  /\ At("return") \/ At("raise")
  /\ (sync.st = "none" \/ Over)
  /\ LET code == IF drv.pc = "raise" \/ Failed THEN "fatal" ELSE drv.exit
     IN /\ drv' = [drv EXCEPT !.pc = "done", !.exit = code]
        /\ halted' = (halted \/ code = "halted")
  /\ FinalSync
  /\ UNCHANGED <<disk, vol, ledger, whole, runs, faults, lost>>

DriverStep ==
  \/ HeldRecensor \/ Invoke \/ EngineWrites \/ StageEnds \/ StageFails
  \/ JoinPrevious \/ StartSync \/ CheckBoundary \/ DriveEnds
  \/ \E f \in File, b \in {"read", "failed"} : Publish(f, b)

------------------------------------------------------------------------------
(* pod_run: hydrate, drive, copy everything, let go.                          *)

Differs == {f \in OnVolume \cap OnDisk : Bytes(f) # vol[f]}

(* A pod is started on this run, or pod_run again on the pod that is there,    *)
(* for a contiguous selection of stages.  Past the bound, only a launch that   *)
(* is to be refused.                                                           *)
Launch(from, to) ==
  /\ phase \in {"off", "ended"}
  /\ \/ runs < MaxRuns /\ runs' = runs + 1
     \/ runs = MaxRuns /\ Differs # {} /\ runs' = runs
  /\ phase' = "hydrate" /\ whole' = FALSE
  /\ drv' = [NoDriver EXCEPT !.from = from, !.at = from, !.to = to]
  /\ UNCHANGED <<disk, vol, ledger, sync, known, history>>

(* _hydrate_local_run: the volume's files are copied to the pod's disk, one    *)
(* after the other; a file that differs refuses the launch.                    *)
HydrateOne(f) ==
  /\ phase = "hydrate" /\ f \in FirstOf(OnVolume \ OnDisk)
  /\ Write(f, vol[f])
  /\ UNCHANGED <<vol, ledger, drv, sync, known, pod, history>>

HydrateRefused ==
  /\ phase = "hydrate" /\ Differs # {}
  /\ phase' = "off"
  /\ UNCHANGED <<disk, vol, ledger, drv, sync, known, whole, runs, history>>

Hydrated ==
  /\ phase = "hydrate" /\ OnVolume \subseteq OnDisk /\ Differs = {}
  /\ phase' = "drive" /\ known' = Unread
  /\ To("next")
  /\ UNCHANGED <<disk, vol, ledger, sync, whole, runs, history>>

(* The final copy has ended: the report is written, and unless it failed the   *)
(* backup list is cleared and the guard is released.                           *)
RunEnds ==
  /\ phase = "final" /\ Over
  /\ phase' = "ended" /\ whole' = (sync.st = "copied")
  /\ sync' = NoSync
  /\ UNCHANGED <<disk, vol, ledger, drv, known, runs, history>>

PodStep ==
  \/ HydrateRefused \/ Hydrated \/ RunEnds
  \/ \E f \in File : HydrateOne(f)

(* The pod is deleted and its disk with it: after a run has ended as a matter  *)
(* of course, before that as a fault.                                          *)
PodGone ==
  /\ phase # "off" \/ OnDisk # {}
  /\ faults' = IF phase = "ended" THEN faults ELSE faults + 1
  /\ faults' <= MaxFaults
  /\ disk' = [f \in File |-> Absent] /\ ledger' = [f \in File |-> Absent]
  /\ phase' = "off" /\ drv' = NoDriver /\ sync' = NoSync /\ known' = Unread
  /\ halted' = (halted /\ phase = "ended" /\ whole)
  /\ UNCHANGED <<vol, whole, runs, lost>>

(* Every process of the run is killed; the pod and its disk stay.              *)
Killed ==
  /\ phase \in {"hydrate", "drive", "final"} /\ faults < MaxFaults
  /\ faults' = faults + 1
  /\ phase' = "off" /\ drv' = NoDriver /\ sync' = NoSync /\ known' = Unread
  /\ UNCHANGED <<disk, vol, ledger, whole, runs, halted, lost>>

(* A file is lost on the volume, between two invocations or while one drives   *)
(* (a file lost while the volume is read back was or was not read before),     *)
(* but not after a copy was refused or while the last one is made.             *)
Loss(f) ==
  /\ phase \in {"off", "drive"} /\ ~Failed
  /\ faults < MaxFaults /\ f \in OnVolume
  /\ faults' = faults + 1
  /\ vol' = [vol EXCEPT ![f] = Absent] /\ lost' = lost \cup {f}
  /\ halted' = FALSE
  /\ UNCHANGED <<disk, ledger, drv, sync, known, pod>>

(* The volume cannot be written: an OSError ends the copy.                     *)
VolumeError ==
  /\ sync.st = "copying" /\ sync.todo # {} /\ faults < MaxFaults
  /\ faults' = faults + 1
  /\ sync' = [sync EXCEPT !.st = "broken"]
  /\ UNCHANGED <<disk, vol, ledger, drv, known, halted, lost, pod>>

Init ==
  /\ disk = [f \in File |-> Absent] /\ vol = [f \in File |-> Absent]
  /\ ledger = [f \in File |-> Absent]
  /\ phase = "off" /\ drv = NoDriver /\ sync = NoSync /\ known = Unread
  /\ whole = FALSE /\ runs = 0 /\ faults = 0 /\ halted = FALSE /\ lost = {}

Fault == PodGone \/ Killed \/ VolumeError \/ \E f \in File : Loss(f)

Next ==
  \/ CopyStep \/ DriverStep \/ PodStep \/ Fault
  \/ \E c \in Selections : Launch(c[1], c[2])

Spec == Init /\ [][Next]_vars

(* The copying thread and its workers, the driver and its stages and pod_run   *)
(* go on while their process lives.                                            *)
FairSpec == Spec /\ WF_vars(CopyStep) /\ WF_vars(DriverStep) /\ WF_vars(PodStep)

------------------------------------------------------------------------------
(* Once the final copy has been made the pod may go: everything on its disk,   *)
(* logs included, is on the volume byte for byte, whatever was lost there,     *)
(* killed or copied before.                                                    *)
EndedHoldsAll ==
  phase = "ended" /\ whole => \A f \in OnDisk : vol[f] = Bytes(f)

(* "The volume holds a stage's files by the end of the following stage": when  *)
(* the invocation has joined a stage's copy, all that the stage published, and *)
(* the manifest of it, are there.                                              *)
Copied(s) ==
  \A f \in Artifact(s) \cup {Manifest(s)} :
    f \in OnDisk => f \in lost \/ vol[f] = Bytes(f)

BehindByOne ==
  /\ phase = "drive" => \A s \in drv.from .. drv.at - 2 : Copied(s)
  /\ phase = "final" /\ drv.exit # "fatal" =>
       \A s \in drv.from .. drv.at - 1 : Copied(s)

(* A copy that can write to the volume is refused over nothing but a manifest: *)
(* one that differs from the volume's, or was rewritten beside the copy by a   *)
(* stage that runs again.  Neither the next stage's new files nor a log that   *)
(* is still growing nor an earlier interruption can make it fail.              *)
OnlyManifestsRefused ==
  sync.st = "refused" =>
    \E f \in Manifests \cap DOMAIN sync.plan :
      ~Unchanged(f) \/ vol[f] \notin {Absent, Bytes(f)}

(* A run that reported its halt stays halted: no stage, on that pod or on one  *)
(* that took the run over from the volume, publishes anything after it.        *)
HaltStands ==
  [][halted => \A s \in Stage : \A f \in Artifact(s) :
       disk[f] = Absent /\ disk'[f] # Absent => phase = "hydrate"]_vars

(* An invocation that began to drive ends, and so does the final copy: no join *)
(* waits for a copy that is over or was never made.                            *)
DrivesEnd == (phase = "drive") ~> (phase \in {"ended", "off"})
==============================================================================
