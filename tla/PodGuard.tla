------------------------------ MODULE PodGuard ------------------------------
(***************************************************************************)
(* The guard inside a rented pod (operations/pod/pod_guard.sh), armed by   *)
(* the pod's start command (pod_start_command.sh), and the pod_run it      *)
(* watches through four small files: the progress line, the keep-alive,    *)
(* the list of trees to back up and the deadline.                          *)
(*                                                                         *)
(* Time passes in units of the guard's interval: in each the guard ticks   *)
(* once and a living pod_run reports once, in either order.  Ages stop at  *)
(* DeleteAfter, which is the largest the ladder compares with.  Deadlines  *)
(* are the units left to them.  A run's pages are counted; a stage that is *)
(* not counted in pages is the same with its output for a page.            *)
(***************************************************************************)
EXTENDS Integers, FiniteSetsExt

CONSTANTS
    WarnAfter, BackupAfter, DeleteAfter,  \* the ladder's steps, in idle units
    LadderDelete,  \* ladder_delete of config/spend.toml
    QuietLimit,    \* units without a new page after which a run is stalled
    LongStep,      \* units a bootstrap step or the final copy counts as work
    Fresh,         \* units a progress line counts
    Modes,         \* how the start command may have been printed
    Window,        \* units to the first deadline, and of an extension
    HardMax,       \* units to the hard maximum
    Grace,         \* units the backstop waits after the deadline
    MaxPages,      \* bound: pages of the run
    MaxRuns,       \* bound: invocations of pod_run on this pod
    MaxFaults      \* bound: kills, silent units, extensions and touches

ASSUME GuardAssumption ==
    /\ {WarnAfter, BackupAfter, DeleteAfter, QuietLimit, LongStep, Fresh,
        Window, HardMax, Grace, MaxPages, MaxRuns, MaxFaults} \subseteq Nat
    /\ 0 < Fresh /\ 0 < WarnAfter /\ WarnAfter < BackupAfter /\ BackupAfter < DeleteAfter
    /\ Window <= HardMax
    /\ LadderDelete \in BOOLEAN
    /\ Modes \subseteq {"off", "hours", "budget"}

VARIABLES
    container,  \* "up", "gone" or "stopped"
    mode,    \* "off", "hours", "budget"
    due,     \* the deadline file, the guard's own copy of it, first and cap
    run,     \* pod_run: its phase, the age of its step, its invocations
    disk,    \* the run's tree: pages made, on the volume, in the guard's backup
    line,    \* the progress line's status; "none" when missing or stale
    lineAge, \* units since it was written
    lastOk,  \* units since the last ok it names
    keep,    \* units since the keep-alive was touched
    listed,  \* backup-<pod id> names the run's trees
    guard,   \* the guard's own variables
    owes,    \* who has yet to act in this unit
    faults

guardVars == <<container, mode, due, run, disk, line, lineAge, lastOk, keep, listed,
               guard, owes, faults>>
files == <<line, lineAge, lastOk, keep, listed>>

Older(age) == IF age < DeleteAfter THEN age + 1 ELSE age
StepMax == Max({QuietLimit, LongStep}) + 1
Left == (0 - Grace)..HardMax
Elapse(left) == IF left > 0 - Grace THEN left - 1 ELSE left

\* A deadline: its file may be absent, or hold what is no deadline.
Deadline(is, left) == [is |-> is, left |-> left]
NoDeadline == Deadline("none", 0)
Junk == Deadline("junk", 0)

GuardTypeOK ==
    /\ container \in {"up", "gone", "stopped"} /\ mode \in Modes
    /\ due \in [file : [is : {"none", "junk", "set"}, left : Left],
                guard : [is : {"none", "set"}, left : Left],
                ignored : BOOLEAN, first : Left, cap : Left]
    /\ run \in [phase : {"none", "boot", "drive", "sync"}, step : 0..StepMax,
                count : 0..MaxRuns, steady : BOOLEAN]
    /\ disk \in [tree : BOOLEAN, made : 0..MaxPages, volume : 0..MaxPages, backup : 0..MaxPages]
    /\ line \in {"none", "ok", "slow", "stalled", "bootstrapping"}
    /\ lineAge \in 0..Fresh /\ lastOk \in 0..DeleteAfter /\ keep \in 0..DeleteAfter
    /\ listed \in BOOLEAN
    /\ guard \in [at : {"fetching", "watching", "copying", "deleting", "dead"},
                  idle : 0..DeleteAfter, deletable : BOOLEAN, warned : BOOLEAN,
                  backup : {"", "verified", "nothing", "failed"},
                  cpu : {"good", "missed", "lost"}, busy : BOOLEAN,
                  failed : BOOLEAN, why : {"", "deadline", "idle"},
                  copying : 0..MaxPages, steady : BOOLEAN]
    /\ owes \subseteq {"guard", "run"} /\ faults \in 0..MaxFaults

\* What a shell that has not begun to watch, or will not again, knows.
Shell(at, cpu) ==
    [at |-> at, idle |-> 0, deletable |-> TRUE, warned |-> FALSE, backup |-> "",
     cpu |-> cpu, busy |-> FALSE, failed |-> FALSE, why |-> "", copying |-> 0, steady |-> FALSE]
NoRun == [phase |-> "none", step |-> 0, count |-> run.count, steady |-> FALSE]

\* The start command writes the first deadline, or removes what an earlier
\* start left.
GuardInit ==
    /\ container = "up" /\ mode \in Modes
    /\ due = [file |-> IF mode = "off" THEN NoDeadline ELSE Deadline("set", Window),
              guard |-> NoDeadline, ignored |-> FALSE,
              first |-> IF mode = "off" THEN 0 ELSE Window,
              cap |-> IF mode = "budget" THEN HardMax ELSE 0]
    /\ run = [phase |-> "none", step |-> 0, count |-> 0, steady |-> FALSE]
    /\ disk = [tree |-> FALSE, made |-> 0, volume |-> 0, backup |-> 0]
    /\ line = "none" /\ lineAge = 0 /\ lastOk = 0 /\ keep = DeleteAfter /\ listed = FALSE
    /\ guard = Shell("fetching", "good")
    /\ owes = {} /\ faults = 0

-----------------------------------------------------------------------------
(* The clock.  A unit passes when everybody has acted in the last one, and *)
(* the ten tries to fetch the guard end within the first.                  *)

Pass ==
    /\ container = "up" /\ owes = {} /\ guard.at # "fetching"
    /\ owes' = {w \in {"guard", "run"} :
                  IF w = "guard" THEN guard.at = "watching" ELSE run.phase # "none"}
    /\ due' = [due EXCEPT
                 !.file.left = IF due.file.is = "set" THEN Elapse(@) ELSE @,
                 !.guard.left = IF due.guard.is = "set" THEN Elapse(@) ELSE @,
                 !.first = IF mode = "off" THEN @ ELSE Elapse(@),
                 !.cap = IF mode = "budget" THEN Elapse(@) ELSE @]
    /\ run' = [run EXCEPT !.step = IF run.phase = "none" THEN 0 ELSE Min({@ + 1, StepMax})]
    /\ line' = IF lineAge < Fresh THEN line ELSE "none"
    /\ lineAge' = IF line' = "none" THEN 0 ELSE lineAge + 1
    /\ lastOk' = IF line' = "none" /\ run.phase = "none" THEN 0 ELSE Older(lastOk)
    /\ keep' = Older(keep)
    /\ UNCHANGED <<container, mode, disk, listed, guard, faults>>

Fault == faults < MaxFaults /\ faults' = faults + 1

-----------------------------------------------------------------------------
(* pod_run.                                                                *)

Says(status, ok) ==
    /\ line' = status /\ lineAge' = 0
    /\ lastOk' = IF ok THEN 0 ELSE lastOk

\* BackupList.refresh names the trees that are there.
Refresh == listed' = disk.tree

\* The list and the first progress line are written before the bootstrap.
RunStarts ==
    /\ container = "up" /\ run.phase = "none" /\ run.count < MaxRuns
    /\ run' = [phase |-> "boot", step |-> 0, count |-> run.count + 1, steady |-> TRUE]
    /\ Refresh /\ Says("bootstrapping", TRUE)
    /\ UNCHANGED <<container, mode, due, disk, keep, guard, owes, faults>>

\* BackupList.clear and the end of the progress line.
ClearsList == listed' = FALSE
Over(clears) ==
    /\ run' = NoRun
    /\ line' = "none" /\ lineAge' = 0
    /\ IF clears THEN ClearsList ELSE UNCHANGED listed
    /\ owes' = owes \ {"run"}

\* Refused or red: pod_run returns, after it has cleared the list.
BootRed ==
    /\ container = "up" /\ run.phase = "boot"
    /\ Over(TRUE)
    /\ UNCHANGED <<container, mode, due, disk, lastOk, keep, guard, faults>>

\* The orchestrator starts and makes the run's tree, and the first liveness ticks
\* find it; the moment between the first of them and the tree is left out.
BootGreen ==
    /\ container = "up" /\ run.phase = "boot"
    /\ disk' = [disk EXCEPT !.tree = TRUE]
    /\ run' = [run EXCEPT !.phase = "drive", !.step = 0]
    /\ listed' = TRUE /\ Says("ok", TRUE) /\ keep' = 0
    /\ owes' = owes \ {"run"}
    /\ UNCHANGED <<container, mode, due, guard, faults>>

Publish ==
    /\ container = "up" /\ run.phase = "drive" /\ disk.made < MaxPages
    /\ disk' = [disk EXCEPT !.made = @ + 1]
    /\ run' = [run EXCEPT !.step = 0]
    /\ UNCHANGED <<container, mode, due, line, lineAge, lastOk, keep, listed, guard, owes,
                   faults>>

\* The copy beside a stage has reached the volume.
Boundary ==
    /\ container = "up" /\ run.phase = "drive"
    /\ \E n \in (disk.volume + 1)..disk.made : disk' = [disk EXCEPT !.volume = n]
    /\ UNCHANGED <<container, mode, due, run, line, lineAge, lastOk, keep, listed, guard, owes,
                   faults>>

\* ProgressWatch: no new page for too long is stalled, too few are slow.
Judgements ==
    IF run.step > QuietLimit THEN {"stalled"}
    ELSE IF disk.made = 0 THEN {"ok"} ELSE {"ok", "slow"}

Report ==
    /\ container = "up" /\ run.phase = "drive" /\ "run" \in owes
    /\ \E status \in Judgements :
          /\ Says(status, status = "ok")
          /\ keep' = IF status = "ok" THEN 0 ELSE keep
          /\ run' = [run EXCEPT !.steady = @ /\ status # "stalled"]
    /\ Refresh
    /\ owes' = owes \ {"run"}
    /\ UNCHANGED <<container, mode, due, disk, guard, faults>>

\* ProgressTicker, through the bootstrap and the final copy: after LongStep the
\* last ok no longer moves.  The bootstrap may have come to its next step.
Ticker ==
    /\ container = "up" /\ run.phase \in {"boot", "sync"} /\ "run" \in owes
    /\ \E age \in IF run.phase = "boot" THEN {0, run.step} ELSE {run.step} :
          LET late == age > LongStep IN
          /\ Says(IF run.phase = "boot" THEN "bootstrapping"
                  ELSE IF late THEN "slow" ELSE "ok", ~late)
          /\ run' = [run EXCEPT !.step = age]
    /\ owes' = owes \ {"run"}
    /\ UNCHANGED <<container, mode, due, disk, keep, listed, guard, faults>>

\* The orchestrator has ended, however it ended; the final copy begins.
DriveEnds ==
    /\ container = "up" /\ run.phase = "drive"
    /\ run' = [run EXCEPT !.phase = "sync", !.step = 0]
    /\ Says("ok", TRUE)
    /\ owes' = owes \ {"run"}
    /\ UNCHANGED <<container, mode, due, disk, keep, listed, guard, faults>>

\* release_pod_guard: the deadline is moved to now, unless it cannot be read or
\* nobody would read it.  A guard is believed alive by its heartbeat.
Released(alive) ==
    IF \/ due.file.is = "junk"
       \/ due.file.is = "none" /\ ~alive
       \/ due.file.is = "set" /\ due.file.left <= 0
    THEN due
    ELSE [due EXCEPT !.file = Deadline("set", 0), !.ignored = FALSE]

SyncOk ==
    /\ container = "up" /\ run.phase = "sync"
    /\ disk' = [disk EXCEPT !.volume = disk.made]
    /\ Over(TRUE)
    /\ \/ UNCHANGED due
       \/ \E alive \in BOOLEAN :
             /\ guard.at = "watching" => alive
             /\ guard.at = "fetching" => ~alive
             /\ due' = Released(alive)
    /\ UNCHANGED <<container, mode, lastOk, keep, guard, faults>>

SyncFails ==
    /\ container = "up" /\ run.phase = "sync"
    /\ Over(FALSE)
    /\ UNCHANGED <<container, mode, due, disk, lastOk, keep, guard, faults>>

\* pod_run is killed: its files stay as they are.
Kill ==
    /\ container = "up" /\ run.phase # "none" /\ Fault
    /\ run' = NoRun
    /\ owes' = owes \ {"run"}
    /\ UNCHANGED <<container, mode, due, disk, line, lineAge, lastOk, keep, listed, guard>>

\* A unit in which pod_run writes no line.  When it is the progress check that
\* failed, the list is written first, and an earlier ok still holds the pod.
Silent ==
    /\ container = "up" /\ "run" \in owes /\ Fault
    /\ run' = [run EXCEPT !.steady = FALSE]
    /\ owes' = owes \ {"run"}
    /\ \/ UNCHANGED <<keep, listed>>
       \/ /\ run.phase = "drive" /\ Refresh
          /\ keep' \in IF line \in {"ok", "none"} THEN {keep, 0} ELSE {keep}
    /\ UNCHANGED <<container, mode, due, disk, line, lineAge, lastOk, guard>>

-----------------------------------------------------------------------------
(* A person.                                                               *)

\* A new deadline, or a mistyped one.
Extend ==
    /\ container = "up" /\ Fault
    /\ \E d \in {Deadline("set", Window), Junk} :
          due' = [due EXCEPT !.file = d, !.ignored = FALSE]
    /\ UNCHANGED <<container, mode, run, disk, line, lineAge, lastOk, keep, listed, guard, owes>>

Touch ==
    /\ container = "up" /\ Fault
    /\ keep' = 0
    /\ UNCHANGED <<container, mode, due, run, disk, line, lineAge, lastOk, listed, guard, owes>>

-----------------------------------------------------------------------------
(* The guard.                                                              *)

\* Fetched at last: with hours it keeps a sane deadline or writes its own, with
\* off it ignores what it finds.  Its first look at the counter may fail.
GuardStarts ==
    /\ container = "up" /\ guard.at = "fetching"
    /\ \E cpu \in {"good", "lost"} : guard' = Shell("watching", cpu)
    /\ LET own == IF due.file.is = "set" THEN due.file ELSE Deadline("set", Window) IN
       due' = IF mode = "off" THEN [due EXCEPT !.ignored = TRUE]
              ELSE [due EXCEPT !.file = own, !.guard = own]
    /\ UNCHANGED <<container, mode, run, disk, line, lineAge, lastOk, keep, listed, owes, faults>>

\* Never fetched, without a log it can write, or killed.
GuardDies ==
    /\ container = "up" /\ guard.at # "dead" /\ Fault
    /\ guard' = Shell("dead", "good")
    /\ owes' = owes \ {"guard"}
    /\ UNCHANGED <<container, mode, due, run, disk, line, lineAge, lastOk, keep, listed>>

\* The deadline file as a tick finds it.
Latest ==
    IF due.ignored \/ due.file.is = "none" THEN due
    ELSE IF due.file.is = "junk" THEN [due EXCEPT !.ignored = TRUE]
    ELSE [due EXCEPT !.guard = due.file]

Reads == {"busy", "idle", "unread"}

\* Mutant: a reading that fails never says anything.
CpuSilent(cpu, reads) ==
    IF reads = "unread" THEN [cpu |-> "missed", says |-> "nothing"]
    ELSE [cpu |-> "good", says |-> IF cpu = "lost" THEN "nothing" ELSE reads]

\* cpu_busy: one missed reading says nothing, a second in a row, or one with
\* nothing to compare, is busy; so is a first good one nothing.
CpuBusy(cpu, reads) ==
    IF reads = "unread"
    THEN IF cpu = "good" THEN [cpu |-> "missed", says |-> "nothing"]
                         ELSE [cpu |-> "lost", says |-> "busy"]
    ELSE [cpu |-> "good", says |-> IF cpu = "lost" THEN "nothing" ELSE reads]

\* Mutant: only a slow run is spared.
DeletableUnlessSlow == line # "slow"
Deletable == line \notin {"slow", "bootstrapping"}

\* Idle time: by the fresh line if there is one, else by the counters, and then
\* no longer than since the keep-alive was touched.
IdleFor(says, other) ==
    CASE line = "ok" -> 0
      [] line \in {"slow", "stalled", "bootstrapping"} -> lastOk
      [] line = "none" /\ (says = "busy" \/ other) -> 0
      [] line = "none" /\ says = "nothing" /\ ~other -> guard.idle
      [] OTHER -> Min({Older(guard.idle), keep})

MayDelete(idle, deletable, backup) ==
    idle >= DeleteAfter /\ LadderDelete /\ deletable /\ backup \in {"verified", "nothing"}

\* The ladder after its backup.
Climbed(g) ==
    IF MayDelete(g.idle, g.deletable, g.backup)
    THEN [Shell("deleting", "good") EXCEPT !.why = "idle", !.steady = g.steady]
    ELSE [g EXCEPT !.at = "watching", !.deletable = TRUE, !.copying = 0, !.steady = FALSE]

Ladder(g) ==
    CASE g.idle < WarnAfter -> Climbed([g EXCEPT !.warned = FALSE, !.backup = ""])
      [] g.idle >= BackupAfter /\ g.backup = "" /\ listed ->
            [g EXCEPT !.warned = TRUE, !.at = "copying", !.copying = disk.made]
      [] g.idle >= BackupAfter /\ g.backup = "" /\ ~listed ->
            Climbed([g EXCEPT !.warned = TRUE, !.backup = "nothing"])
      [] OTHER -> Climbed([g EXCEPT !.warned = TRUE])

Tick ==
    /\ container = "up" /\ guard.at = "watching" /\ "guard" \in owes
    /\ owes' = owes \ {"guard"}
    /\ due' = Latest
    /\ IF due'.guard.is = "set" /\ due'.guard.left <= 0
       THEN guard' = [Shell("deleting", "good") EXCEPT !.why = "deadline"]
       ELSE \E reads \in Reads, other \in BOOLEAN :
               LET c == CpuBusy(guard.cpu, reads) IN
               guard' = Ladder([guard EXCEPT !.cpu = c.cpu,
                                             !.busy = line = "none" /\ (reads = "busy" \/ other),
                                             !.idle = IdleFor(c.says, other),
                                             !.deletable = Deletable,
                                             !.steady = run.steady])
    /\ UNCHANGED <<container, mode, run, disk, line, lineAge, lastOk, keep, listed, faults>>

\* back_up ends: the trees were copied and compared at some moment since it
\* began, or one of the two failed.
BackUpEnds ==
    /\ container = "up" /\ guard.at = "copying"
    /\ \/ \E n \in guard.copying..disk.made :
             /\ disk' = [disk EXCEPT !.backup = n]
             /\ guard' = Climbed([guard EXCEPT !.backup = "verified"])
       \/ /\ guard' = Climbed([guard EXCEPT !.backup = "failed"])
          /\ UNCHANGED disk
    /\ UNCHANGED <<container, mode, due, run, line, lineAge, lastOk, keep, listed, owes, faults>>

\* shut_down asks again until the pod is gone; when three attempts have failed it
\* also asks for a stop.
DeleteFails ==
    /\ container = "up" /\ guard.at = "deleting" /\ ~guard.failed
    /\ guard' = [guard EXCEPT !.failed = TRUE]
    /\ UNCHANGED <<container, mode, due, run, disk, line, lineAge, lastOk, keep, listed, owes,
                   faults>>

\* The container ends with every process in it.
PodEnds(how) ==
    /\ container' = how
    /\ run' = NoRun /\ guard' = Shell("dead", "good") /\ owes' = {}
    /\ UNCHANGED <<mode, due, disk, line, lineAge, lastOk, keep, listed, faults>>

ShutDown ==
    /\ container = "up" /\ guard.at = "deleting"
    /\ PodEnds("gone") \/ (guard.failed /\ PodEnds("stopped"))

\* Mutant: a deadline that has passed is taken for no deadline.
BackstopAhead == IF due.file.is = "set" /\ due.file.left > 0 THEN due.file.left ELSE Window

\* The start command's own loop reads the same file, and falls back on the
\* first deadline when that holds none.
BackstopDeadline == IF due.file.is = "set" THEN due.file.left ELSE due.first

Backstop ==
    /\ container = "up" /\ mode # "off"
    /\ BackstopDeadline <= 0 - Grace \/ (mode = "budget" /\ due.cap <= 0)
    /\ PodEnds("gone") \/ PodEnds("stopped")

GuardNext ==
    \/ Pass
    \/ RunStarts \/ BootRed \/ BootGreen \/ Publish \/ Boundary \/ Report \/ Ticker
    \/ DriveEnds \/ SyncOk \/ SyncFails \/ Kill \/ Silent
    \/ Extend \/ Touch
    \/ GuardStarts \/ GuardDies \/ Tick \/ BackUpEnds \/ DeleteFails \/ ShutDown \/ Backstop

GuardSpec == GuardInit /\ [][GuardNext]_guardVars

\* Time passes, a living pod_run reports, the guard is fetched and ticks, and a
\* delete that is asked for again and again is answered in the end.  A backup
\* may hang, and so may everything pod_run does.
GuardFairSpec ==
    /\ GuardSpec
    /\ WF_guardVars(Pass) /\ WF_guardVars(Report \/ Ticker \/ Silent)
    /\ WF_guardVars(GuardStarts) /\ WF_guardVars(Tick)
    /\ WF_guardVars(ShutDown) /\ WF_guardVars(Backstop)

-----------------------------------------------------------------------------
(* Properties.                                                             *)

ContainerEnded == container # "up"

\* The ladder never deletes under a run that, from its start to the tick that
\* decided, reported in every unit and was never stalled: however long it is
\* slow, boots or copies, and whatever an earlier run on the pod left in the
\* guard's files (pod_guard.sh: "a slow stage still makes pages, so it is warned
\* about and backed up, never deleted").
SteadyRunIsSpared == guard.at = "deleting" /\ guard.why = "idle" => ~guard.steady

\* pod_run moves: a page, or a step within its time.
Moving ==
    \/ run.phase = "drive" /\ run.step <= QuietLimit
    \/ run.phase \in {"boot", "sync"} /\ run.step <= LongStep

\* A pod that bills and does nothing is warned about, whatever pod_run's files
\* say and however the counters fail: under a living guard, time and again the
\* pod works, or its counter is known to be lost, or the warning stands, or the
\* pod is being ended.
IdleIsNoticed ==
    []<>(ContainerEnded \/ Moving \/ guard.busy \/ guard.cpu = "lost" \/ guard.warned
              \/ guard.at \in {"deleting", "dead"})

\* A pod armed with hours ends, whether or not its guard ever ran and whatever
\* was typed into the deadline file.
ArmedPodEnds == mode # "off" ~> ContainerEnded

\* A rented pod does not bill unnoticed (pod_guard.sh): idle it is noticed, and
\* armed it ends.
NeverBillsUnnoticed == IdleIsNoticed /\ ArmedPodEnds

\* What config/spend.toml says of ladder_delete: "lets the guard delete a pod idle
\* for two hours, once its run tree is backed up".  When the ladder deletes, every
\* page is on the volume or in the backup.  The code does not keep it.
BackedUpBeforeDelete ==
    [][guard.at # "deleting" /\ guard'.at = "deleting" /\ guard'.why = "idle" =>
         disk'.made <= Max({disk'.volume, disk'.backup})]_guardVars
-----------------------------------------------------------------------------
(* The inductive strengthening of SteadyRunIsSpared.                       *)

\* A steady run's line is never older than the unit, so it is never taken for
\* missing, and says what may not be deleted or has no idle time.
SteadyIsTold ==
    run.steady =>
        /\ run.phase # "none"
        /\ line \in {"ok", "slow", "bootstrapping"}
        /\ lineAge <= 1 /\ ("run" \notin owes => lineAge = 0)

\* The guard that found a run steady only ever backs it up.
SteadyIsKept ==
    guard.steady => guard.at = "copying" /\ ~(guard.deletable /\ guard.idle >= DeleteAfter)

GuardInv == GuardTypeOK /\ SteadyIsTold /\ SteadyIsKept
=============================================================================
