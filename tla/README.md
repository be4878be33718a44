# Apparatus Verbatus: TLA+ models, checks and proofs

Apparatus Verbatus reads photographed register pages with several models and
delivers only readings it can account for. A run is a directory of immutable,
content-named records. Stages are separate programs that read the run tree,
publish records and seal what they published; a driver runs them in order;
people look at what a stage held, decide, and advance the run. Nothing locks
the tree, every program may be killed at any moment and started again, and the
tree alone says where the run is.

This directory models the parts of that design in which order, crashes and
concurrent actors matter most: how a stage seals and its reader trusts the
seal, how decisions and advances reach an export, how the Perlector resumes a
pass without asking a model twice, the window its calls run in, how the
engines share one GPU card, how a run is copied off a rented pod, and how that
pod is always ended and never billed unnoticed.

    tlc -workers 2 -config StageSeal_overlap.cfg StageSeal     # a run
    tlapm StageSealProofs.tla                                  # the proofs

`PROJECT.json` lists components, hazards, runs, mutants, findings, theorems,
and for each definition the lines it stands for.

## Inventory

| part | state | operations | hard behaviours |
|---|---|---|---|
| run tree store (`common/runtree`) | files, derived manifests, approval records | publish (create or find identical), write manifest, build manifest | two writers, a crash between file and manifest, files lost at rest |
| stage boundary (`common/stage.py`) | `decode-environment` and `stage-seal` attempts | open, publish, seal, finish; verify a predecessor's seal | overlapping passes, a death inside the seal, a reader that looks twice |
| Door, Exemplar, Ink map, Designator | images, regions | admit, decode, measure | sequential; the boundary is the shared one |
| Attestatores | witness records per page | calls in a window, tally, seal | as the Perlector's calls; rewrites the manifest before it seals |
| Perlector (`pipeline/4_perlector`) | send markers, retained replies, readings, accountings, act records | first readings, re-asks, re-reads, resume | a kill between any two records; replies out of order; a reply nobody names |
| call window (`common/in_order_window.py`) | a deque of jobs, calls in flight | draw, finish, drain, sweep | slow calls, errors in three places, interrupts |
| Recensor, review decisions | reviews, decisions record, links, receipt | measure, apply decisions, publish, seal | decisions about what has changed; half published reviews |
| operator (`decide.py`, `advance.py`) | approval records | prepare, record, show, advance | two people, a person who confirms late, a driver that runs meanwhile |
| Archetypus, Armarium | established readings, index, export | establish, export | late decisions, unsealed records, a stale advance |
| orchestrator | nothing of its own | run a selection of stages, stop at holds, resume | killed and resumed anywhere, from any stage |
| serving (`operations/serving`, `common/background_start.py`) | the card's lock file, the hand-off record, one manager per process | start (also in the background), take over, displace, hand off, stop | an interrupt during a start, a failed stop, a torn record, kills |
| pod (`operations/pod`) | lease record, supervisor identity, timer report, spend gate | launch, adopt, arm, heartbeat, claim, close, recover | three closers at once, stale owners, an unreliable provider |
| pod guard (`pod_guard.sh`, `pod_start_command.sh`, `progress_watch.py`) | progress line, keep-alive, backup list, deadline file, heartbeat | fetch, tick, warn, back up, delete, backstop, release | a run that is slow and not dead, counters that fail, files of an earlier run |
| pod run, run tree copy (`pod_run.py`, `common/runtree/sync.py`) | the volume's copy, the ledger | hydrate, plan, copy beside a stage, final copy | a copy beside a writer, lost pods and files, halts across pods |
| bake-off, corpus, gold, training, triage, submission, notification | offline tools | | |

What makes each correct:

* a seal states exactly the records of its stage; later ones state more; no
  reader accepts an older one or one the disk has outgrown;
* a person's hold holds until a person lifts it; a clearance clears what was
  seen and nothing else; disagreement holds;
* what is established rests on the last review of its unit and is not taken
  back; what is exported was reviewed, sealed and, where held, advanced;
* no page is asked twice while an answer to it is retained; a sealed pass
  accounts for each page and each reply;
* a window keeps its bounds, finishes in order and loses no drawn job;
* one engine is on the card at a time, and none is left that the next stage
  cannot find;
* a pod that may be let go of has all its files on the volume, and a run that
  halted stays halted wherever it is resumed;
* an idle pod is noticed and an armed one ends, and the guard deletes nothing
  that still works;
* every paid pod has an open lease first, one at a time, and is called closed
  only when it is gone; its supervisor and its timer come to an end.

## Modules

**StageSeal** is one stage's boundary. `published`, `envs` and `seals` are the
files, `named` is what the stored manifest names, `pass` holds each process's
place in `seal_boundary` and `finish` (list the seals, read the stored manifest,
compare the prior seal with the disk, witness, read the inventory, publish,
walk for the manifest, replace it: each is one step because each is one read or
one write of the disk, and another pass may come between any two) and the seals
its last walk found. `missed` is a history: seals that were lost while the
stored manifest named them. `reader` is one verification (`_verify_stage_seal`: list the seals, prove the attempts,
compare the inventory). Digests are injective, so a seal is the inventory and
the decoders it names. `ManifestFirst` says whether the stage rewrites its
manifest before it seals, as the Attestatores and the Recensor do. `Route`
distinguishes a reader that compares with the manifest it listed the seals
from ("snapshot", a stage opening its context) and one that walks the disk
again ("reread": an advance, the Armarium's side branch). Decoders change only
while no pass runs, since a process keeps what it loaded.

**ReviewDecisions** has no state: it is `common/review_decisions.py` as
operators over a derived review (a function from units to what the machine
found of each) and a set of decisions, with the tests of `common/page_review.py`
that decide whether an accepted reading can be exported. A basis digest is what
it digests; hold codes are strings, a handful of each class.

**ReviewDesk** puts it to work: readings, published reviews (one unit at a
time), people who prepare a decision from what is published and confirm it
later, re-reads a page decision asks for, and passes that measure a reading
anew (`measure` numbers the measurements, so a new one always differs).
`Decided` says what a pass run now would make of each unit. `seen` is a
history of what each person was shown. **MCReviewDesk** gives the readings.

**ReviewedRun** composes the Perlector, the Recensor, the Archetypus, the
Armarium, the driver and the people, over what the components leave on disk.
Each page has one unit; a seal is the records it was sealed over (StageSeal's
promise); the outcome of a unit is the part of ReviewDecisions that release,
hold and re-ask need. The Recensor plans, publishes each review, the decisions
record and the link, writes the receipt (which plans again from disk and
refuses a difference) and seals; each is a step at which the driver may be
killed. `Hasty` lets people decide while the driver runs. A decision's check
and its write are one step. An advance is three: the command reads the seal and
prints its digest (`Prompt`), the typed digest makes it verify the seal again
(`VerifySeal`), and it records the advance if the digest is still the stored
seal's (`RecordAdvance`); `stood`, a history, is what was held at the prompt.

**InOrderWindow** is `in_order_window` at widths above 1: the loop's two
halves, calls on their own threads, a popped job whose finish is running,
errors, the drain, an interrupt anywhere on the main thread, the sweep.

**PerlectorPass** is `read_the_pages` and its passes. A request is
`<<page, kind>>`, kind 1 the first reading, 2 the re-ask, 3 a person's re-read;
a reply is `<<request, session>>`, the session being the pass. A call records
its send, its reply's bytes, the call record that names them; the main thread
publishes the reading that names both, the accounting, each act record. The
pass may meet its deadline, be interrupted or be killed between any two; the
next one finds what is on disk (`Blocked` is `_left_to_send`'s refusal, `Stray`
is `_refuse_stray_attempts`). Left out: replies with the same bytes
(blobs are content-named, so two equal error bodies would be one file); a
page over capacity is only in `Unasked`; the window's bound on held replies
is InOrderWindow's; the chair's background start and its hand-off are
CardResidency's.

**CardResidency** is one GPU card and every process that serves a chair on it.
`holders` is who has the locked description of the lease file open: a launched
engine inherits it, so the lock outlives its manager. `mgr` is the manager's
place in `start`, `_adopt`, `_displace`, `stop`; `main` the stage's main
thread; `thread` and `abandoned` are `BackgroundStart`; `record` is the hand-off
file, which a kill may leave torn. An engine falls apart in steps (its server,
then its process group, then a stray that keeps the lock open). `loose` is a
history: engines that a killed process or an unverified stop left, which the
code itself reports as needing a person, and the engine of a process that
forgot its start. `forgot` is the history of those: a Coniector interrupted in a
join that `ready` or `settle` began by dropping the start (see *The Coniector's
join*). An interrupt may reach any process in any join. The orchestrator starts
one stage at a time; the pod's preflight may run at any time. Each chair has a
port of its own, so a launch looks only for a server of its own chair
(`Answers`).

**VolumeSync** composes `pod_run`, the orchestrator's loop, `RunTreeSync` and
the hard-failure cap over two disks. A file is `[bytes, time]` on the pod's
disk and bytes on the volume; an artifact's bytes say only whether it is a hard
failure, a manifest's are the set it lists. `sync` is the one copy there can
be: planned, copying, refused by a file, broken by the volume, copied. A pod or
its processes may be lost at any moment, a file lost on the volume between
copies, the volume full. A copy takes its files in the order of the walk and
with `COPY_WORKERS = 1`; the code's further workers may have linked a few more
files when one refuses, which the next copy finds identical. **MCVolumeSync**
gives the stages' files and the selections.

**PodLease** is one rented pod per lease and everybody who may end it: the
launcher (`launch.py`, `controllers.py`, `controller_armer.py`), whoever holds
the lease's kernel lock (`supervise.py`, or an operator's close), the timer in
the pod (`pod_timer.py`), each of which may be inside `VerifiedShutdown.close`
(`shutdown.py`). Each method of `LeaseStore` is one step, since it runs under
the store's file lock; each provider call is one step, and a supervisor's
heartbeat, its look at the pod and the close that follows are steps of their
own, since the lease or the pod may change between them. Time is the two facts
the code compares, deadline passed and heartbeat stale, which may change between any two
steps: a process may be as slow as it likes. The provider may lose or delay a
create or a termination, and one of its two views may call a living pod absent
(`LyingViews`); that both do is excluded by `ViewAssumption`, since the code's
proof of absence is that two independent views agree. **MCPodLease** adds
symmetry and keeps one of several leases busy at a time: leases meet only in
the spend gate and the open-lease check.

**PodGuard** is the guard in the pod (`pod_guard.sh`), the start command that
arms it and keeps a backstop of its own (`pod_start_command.sh`), and the side
of `pod_run` it watches: the progress line, the keep-alive, the list of trees
to back up, the deadline. Time passes in units of the guard's interval, in each
of which the guard ticks and `pod_run` reports, in either order; ages are
counted up to the last step of the ladder. `guard` is what the shell holds in
its variables, `Ladder` and `Climbed` the ladder before and after its backup,
`Released` what `pod_run` does to the deadline at its end. The counters fold
into one reading that is busy, idle or failed. Removing the line, clearing the
list and releasing the deadline at the end of a good run are one step
(`SyncOk`): no tick between them can delete what it would not delete before or
after.

**PaidPods** is the promise PodLease implements, as an account: an entry is
opened before its pod can appear, one entry is open at a time, an entry is
settled only after its pod is gone, and stays settled. `Account` in PodLease is
the refinement mapping (the lease's phase to the entry, the provider's truth to
what is paid), `AccountKept` the claim.

**SealedBoundary** is the promise of a stage boundary without its protocol:
records are only added, a statement has a later attempt and says strictly more
than every statement that is there, and a reader that walked the disk accepts only while some statement is
of exactly the records. Statements may be lost; once a record is lost nothing
more is promised. Two modules implement it. In StageSeal (`Boundary`,
`BoundaryKept`) the records are the artifacts, the statements the seals'
attempts and inventories, and the reader is one whose route is "reread". In ReviewedRun
(`Boundary`, `RecensorBoundaryKept`) the records are every attempt of a review,
a decisions record or a link with what it says (`Contents`), the statements the
Recensor's seals, and the reader is the Archetypus from its entry to its seal.
That is what justifies ReviewedRun's use of a seal as the records it was
sealed over: composed with people and re-reads, its seals still keep the
promise StageSeal's protocol gives.

## Runs

| run | module, cfg | bounds | shows |
|---|---|---|---|
| `seal_overlap` | `StageSeal_overlap` | 2 artifacts, 2 passes, 3 seals, 1 crash, manifest first, fair | `BoundaryKept`, `AcceptedIsCurrent`, `BoundarySettles` |
| `seal_loss` | `StageSeal_loss` | 1 artifact, 2 passes, 2 decoders, 2 seals, 2 files lost, 1 crash | `AcceptedNotBelowNamed`, `NamedSealNeverRecreated` |
| `desk_decide` | `MCReviewDesk`, `ReviewDesk_decide` | readings of every kind, 2 people (symmetric), 2 decisions, a re-read, 2 measurements | `DisagreementHolds`, `StoredIsApplicable`, `UnreadableNeedsText`, `UnitHoldStands`, `ClearedAsSeen`, `NoActPageWaits` |
| `run_holds` | `ReviewedRun_holds` | 2 pages, 2 readings, 1 decision at any time, 1 kill, fair | `EstablishedStands`, `ExportOfSealedReview`, `NoLateHoldDelivered`, `ReachesExport` |
| `window_order` | `InOrderWindow_order` | 6 jobs, one without a call, one slow, width 2, errors, interrupt, fair | `Bounded`, `NoneLeft`, `FinishedInOrder`, `SlowCallHoldsNobody`, `Ends` |
| `perlector_resume` | `PerlectorPass_resume` | 3 pages, one over capacity, width 2, 3 passes, 1 stop, fair | `NeverAskedTwice`, `SealedIsComplete`, `RecordsAgree`, `ReadsToTheEnd` |
| `card_share` | `CardResidency_share` | a Perlector, a Coniector, a preflight, 2 engines, an interrupt in any join, fair | `OneOnTheCard`, `NothingLeftRunning`, `ConiectorSealsClean`, `EveryStageEnds` |
| `volume_sync` | `MCVolumeSync`, `VolumeSync_pod` | 3 stages, 2 artifacts, 2 invocations, 1 fault, fair | `EndedHoldsAll`, `BehindByOne`, `OnlyManifestsRefused`, `HaltStands`, `DrivesEnd` |
| `pod_account` | `MCPodLease`, `PodLease_account` | 2 leases (symmetric), 1 further supervisor or operator, `get` may lie, 2 timer attempts | `ClosedMeansGone`, `FreshOwnerIsLeftAlone`, `AccountKept` |
| `pod_ends` | `PodLease_ends` | 1 lease, 1 further start, `list` may lie, fair | `DeadmanEnds`, `SupervisionEnds` |
| `guard_ladder` | `PodGuard_ladder` | 2 invocations of pod_run, 1 page, ladder at 1, 2, 3 units, 1 fault, fair | `SteadyRunIsSpared`, `NeverBillsUnnoticed` |
| `guard_backup` | `PodGuard_backup` | 2 pages, no faults, no deadline | refutes `BackedUpBeforeDelete` |

What they say in words: a comment above each property states it. `guard_backup`
checks what the repository's own documentation says (see below) and is refuted;
every other run passes.

Why the bounds are enough to meet the cases. Two passes and three seal attempts
let one pass seal twice over the other's stale attempt; two artifacts make a
stale, a partial and a full inventory; two losses let the newest and an older
seal go, after two passes whose manifests overwrote each other. A conflict needs two decisions; a page with an act
and a note beside it is the smallest on which excluding the last act leaves
something to accept. Two pages make one page break; two readings one
superseded generation. Two Perlector pages that are sent let a re-ask join
before the next first reading; a third pass reads again what a person asked
for after a pass that was stopped and one that resumed it.
Window sizes exceed the room (`HeldPerSlot * Width + Width`), so it is full.
Two engines let one be left while another starts; a Perlector, a Coniector and
a preflight make every pair that meets on a pod: hand-off, take-over, and a
foreign start between them. Three stages are the least in which one copy runs
beside a stage while an earlier one is already proved; two invocations with a
fault between or inside them give a resumed, a hydrated and a refused run. One
lease with the launcher, a further lock holder and the timer lets a claim
race a heartbeat and three closes overlap; two leases let a launch meet the
unproven close of another. The guard's ladder is one unit apart at each step,
so that every other limit (a fresh line, a long step, a quiet stage, the
deadline and the backstop after it) can fall before, at and after it; two
invocations let the second meet the files of the first. The second timer attempt and a further start make a
retry meet what was already done.

Deadlock is checked except where the system may stop for good: people may stop
deciding (ReviewDesk), a pod may be gone or a lease closed (PodLease,
PodGuard, VolumeSync), every process on the card may have ended (CardResidency).

Fairness. `StageSeal`: a pass that started runs on unless it dies, and the
driver is run again. `ReviewedRun`: the driver goes on while it runs, is
resumed from the Recensor again and again (strongly fair, since it is only
possible while nothing runs), and a person starts the advance command and types
the digest it prints. `InOrderWindow` and `PerlectorPass`: the main thread runs on
and every call ends, which the client's timeouts give; `Slow` exempts calls
from that. `CardResidency`: both threads of a process that was not killed are
scheduled, and each wait of the manager has a deadline. `VolumeSync`: the
copying thread, the driver and `pod_run` go on while their process lives;
faults and launches are not promised. `PodLease`: the lock's holder and the
timer go on while they live, the close loop ends by its own clock (strongly
fair, since its observations may go on between), and time passes; nothing is
asked of the launcher, of the provider or of a restart, so a termination may be
lost for ever. `PodGuard`: time passes, a living pod_run reports or is silent, the
guard is fetched and ticks, and a delete that is asked for again and again is
answered in the end; a backup (a `cp` with no timeout) may hang, and so may
everything pod_run does.

## What is proved

TLAPS proves these for every value of the constants (number of passes,
artifacts, attempts, jobs, widths, leases, restarts, processes, engines, pages,
decisions, stages, faults), from the named assumptions of the modules, which
say what the constants are (`BoundsAssumption`, `NoneAssumption`,
`ManifestFirstAssumption` of StageSeal; `SizesAssumption`, `SilentAssumption`,
`FailuresAssumption` of InOrderWindow; `LeaseAssumption`, `ViewAssumption` of
PodLease; `GuardAssumption` of PodGuard; `CardAssumption` of CardResidency; `OverridableAssumption` of
ReviewDecisions; `ChoicesAssumption`, `ReviewsAssumption` of ReviewDesk;
`VolumeSyncAssumption`, `AbsentAssumption` of VolumeSync; `BoundsAssumption`,
`UnaskedAssumption`, `NoneAssumption` of PerlectorPass; `RunAssumption`,
`NoneAssumption` of ReviewedRun). Three of them say something of the code
besides: `ViewAssumption`, that a fault never corrupts
both of the provider's views; `GuardAssumption`, that a line counts as fresh
for longer than one tick of the guard (300 seconds against 60, in the defaults
of `pod_guard.sh`), that the steps of the ladder come in their order and that
the hours granted are within the hard limit; and
`OverridableAssumption`, that what a person
may confirm of a page ("page-blank", "no-act-on-page") is not among the holds
that bar an export, as the table of `common/page_review.py` has it.

*StageSealProofs.* `BoundaryInvariant`: `Spec => []BoundaryInv`. `SealsGrow` is
not inductive by itself: a pass may publish a seal it computed long before. The
invariant adds that a pass which holds an attempt found every earlier attempt
on disk, that the inventory has outgrown each of them since (artifacts are only
added while a pass runs) and that the payload it holds lies between
(`AttemptSound`, `PayloadSound`); that a seal's witness is on disk and agrees
(`SealsStated`); that a reader's copy is still on disk (`ReaderSound`); and, for
a stage whose manifest follows its seal, what survives manifests that overwrite
each other: a seal that is lost while named stays named, because a pass that
reads the stored manifest afterwards is refused before it walks for its own
(`ManifestSound`, `ManifestRead`), and what a walk found is there while passes
run (`WalkSound`). From it: `TypeCorrect`, `SealsAlwaysGrow`,
`TwoReadsAcceptOnlyCurrent`, and, assuming `~ManifestFirst`,
`AcceptsNothingBelowNamed` and `NamedSealsStayGone` (the assumption is needed:
see *Manifest first* below; and neither says that a manifest names every seal:
see *A manifest that forgets*). The refinement `StageKeepsTheBoundary` follows from
the same invariant, step by step: a seal that is published fills the attempt
after all those there are, with an inventory that outgrew theirs (`SealIsStated`);
a reader that walked the disk compares with a seal that is still there
(`AcceptanceIsStated`); a lost seal is a lost statement.

*InOrderWindowProofs.* `WindowInvariant`: `Spec => []WindowInv`. The bound rests
on `LookedUp` (the calls counted in the loop's first half are still those of the
window when a job is drawn, though they may have returned since), the order on
`Settled` (what is left of the window is finished, raised or popped). `Swept`
follows an interrupt: what had arrived when it came is finished, raised or
still in the window. From them: `TypeCorrect`, `NeverOverfull`, `NoJobIsLost`,
`OrderIsSerial`.

*PodProofs, the leases.* `Spec => [](Typed /\ IInv)`. That a verified close is true is
not inductive: it rests on who may be closing at all. `IInv` says, of each
lease, where its launcher can be (`InvLaunch`: it holds the spend gate, and
reserves only while no lease is open), that whoever claims, binds, beats or
closes does so over a pod that once existed (`InvWatch`), that a close past its
proof of absence has a pod that is gone, which no step undoes (`InvPod`), and
that one lease is open (`OneOpen`). `ViewAssumption` is used once, where the
two views agree. From it: `TypeCorrect`, `VerifiedCloseIsTrue`, `NeverTwoPods`,
`FreshOwnerSafe` and the refinement `LeasesKeepTheAccount`: every step moves at
most one lease, and in one of the ways `PaidPods` allows.

*PodProofs, the guard.* (One module holds the proofs about both sides of a
pod: who ends it from outside, and the guard inside it.) That a steady run is
spared is a claim about a guard that looks at most once a unit at a line written
by somebody else, so two facts carry it. `SteadyIsTold`: the line of a steady
run says ok, slow or bootstrapping, and is at most one unit old, less once the
run has reported in this unit; so the guard never takes it for missing.
`SteadyIsKept`: a guard that found a run steady has not let go of it only while
it is inside a backup, and what it found was not both deletable and idle long
enough. `GuardInv` joins them to the types; a tick keeps them because neither
side of the ladder's backup turns such a finding into a delete (`LadderSpares`),
well or ill as the backup ends (`SteadyStep`). From it: `GuardTypeCorrect`, `SteadyRunAlwaysSpared`.

*CardResidencyProofs.* The file lock by itself does not say who may unlock it:
`IInv` adds that an engine that runs has the locked description open, at most
one engine has, nobody else has between the lock and the launch, a manager
shares it with its own engine alone, and one about to unlock has an engine that
does not run. From it: `TypeCorrect`, `NeverCoResident`. What is left running
needs `LInv` besides: who is active, what the record says while it is written
or consumed, and that after the main thread has closed only an abandoned start
can still bring the chair up, and stops it, or has been forgotten (`forgot`). From it, for
interrupts in any join: `NothingIsLeft`, `ConiectorClears`, each with the
exceptions its property names (`loose`).

*ReviewDeskProofs.* The outcome of a unit is computed from what is there now, a
decision binds to what a person was shown. `Bound` (`DecisionsBind`) relates
the two through what is published: what a person prepared, and what is stored,
binds to a review no newer than the published one, which is no newer than the
measured one; of two stored decisions about a unit the later never binds to an
older measurement; and what was stored was allowed by the review it binds to.
From it, with lemmas about the rules that hold of any review and decisions
(one current decision is that decision, several that differ are a conflict; a
unit left a code is held and no release takes that back; a page's clearance is
one of a page decision bound to exactly these units and exclusions):
`DisagreementAlwaysHolds`, `StoredAlwaysApplicable`, `HoldAlwaysStands`,
`AlwaysClearedAsSeen`, `NoActPageAlwaysWaits`, `UnreadableAlwaysNeedsText`.

*VolumeSyncProofs.* The argument is about what a time says. `Inv`: a line of
the ledger, a file a worker linked and a file the copy passed over are each
held by the volume (or were lost there) as long as the file's time is the one
they name, and times only grow (`Copies`); the copy of the stage before is
planned over its files as they are, until it is joined (`Driven`); what is on
both disks agrees, except for manifests (`WrittenOnce`); a reported halt is
still a breach of what is on the disk or, between invocations, on the volume
(`StaysHalted`). From it: `CopiesAreTrue`, `EndedAlwaysHoldsAll`,
`AlwaysBehindByOne`, `OnlyManifestsAreRefused`, `HaltAlwaysStands`.

*PerlectorPassProofs.* A reading is never replaced, and with it what is planned
for its page is fixed, so a record that agreed with the readings when it was
written agrees for ever. `Inv`: a reading names the one reply its request ever
had (`Named`), records rest on readings (`Sent`, `Acts`); what a phase has
still to draw was never answered, if it would be sent (`ToDraw`); what waits in
the window or on the main thread has no reply but this pass's, and each is
named once its call is over (`InFlight`); what was drawn and does not wait is
finished (`Progress`). `NeverAskedTwice` needs all of it: that a request to be
sent has no reply is known at the phase's entry (`_left_to_send`) and must
survive the phase, a re-ask that joins the first readings included. From it:
`RecordsBind`, `SealedAlwaysComplete`, `RecordsAlwaysAgree`, `NeverPaidTwice`.

*ReviewedRunProofs.* Once a reading is established no decision is stored any
more, so a pass of the Recensor plans what the sealed reviews say and publishes
nothing (`Frozen`), unless a page was read again since or a decision came
between the Archetypus's check and its first reading (`Stuck`); and then the
decisions record would change, and the pass is refused (`TooLate`). `Inv` is
what that rests on: the last seal is of no more than there is, and of the
reviews its own decisions make of the readings that are there (`SealTrue`); a
pass carries the plan of decisions that are stored (`PassTrue`); whatever is
established stands on a verified seal (`Standing`). A seal, once outgrown, is
never again of exactly what there is, since records are only added
(`Outgrown`); so a seal that verifies has nothing held under it but what was
held when its digest was printed (`Stood`). From it: `RunHolds`, `TypeCorrect`,
`EstablishedAlwaysStands`, `ExportsSealedReviews`, `NoLateHoldIsDelivered`.
The refinement `RunKeepsTheBoundary` needs besides that the seals are nested
(`Nested`): what a pass writes is appended, never replaced (`ContentsGrow`), and
an inventory that lists the same things is the same (`ContentsTell`), so a seal
is minted only of more than all before it. No run checks `RecensorBoundaryKept`;
TLC found it true on the instance of `run_holds` before it was proved.

Each inductive invariant was checked by TLC on its run's instance, or a smaller
one, before it was proved.

Only model-checked: liveness (`BoundarySettles`, `ReachesExport`, `Ends`,
`SlowCallHoldsNobody`, `ReadsToTheEnd`, `EveryStageEnds`, `DrivesEnd`,
`DeadmanEnds`, `SupervisionEnds`, `NeverBillsUnnoticed`), since the prover has no fairness or ENABLED.
Every safety property of a passing run is a theorem, two of them
(`AcceptedNotBelowNamed`, `NamedSealNeverRecreated`) under `~ManifestFirst`, as
in their run.

## Known divergences

One is a run of its own (`guard_backup`, and the entry of `findings`). A run whose
final copy failed leaves `backup-<pod id>` behind, so that the guard backs up
its tree. A second `pod_run` on that pod that is refused, or whose bootstrap is
red, clears the list (`operations/pod/pod_run.py:2146`, 2160, 2214), though the
first run's pages are still only on the pod's disk. The ladder then finds
nothing to back up, and deletes the pod and the pages with it.

The following were met while modelling; the models contain them, and the
properties that pass are stated so as to be true beside them.

* *A manifest rewritten beside a copy.* A stage that runs again rewrites its
  manifest, a new file with a new time even when its bytes are the same
  (`common/runtree/store.py:1552`). The copy of an earlier boundary that runs
  beside it has planned the old one and is refused as "local run file changed
  during copy" (`pipeline/orchestrator/run.py:834`): the run stops as fatal,
  though nothing on its disk differs from the volume. Resuming it succeeds or
  meets the same race (`OnlyManifestsRefused` allows it).
* *A backup of an hour ago.* The guard backs up a pod whose run is `slow`, keeps
  that verdict, and deletes at once when the run, having published more pages,
  is stalled (`operations/pod/pod_guard.sh:377`). It also acts after a long
  backup on a `deletable` it read before it.
* *The keep-alive.* While a fresh `stalled` line decides, a touch of the
  keep-alive changes nothing (`pod_guard.sh:429`), though
  `operations/pod/README.md:80` says that it restarts the ladder.
* *A counter that is lost.* Two failed readings of the CPU counter in a row count
  as work until it can be read again, which is announced at most once an hour
  (`pod_guard.sh:222`). `IdleIsNoticed` excuses the time it is known to be lost.
* *Manifest first.* The Recensor and the Attestatores rewrite their manifest
  before they look for deleted seals, so a seal lost at rest is forgotten and
  can be written again (`pipeline/5_recensor/run.py:266`).
  `NamedSealNeverRecreated` is checked and proved for the stages that seal first.
* *A manifest that forgets.* `write_manifest` walks the stage and then replaces
  the manifest, with no lock between (`common/runtree/store.py:1548`). When a
  pass that outlives its driver walks, a second pass mints seal n and writes its
  manifest, and the first then writes its own, the stored manifest no longer
  names seal n. Lost then, seal n is minted again, which `seal_boundary`'s
  docstring (`common/stage.py:633`: a missing seal "that a prior manifest
  names is refused, never recreated") excludes. A reader that begins after the
  overwriting has the same blind spot. `NamedSealNeverRecreated` and
  `AcceptedNotBelowNamed` speak of what the stored manifest names at the loss,
  and when the reader begins.
* *Leftover witness.* A pass dies between decode-environment n and seal n, the
  decoders are upgraded, and every later pass finds other bytes under attempt n
  and refuses (`common/stage.py:661`).
* *A page's hold.* `no-missed-act`, then an exclusion of an act, then
  `missed-act`, then a hold on the excluded act: the page has its first basis
  again, the first clearance is current again and the `missed-act` hold is
  dropped (`common/review_decisions.py:639`; `pipeline/5_recensor/page_review.py:38`
  says a stale decision "keeps any hold it raised"). The holds of units do stand
  (`UnitHoldStands`).
* *A late decision.* Between the Archetypus's check at entry and its first
  reading a decision can still be stored; it reaches nothing and stops every
  later pass (`operations/operator/decide.py:236`,
  `pipeline/6_archetypus/run.py:658`). `ReachesExport` allows for it (`TooLate`).
* *Held totals.* `held_by_recensor` counts continuation links of superseded
  readings, which the pass itself does not, so a run that holds nothing stops
  until a person advances it (`common/page_review.py:722`).
* *An empty export over unseen holds.* A Recensor pass killed between its
  reviews and its seal leaves an advance of the old seal valid, and an Armarium
  resumed directly exports over the new holds
  (`pipeline/7_armarium/run.py:1767`). It delivers no reading then
  (`NoLateHoldDelivered`).
* *An advance does not show the holds.* The advance command prints the current
  seal's digest, the inventories' digests and a census of outcomes, and the
  person types the digest (`operations/operator/advance.py:98`,
  `operations/operator/cli.py:1407`); which units are held is shown by
  the `review` command, which nothing obliges them to use. A person who reviewed seal 1
  and, after a pass that added a hold, advances seal 2 has passed a hold they
  never read. What the code does ensure is `NoLateHoldDelivered`: no hold that
  came after the prompt.
* *An interrupt inside a finish.* The popped job is in neither the window nor the
  records, and its reply is lost (`common/in_order_window.py:42`). `NoneLeft`
  covers the others.
* *The Coniector's join.* Its `ready` and `settle` forget the background start
  before they join it, so an interrupt there leaves the engine running with no
  record of it (`pipeline/4b_coniector/run.py:165`), and a later Coniector can
  seal beside it. The Perlector's chair keeps its start until the join has
  returned. The model contains it; `NothingLeftRunning` and
  `ConiectorSealsClean` name that engine as an exception.
* *A held stage that publishes more.* A stage that was held, copied and run again
  on the same pod has a manifest that differs from the volume's. The copy and
  the next hydration refuse it for good, since neither replaces a file on the
  volume (`OnlyManifestsRefused` allows it).

## Not modelled

Image decoding and measurement (Exemplar, Ink map, Designator), the page
accounting's rules over boxes and text, prompts, export formats, the console's
screens, notifications and the offline tools: functions of data, or input and
output, without the interleavings a model checker is for. They are most of the
repository's lines. The verdict of the page accounting, the Recensor's
measurements and which artifacts are hard failures are inputs of the models
above. The provider's HTTP client is the environment of PodLease; price,
balance and spend are inputs with two outcomes. Publishing under power loss
(the order of fsync and link) needs a model of the file system; a publication
is one atomic step, as it is for processes.

## Plan

Done: StageSeal, ReviewDecisions and ReviewDesk, ReviewedRun, InOrderWindow,
PerlectorPass, CardResidency, VolumeSync, PodLease and PaidPods, PodGuard,
SealedBoundary; proofs of all of them but the pure operators of ReviewDecisions,
whose lemmas are among ReviewDesk's, with both refinements of SealedBoundary and
the one of PaidPods.

Next, in this order:

1. The bake-off queue's lanes (`operations/bakeoff/queue_runner.py`) and the
   model store's concurrent materialisation.
2. A model of publication over a file system that loses what was not flushed
   (`common/runtree/store.py`, `common/durability.py`), which the one hazard no
   property covers asks for.
