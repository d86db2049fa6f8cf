# Verification of vm-replication

TLA+ models of `Tiny125/vm-replication`, TLC configurations that check them on
small instances, and theorems that TLAPS proves for every instance.
`PROJECT.json` lists the runs, says for every definition which lines of `src/`
it models, and names the hazards of the code and the properties aimed at them.

Run from this directory:

    tlc -workers 2 -config Cutover_frozen.cfg MCCutover
    tlapm CutoverProofs.tla

Lines of the source are quoted with these letters: A `cmd/agent/main.go`,
R `internal/receiver/receiver.go`, M `internal/appliance/migrations.go`,
SV `internal/appliance/server.go`, CS `internal/appliance/cutover_stream.go`,
CO `internal/appliance/console.go`, D `internal/cbt/dmera.go`.

## 1. The system

vm-replication copies the disks of a running server to volumes attached to an
*appliance*, keeps them up to date, and finally cuts over: it makes the copy
bootable, clones it and launches an instance from the clone.

| Component | State it keeps | Operations | Module |
|---|---|---|---|
| **Source check** (`sourcecheck.go`) | tokens, probe listeners, reports (memory) | mint a token, serve the script, take its report, expire | `SourceCheck` |
| **Provisioning, enrollment** (`migrations.go`, `enroll.go`) | migrations, disks, ports and volume ids (store); receivers (memory) | create with roll-back, install and remove agents, delete, close, restart | `Onboarding` |
| **Agent** (`cmd/agent`), started by a systemd timer every 60 s, one pass per start | the checkpoint manifest on the source's disk: a hash for each block | read, compare, send, commit the checkpoint; re-read from a snapshot when bounced | `Replication`, `Quiesce` |
| **Change tracker** (`internal/cbt`) | the dm-era device's era, the saved era | candidates, checkpoint | `DMEra` |
| **Source snapshots** (`internal/snapshot`) | frozen or read-only filesystems, an LVM snapshot, a quiesced application | prepare, clean up, watchdog | `SourceSnapshot` |
| **Receiver** (`internal/receiver`), one accept loop per disk | the session, the staging file of a delta, the target device | handshake (reject, hold, bounce, accept), stage or write blocks, apply, sync, acknowledge | `Replication` |
| **Appliance, replication side** (`migrations.go`) | which disks are asked for a consistent pass and what came of it (memory); `full_sync_done`, the gate (store) | start and pause, record passes, request and clear consistency | `Quiesce`, `Replication` |
| **Appliance, cutover side** (same file) | the migration's state and artifacts (store); the cancel function of the run, the phase-1 conversion (memory) | start, complete, stop, delete, close; the goroutines `finalize` and `finalizeComplete` | `Cutover` |
| **Local-disk boot** (`cutover_stream.go`, `diskboot_multidisk.go`, `finalizeDisk`) | copy tokens and commands (memory and settings) | register, restore, look up, drop; rescue guest, power-off | `DiskCutover` |
| **Audit log** (`audit.go`) | a channel, rows, the uploader's watermarks, a bucket | record, flush, create, refresh and delete the bucket | `Audit` |
| **Store**, **Linode client** | SQLite rows; volumes, instances, plans, objects | what the handlers above do with them | in each |
| Fleet control plane, console, TLS, scripts, diagnostics | reports, text, certificates | – | section 6 |

**How they interact.** The script of the source check and the agent's
installation command come from the appliance. Agent and receiver talk over one
connection per pass: `Hello`, `HelloAck`, blocks in device order, `Done`,
`DoneAck`. The receiver calls back into the appliance at the handshake (identity,
gate, consistency request) and after a complete pass (`RecordDiskSync`,
`markDiskConsistent`). The operator's HTTP handlers start and cancel cutover
goroutines; those share the store's row, a few maps under `recMu`, the receivers
and the target device with the handlers and with each other. A rescue guest in
the cloud fetches the image with a token, and tells that it is done by powering
itself off. The audit uploader and the bucket's handlers share settings only.

**What is hard.** The agent and its host die at any point (being powered off is
part of the procedure); acknowledgements are lost; the source changes under a
live pass; a pass may be in flight while the target is frozen; Stop, Delete and a
second Start overlap a run that looks at its context only here and there; a
goroutine's deferred clean-up meets its successor; things are made in the cloud
in one step and recorded in another; the appliance restarts with half of its
state in memory; commands on the source fail half-way.

**What makes each component correct.**

- *Source check*: the two copies of its rules agree; what is reported blocked is.
- *Onboarding*: every volume is some row's; a creation leaves all or nothing;
  receivers and rows match; sizes rounded in three places still fit.
- *Agent, receiver, checkpoint*: the checkpoint never claims what the target does
  not durably hold; a pass lands whole or not at all; the target catches up.
- *dm-era*: every block that differs from its last sent content is a candidate.
- *Source snapshots*: the source gets back what was taken from it, in whatever
  step something fails; a pass that claims one instant reads one.
- *Consistency request*: what was captured on every disk together stays what the
  target holds until the cutover is through with it; no request outlives its
  cutover; a pause stops passes; every source that can answer does.
- *Cutover*: it is safe to power off when the console says so; what is cloned is
  one pass and its conversion; a launched migration has its instance; clean-up
  never goes by what is gone; a run ends in a state of rest.
- *Local-disk boot*: what is launched holds the whole image; a token works
  exactly while its cutover waits for the copy; nothing made is left unrecorded.
- *Audit*: what counts as uploaded is in the bucket, in the end everything is,
  and a bucket that was deleted is gone.

## 2. The modules

Each model is a module of its own with the component's state as variables, one
action per operation, handler or step, and an MC module with a configuration
beside it. An action is the code between two points where another actor can get
in; history variables, declared apart, only observe. `TargetImage` is the
abstract contract `Replication` implements, `ConsistentPass` the promise a disk
makes a cutover, which `Replication` and every disk of `Quiesce` implement, `EraState` the state of `DMEra` and what
is right about it; a module `XProofs` holds the theorems about `X`, and
`SourcePassProofs` those about `SourceSnapshot` and `DMEra`, the two halves of what a
pass reads.

### Replication, with TargetImage and ConsistentPass

One disk's data plane. A block's content is a number and stands for its SHA-256
too, so collisions are excluded. Blank (0) is what a new volume holds and what
`NewManifest` fills a manifest with. A pass reads the device in ascending order
and sends a block at most once, so the frames on the wire (`wire`) and the
records of the staging file (`stage`) are functions from blocks to contents,
consumed smallest block first.

| State | In the code |
|---|---|
| `src`, `img` | the device; the snapshot a consistent pass reads |
| `manifest`, `next` | the checkpoint file; the manifest `replicate` builds |
| `agent`, `cur` | where `run`/`replicate` is; the loop's index |
| `conn`, `wire` | agent's end open, `Done` sent, `DoneAck` under way; block frames |
| `rcv`, `stage` | where `Handle` is; the staging file |
| `dev`, `vol` | the target as read back; what of it survives a host crash |
| `app` | `consistReq`, `consistDone`, `full_sync_done` |

`Prepare`, `ProcessBlock`, `SendDone`, `ReceiveDoneAck`, `SaveManifest` (atomic:
temp file, sync, rename) are the agent; `HandleHello`, `BounceHello`,
`RefuseHello`, `ReceiveBlock`, `ReceiveDone`, `ApplyRecord` (one record of
`stage.Apply`), `SyncTarget`, `SendDoneAck`, `RecordDiskSync`, `MarkDiskConsistent`,
`AbortSession` the receiver. A consistent pass is found wanted and its disk is marked
under two locks (M:165, 166), in two steps: a request may be dropped, or made anew,
in between. Faults: `AgentStops` (what it had sent arrives up to some block),
`SessionFails` (any early return of `Handle` after the acceptance),
`ApplianceRestart`, `HostCrash` (with `Writeback` deciding what is durable). A
failed delivery to a peer that is gone may look like success to the sender.

### Quiesce

All the disks of a migration, each with an agent (`mechanism` says what it can do
about a consistent pass: pinned to snapshots, LVM, remount read-only, nothing),
and the runs of `finalize` up to the frozen target, with the gate that Start and
Pause move. Agent and receiver are one process, as a receiver serves one session
at a time; but the session looks at the gate (`Handshake`) and at the request
(`HelloAck`) apart, and its callback runs on beside the agent's next attempt. `req`,
`done`, `refused` are the three maps under `recMu`; `marking` is what the callback has
found wanted (`Lands`, `ReportsRefusal`) and will record (`Marks`) whatever becomes of
the request by then. A bounced agent tries again at once, a failed second try of a
remounting agent is reported (`ReportsRefusal`). Stop cancels, clears the requests, and the run notices where
it looks at its context. `TimesOut` is the six-minute deadline; it is not fair.

`Quiesce` says of a pass only whether it is of one instant; `Replication` knows
what every block holds, but of a cutover only that it asks and stops asking. What
holds the two together is `ConsistentPass`, with three variables and four actions:
a disk is asked (`Ask`), takes passes (`Take`), is marked while the target holds one
of a single instant (`Mark`), and is let go (`Drop`); asked and marked, it takes no
other kind. A mark may come late, when nobody asks any more; `Ask` lifts it. `want`, `marked` and `atOnce` are `req`, `done` and
`landed = "consistent"` of a disk in `Quiesce`; in `Replication` they are `app.want`,
`app.marked` and whether the target's image is a content its source has had, on all
blocks at one time (a target that holds no image, since a baseline is still writing
it, is not held against the disk).

### Cutover

`finalize` and `finalizeComplete` are runs with a place `pc` and a flag `live`,
their context; an action ends where the code waits, calls the cloud, writes the
store or looks at the context. A handler reads the row and looks at it, writes it,
and deals with what is in memory or in the cloud, with room for a run or for another
handler between any two of these. Any number of handlers are under way at once: Start
and Complete (`Admit`, then `Accept`, which writes without another look, then
`LaunchRun`; the place of the run they are to start is theirs until then), the Stops
(`stop`: `AdmitStop`, `StopCancels`, `StopMigration`, `StopReopens`), Delete and Close
(`removing`: `RemoveMigration`, then `RemoveRow`, which may fail). Likewise a run's clean-up deletes first
and clears the row after (`CleanBegins`, `CleanEnds`), and `s.fail` may come
after a cancel that the look at the context preceding it did not see (`RunFails`).
The target is abstracted to what has been laid upon it: whole passes
(`"replica"`), a conversion begun or ended on them, or a mixture, which is what
writing a pass over a conversion, or either under the other, makes. `recorded` is
what clean-up goes by (the disk's `artifact_id`, `launched_id`), `cloud` what
exists; a clone or instance carries the run that made it. Clone labels are
deterministic, so a clone left over keeps the next from being made.
`ConsoleOnly` restricts `StartMigration` to the states in which the console shows
the button; the handler itself does not look at the state. `MayOverrun` says
whether the drain's grace (3 minutes) may run out on a session that is applying
its pass; severing its connection does not stop that. `MayStopLate` says whether a
Stop may come when it can no longer put everything back (`StopsLate`). `MayRace` says
whether a Start or a Complete may write migrating when the migration has moved on since
it looked, or over a Stop that has yet to bring the receivers back (`Overtaken`).

### DiskCutover

`finalizeDisk` from the clones of the data disks to the launch: the rescue guest
that is told to fetch the image, its download, a power-off whose cause the
appliance cannot see, the watchdog that is switched off for it, the copy budget
and the token's life (`late`), the token in memory (`register`), in the card's
command and in the settings (`saved`), a restart that restores both from there
and leaves nobody waiting (`stranded`), stops. A run, its instance, its token and
its clones go by one number.

### Onboarding

Creations by form: rows and disks inserted, each disk's volume created, recorded,
awaited and attached, the roll-back of a failed one, a client that leaves;
cutovers, and the Stop of one (`StopsCutover`, then `Reopens`); deletions; the removal
of the Linode token; agents installed and uninstalled; receivers started by whoever
starts them (`Listening`: a creation, a Stop, a restart), and an appliance deployed
anew with an empty database over the same account. A store write may fail, also where
its error is not looked at (`Opens`, `Unrows`, `StopsCutover`) and where it is answered
with what has been cleaned up already (`DeletesRow`); so may a receiver's start, which
is only logged. Sizes are bytes: `VolumeSize` rounds up to GiB with a floor, `Admits` is
the tolerance of the identity check, `PlanOf` picks the plan.

### DMEra

The kernel's era per era block, the agent's kept era, the pass's candidates and
the manifest, byte by byte, since the two block sizes need have no common
multiple. The metadata snapshot is a flag the target refuses to set twice. A pass
reads the device as it is, or an LVM snapshot of it (`imaged`), which
`prepareSource` takes before it asks the tracker for anything; `behind` is what the
source has written since. `EraState` has the state, the geometry and the
properties, `DMEra` the steps.

### SourceSnapshot

`Prepare` in each mode, with hooks, freezing, nested mount points remounted
deepest first and restored shallowest first, an LVM snapshot, the watchdog, the
cleanup when the pass ends, a kill. A thaw, the agent's or the watchdog's, first
disarms the watchdog (`Disarms`) and then runs `fsfreeze -u` (`ThawEnds`), which may
hang or fail. A signal during the pass starts a goroutine (`handler`) that runs the same
cleanup, once, while the pass goes on, until it exits the process. Every command may
fail, the hooks too; `failed` remembers what was tried to undo in vain.

### SourceCheck

Tokens with their probe listener and the port in their script, runs of the
command, the facts of a source (whether its root is traced to a device, and that to
a disk, decides which of the others are looked for), the script's verdict in bash (`ScriptVerdict`)
and the console's in Go (`AssessSource`), each translated from its own text; ports
that receivers hold, a firewall that opens, expiry, restarts.

### Audit

The buffered channel, the rows (per stream, by their number), the uploader with
its watermark read before the text, the bucket and its record in the settings,
the handlers with calls that fail or whose answer is lost.

## 3. The runs

| Run | Question | Bounds |
|---|---|---|
| `replication_faults` | checkpoint durability and catching up under deaths, restarts, host crashes | 2 blocks, 2 contents each, 1 agent fault, 2 receiver faults, 1 refusal, 1 forced full sync, 1 request |
| `replication_contract` | refinement of `TargetImage` and `ConsistentPass`, the frozen instant, the recorded baseline | 2 blocks, 2 contents, 2 agent faults, 1 refusal, 1 forced full sync, 1 request |
| `replication_aba` | a block that changes back: the checkpoint claims what the target lacks (section 4) | 2 blocks, 1 lost acknowledgement |
| `quiesce` | capture on all disks together, requests that outlive nobody, pause, answers, refinement of `ConsistentPass` by each disk | 2 disks, 2 pairs of sources, 2 cutovers, 2 stops, 1 pause, 1 fault, at most 2 of these upsets together |
| `cutover_frozen` | freeze, clone, launch as the console drives it, with stops in time, deletion, closing and a restart | 2 runs, 2 sets of receivers, 2 stops, 1 restart |
| `cutover_overlap` | any order of commands, handlers that write over each other, overlapping runs, overrun drains | 2 runs, 2 sets of receivers, 1 stop |
| `disk_cutover` | the local-disk boot with its guest and token | 2 data disks, 2 runs, 2 stops, 2 restarts |
| `source_snapshot` | every mode and failure of a pass's preparation and clean-up | 3 nested filesystems |
| `dmera` | candidates after any failure between pass, manifest and kept era, with passes of the device and of a snapshot | 5 bytes in blocks of 3 and era blocks of 2, 6 eras |
| `onboarding` | volumes, rows, receivers and sizes | 2 creations by forms of one and two disks, 3 plans, 1 refusal, 1 fault, 1 restart |
| `source_check` | agreement of the two verdicts, blocked ports, listeners | 42 sources, 2 tokens, 2 runs, 2 ports |
| `audit` | watermark, deletion, arrival of the log | the main stream and a migration's, a channel of 1, 1 entry besides the handlers' own, 2 requests, 1 fault |

*Why the bounds are enough.* Two blocks are the least with which a pass can be
half done, a delta can hold a strict subset of the disk, and a smear of two
instants exists; two contents let a block change once after every checkpoint
there is; two receiver faults are a fault and one during the recovery from it.
Two disks are the least that can settle at different times; two cutovers and two
stops are a cutover stopped, its successor and that one's stop. Two runs of
`Cutover` are the phases of a guided one, a failed one and its retry, or two that
overlap; two stops are one at each, or both at one; a set of receivers is consumed by
the start, by a stop and by a restart. What longer histories could add (a failed
cutover before both phases, more stops) the theorems cover, which hold for any number. Three nested filesystems have one that is neither the first nor
the last to be remounted. The sizes of `dmera` are coprime and do not divide the
device. The sources of `source_check` are two good ones and each departure of one
fact from either. In `onboarding` the forms have sizes at the tolerance's two
ends, at a GiB's boundary and below the floor, and plans too small or of another
class.

*What a run leaves out on purpose.* `cutover_frozen` sets `MayStopLate`,
`MayOverrun` and `MayRace` to FALSE, `quiesce` `MayOvertake`, `disk_cutover`
`MayLag`, `onboarding` `MayCross` and `dmera` `MayRollMidPass` and
`MayWriteBetween`: with them the code does break the properties, as section 4
tells; each is a constant, so that a reader can see it happen.

*Bounded environment.* The constants `Max...` bound what the environment does
(faults, writes, commands), never what the program does in answer to it; liveness
is checked for the time after the last disturbance, which is how it is meant.
Where an operator has nothing left to press the system may stop, and the
configuration says `CHECK_DEADLOCK FALSE`; `Replication` and `Onboarding` never
do.

*Fairness.* Weak fairness of the agent's and of the receiver's steps: the timer
starts the agent every 60 s and an accept loop takes whoever comes; it takes for
granted that the connection of a dead agent is noticed. `ClearConsistency` is fair
because `quiesceForCutover` waits six minutes at most and `finalize` clears the
request after it. A goroutine's next step is weakly fair, as each of its waits
has a deadline or ends with its context, and a session ends; a handler once begun
is finished, which takes for granted that its client waits for the answer (Stop
and Delete write the store under the request's context). In `DiskCutover` time
passes (`Ages`), and nothing is assumed of the guest or the operator. In
`SourceSnapshot` only the watchdog is fair: any command may hang. In `Audit` the
two goroutines and the handler at work go on. Nothing is assumed of the operator,
of faults, of writes or of writeback.

*Mutants.* A module's slips, named for the definition they falsify, are plausible
mistakes that no specification uses. `PROJECT.json` pairs each property of a
passing run with the slip it catches.

## 4. Where code and claims, or code and properties, part

The run `replication_aba` shows the first; the rest came up while modelling, and
where a constant or a property's exception stands for one it is named.

**Replication.**
- *A block that changes back* (`replication_aba`). The pass lands, its `DoneAck`
  is lost, the block returns to what the old checkpoint lists: the next pass skips
  it and its checkpoint claims it. Nothing repairs it until the block changes
  again or a full sync is forced. The step that begins it is a `Forgets` step: a
  fault ends a pass that may have changed the target, and the older checkpoint
  stays.
- *A delta is not atomic against a restart.* `stage.Apply` has no journal
  (`stage.go:89`), while the log after a restart says the pass was discarded whole
  (SV:637, R:249). The next pass repairs it, unless the source is gone. `Tears`
  names exactly these faults; `replication_contract` has no receiver fault at all,
  the theorem about the contract has all but `Tears`.
- *A repeated baseline that breaks off* leaves a torn target that still counts as
  ready for cutover (R:291 against R:255).
- *A restart between `DoneAck` and `RecordDiskSync`* (M:160) leaves the baseline
  unrecorded until another full sync.

**Quiesce.**
- *Stop overtaken* (`MayOvertake`). Stop cancels and then clears the requests
  (M:1175); a run just past its look at the context sets them again and nothing
  clears them, so live passes are bounced for ever. The same run may still drain.
- *A cancel function lost.* A returning run deletes whichever cancel function is
  held (M:1328, 1579). Start, Stop, Start before the first run has returned: its
  deferred deletion drops the second's, and the next Stop, of which M:1150 says that
  it "cancels an in-flight finalize and resumes replication", cancels nothing. That
  run goes on to drain and freeze, and the clearing after its drain takes a third
  cutover's requests. `FrozenTogether` and `SourceAnswers` are therefore about the
  newest run; `MaxCutovers = 3` shows the rest.
- A source with neither LVM nor a remount answers a bounce with a second live pass
  until the deadline (A:147). A failed LVM snapshot is not reported as a refusal.
- *A mark behind the request* (M:165, 166; 145, 146). The callback looks whether a
  consistent pass is wanted and records its outcome under two locks; a Stop in between
  clears the requests and leaves the disk marked with none, until the next request. As
  the marks are read only under a request, and a request lifts them first, this harms
  nobody; `ConsistentPass` says what is promised all the same: what is marked when it is
  marked is of one instant, and a target both asked for and marked takes nothing else.
- The event "replication resumed" of a Stop is logged though replication may be paused.

**Cutover.**
- *Cancel after the conversion.* The volume is converted in place and Cancel
  resumes deltas onto it (M:1426), of which `docs/TROUBLESHOOTING.md:97` knows
  nothing; the next cutover clones the mixture.
- *Stop may not resume* (M:1178). A run looks at its context here and there; past
  the last look it drains the receivers (M:1433) or writes its closing state
  (M:1736) over the stop's. `StopsLate` names the stops of these two kinds: those
  after the conversion has begun, and those that do not cancel the run at work ahead
  of its last look before the drain. `MayStopLate` lets them in, and then none of the
  three properties of `cutover_frozen` holds.
- *A retry may be blocked.* A clone is recorded only after `WaitVolumeActive`
  (M:1666); one left over from a failed wait blocks every later one by its label,
  while CO:1343 promises a clean start.
- *Handlers that write over each other* (`MayRace`). No lock spans a handler's look at
  the row and its write. Two Completes (M:1126, 1137), or two Starts, are both accepted;
  the second's cancel function replaces the first's. The first then takes the conversion
  that phase 1 kept and clones while the second converts the device anew, and the
  second's clean-up makes the row forget the first's instance behind its `launched`: neither
  `ClonesOnePass` nor `LaunchedHasInstance` holds. A Start accepted behind the state
  write of a Stop (M:1177) may have drained by the time that Stop brings the receivers
  back (M:1180): they listen under its conversion, and while the console says that the
  source may be powered off; `SafeToPowerOff` does not hold. `RecordedExists` and
  `CutoverEnds` hold with all of this, as `cutover_overlap` shows.
- *An overrun drain* (`MayOverrun`) lets the last pass write under the conversion.

**Local-disk boot.**
- *A truncated copy passes for a whole one.* `curl | dd` without `pipefail`
  (CS:337) ends with the power-off that CS:391 takes for the end of the copy.
  `LaunchedWhole` has the exception `"cut short"`.
- *A lagging run* (`MayLag`). A cancelled run's deferred drop goes by the migration,
  not by the token, and kills its successor's.
- After a restart the command is restored but nobody waits for the power-off
  (SV:639); a Stop then does not drop the restored stream (CS:29). The event of
  CS:170 says that the old token stopped working although it goes on.
- A run cancelled between making an artifact and recording it (M:1960) leaves it
  (`lost`).

**Source snapshots.**
- *A refused freeze leaves the application quiesced.* With fsfreeze alone
  `prepareFsfreeze` returns at once (`snapshot.go:275`), without the post-hook that
  resumes the application (`snapshot.go:22`), although nothing was tried in vain. `SourceReleased` excepts it by name (`FreezeRefused`).
- *A failed post-hook* is ignored in all four places (281, 314, 325, 365), the last line
  of a pass that succeeded among them: the application stays at rest and nobody is told.
- *A signal releases the source under the pass.* The goroutine that handles it remounts
  or removes (A:240) while the main one reads on and sends until the process exits; what
  it sends of a pass offered as consistent is then of no instant. Whether such a pass is
  completed depends on how soon the exit comes. `PointInTime` ends where the handler
  begins.
- *A thaw that hangs has no watchdog.* `thaw` disarms it (240) before `fsfreeze -u` (241),
  so "can never leave the source filesystem frozen" (221) holds of hangs between
  freeze and thaw only, and of no kill, which it names too: the watchdog dies with the
  process. `ThawBegun` promises that the thaw is begun, by a process that lives.
- The removal of an LVM snapshot whose path was never resolved is given `/dev/` and a
  name; a signal during `Prepare` or behind the pass's end leaves filesystems frozen or
  read-only. `failed` and the process's end are the exceptions the properties state.

**dm-era.** An agent killed between taking and dropping the metadata snapshot
(D:113) makes every later pass fail. Somebody else's rollover during a pass
(`MayRollMidPass`) breaks `NoChangeMissed`. So does the order of a pass of an LVM
snapshot (`MayWriteBetween`): `prepareSource` takes it (A:227) before
`Candidates` (A:281) rolls the era over. What is written in between is not in the
snapshot, and its era is closed by the time the pass keeps one, so that no later
pass looks at it until it is written again. The comment of `Checkpoint` has it
that "any blocks written during this sync (still in the current open era) are
re-reported", and `docs/OPERATIONS.md` section 3 that "correctness never depends on
the tracker being exact".

**Onboarding.**
- *A deletion that crosses a creation* (`MayCross`; CO:1369, M:1195) orphans a
  volume; the token's removal checks first and deletes later (SV:411).
- *A Stop that crosses a deletion* (`MayCross` too). Its `ensureReceivers` (M:1180),
  between the deletion's clean-up (M:1278) and the removal of the row (M:1205), brings
  back receivers that outlive their migration, on a port and a device of nobody's.
- *Errors nobody looks at.* A creation whose last state write (M:836) or whose roll-back's
  row removal (M:1250) fails is answered as any other and leaves a row at `created`
  (`abandoned`). A receiver that cannot be started, its port taken or its certificate
  unread (M:66 to 91), is only logged (M:838, or not even, M:1180), and with it the disks
  behind it; a row that cannot be removed (M:1205) stays without its receivers and its
  volumes (`deaf`). A restart or a Stop starts such receivers again.
- A client that has gone takes its roll-back with it, as that uses its context; a
  crash between `CreateVolume` and `SetDiskVolume` loses the volume (`lost`,
  `abandoned`). A row left at `created` is never served after a restart.
- After a redeployment disk ids begin anew: labels and ports clash, and an agent of
  old may reach a new receiver, which `Admits` must catch (M:918).
- Ports are a base plus the disk's id and never reused, so they grow past the
  published range and into the probe ports, which `sourcecheck.go:51` says never
  collide.
- A size entered below the real one but within tolerance makes the local-disk boot
  stream only that much (M:1984).

**Source check.** The probe listener is closed with the first report while the port
stays in the script, so running the same command again, as its text advises,
reads "blocked" and replaces the report. An expired token's 403 is
reported as a network that is not accessible.

**Audit.** The uploader's watermarks survive a bucket made anew; a record made up
for want of the account's own makes Delete answer that the bucket is gone while it
is there (SV:543; `misled`, `RegionIsCluster`); the final flush never runs, as the
server's context is never cancelled; entries are dropped when the channel is full;
a text rendered with a failed read is uploaded and counted (`thinned`).

## 5. The proofs

The proofs hold for all values of the constants; the `ASSUME`s of the models about
them are the only assumptions, but for what a theorem states. TLC evaluated
each inductive invariant below on the run's instance before it was proved.

| Theorem | Says | Provided that |
|---|---|---|
| `TypeCorrect`, `EraTypeCorrect`, `SourceCheckTypeCorrect`, `QuiesceTypeCorrect`, `SnapshotTypeCorrect`, `CutoverTypeCorrect`, `DiskTypeCorrect`, `AuditTypeCorrect`, `OnboardingTypeCorrect` | the module's type invariant | |
| `CheckpointSafe` | `[]CheckpointIsDurable` | no content recurs (`~Recurring`) |
| `ImplementsTarget` | `KeepsTargetContract` | no content recurs, no fault tears a pass (`[][~Tears]_vars`) |
| `FrozenSafe` | `[]FrozenAtOneInstant` | no content recurs, no session fails inside `Apply` (`[][~(Applying /\ SessionFails)]_vars`) |
| `KeepsItsRequest` (`ReplicationProofs`) | `KeepsRequest`, the refinement of `ConsistentPass` | as for `FrozenSafe` |
| `CheckpointSafeUnlessForgotten`, `ImplementsTargetUnlessForgotten`, `FrozenSafeUnlessForgotten`, `KeepsItsRequestUnlessForgotten` | the same four | instead of `~Recurring`: no fault forgets a pass that may have changed the target (`[][~Forgets]_vars`) |
| `EraNoChangeMissed`, `EraPassIsItsImage` | `[]NoChangeMissed`, `[]PassIsItsImage` | nobody else rolls the era during a pass (`~MayRollMidPass`), no write falls between the LVM snapshot and the candidates (`~MayWriteBetween`) |
| `RoundedSizesDoFit` | `[]RoundedSizesFit` | |
| `VolumesAreAccounted`, `CreationIsWhole`, `ReceiversDoFollowRows` | `[]VolumesAccounted`, `[]CreatedWhole`, `[]ReceiversFollowRows` | no deletion crosses a creation or a Stop, no removal of the token a creation (`~MayCross`) |
| `SourceCheckVerdictsAgree`, `SourceCheckListenersOwned`, `SourceCheckBlockedIsBlocked` | the run's three | |
| `PauseHeld` | `[]PauseHolds` | |
| `KeepsItsRequest`, `EachDiskRefines` (`QuiesceProofs`) | `KeepsRequest`: each disk refines `ConsistentPass` | |
| `RequestsHaveOwners`, `DisksFrozenTogether` | `[]RequestHasOwner`, `[]FrozenTogether` | no Stop overtakes a run about to ask (`~MayOvertake`) |
| `SourceIsReleased`, `PassIsPointInTime`, `SnapshotIsAtRest`, `NothingHeldFrozen` | the run's four invariants | |
| `AuditUploadedIsThere`, `AuditDeletedIsGone` | `[]UploadedIsThere`, `[]DeletedIsGone` | |
| `CutoverRecordedExists` | `[]RecordedExists` | |
| `CutoverSafeToPowerOff`, `CutoverClonesOnePass`, `CutoverLaunchedHasInstance` | the run's other three | the console's buttons (`ConsoleOnly`), no overrun drain (`~MayOverrun`), no stop too late to put everything back (`~MayStopLate`), no command that writes over another (`~MayRace`) |
| `TokensEnd` | `[]TokenEndsWithRun` | |
| `DiskLaunchedWhole`, `DiskCommandUsable`, `DiskAccounted` | `[]LaunchedWhole`, `[]CommandUsable`, `[]Accounted` | no run starts before a stopped one has returned (`~MayLag`) |

A proviso stands for a case in which the code does break the property (section 4).

**Replication.** `CheckpointIsDurable` speaks only of the moment of the commit and
is far from inductive: what is committed was read block by block, skipped or sent
by comparison with an older checkpoint, staged, applied and synced, and any of
these may be cut off by a fault. The invariant `CheckpointInv` is the conjunction of
`TypeOK`; `InStep`: where agent and session can be at the same time; `Pending`:
outside of the steps that consume them, no frame is on the wire and no record
staged; `Filled`: what is read is never blank; `Delivery`: what each block of the
target becomes if the session completes is what the pass has read of it; `Synced`:
from the sync until the pass is over, the target is durable. All of it is kept by
every step but the one that skips a block, which needs `SkipsRight`: the target has
the block as the checkpoint lists it. Two things give that, each by a proof of its
own, and everything below is proved once for both:
- `Ahead`, for sources whose contents do not recur: block by block content only
  moves forward, from the checkpoint over the durable and the cached target, the
  staging file and the wire to the source (`Forward`) and to a point-in-time image
  (`SnapshotAhead`); a block equal at both ends of this chain is equal in between.
- `Settled`, for behaviours without a `Forgets` step: but for a pass that is
  landing, the target is what the checkpoint says, and no session that is left
  over is about to change it.

The second says how far the violation of `replication_aba` reaches: not through
deaths, retries or crashes as such, but only through a fault that ends a pass after
its `Done`, or a full sync, while an older checkpoint stays.

For the contract, `CheckpointInv` is joined by `Offered`: once `Done` is sent, the target
will become what was offered. A step then maps to `TargetImage` by what it does to
`Image`, the device with the staged records of an applying session laid over it:
`SendDone` to `Offer`, `ReceiveDone` to `Install` (`Offered` says the image is then
the offer), a baseline's `ReceiveBlock` to `Overwrite`, all others to stutters,
`ApplyRecord` among them, for it only moves a record from the staging file to the
device, and the faults too, but for `Tears`. For one instant, `ReadsInstant`: a
point-in-time pass has read one image, which the source had; `CarriesInstant`: its
session carries that image to the device; `HoldsRequest`: while a disk is asked for
and marked, no session is of another kind, and none but such a one goes on to mark its
disk, from its `RecordDiskSync` on, with no other session before it is done. With it a
step that touches `app` maps to `Ask`, `Mark` or `Drop` of `ConsistentPass`, any other to
`Take`, for the image of a disk asked for and marked is of one instant after it too.

**dm-era.** `Tracked`: no era is kept or observed before it began (`ErasBegun`); what
differs from the manifest was written since the kept era (`SinceKept`); and through
a pass it is a candidate, is yet to be read, or was written since the pass rolled
the era over (`ThroughPass`), one case for each place in which the agent may die.
`BehindImage`: what a snapshot lacks was written after the pass began to look, hence
in an era that it does not close; `ImageRead`: what a pass of a snapshot has read or
skipped differs from it in nothing.

**Source check.** `Printed`: what was said is the script's verdict on what was
found, and a report is what some run of its command found. `Armed`: a live,
unreported check has its listener or no port, and a fetched script dials its
check's port.

**Quiesce.** `InFlight` counts a disk's pass in flight against what it took since
the pause. `AskersLive`: a run that is still to ask is live. `DoneMeans`: a disk
marked done while it is asked holds a consistent pass and streams no other; one about to
be marked holds one, and its receiver has accepted no other session since. This needs no
proviso and gives the refinement of `ConsistentPass`: a pass that lands is `Take`,
`Marks` is `Mark`, a run's request `Ask`, a stop and the end of a drain `Drop` for every
disk at once. `RunsInOrder`: only the run started last asks, while migrating, and a
draining run has closed the receivers; `Fresh`: what that run has asked is marked, or
about to be, only while its own request stands; `Held`: the consistent passes of a frozen run are kept in place by requests that are
still met, which bounce any other pass, or else by receivers closed and idle.

**Source snapshots.** `Orderly` ties the place of the process to what is read-only,
frozen or snapshotted: each conjunct says what has been taken so far and is
still to be given back at this place of this mode (`RemountedOnly`, `FrozenWatched`,
`ApplicationHeld`, `SnapshotKept`), and where a signal's handler may be at work beside
the pass (`Places`).

**Cutover.** `Fresh`: nothing names an artifact before the run that makes it has
recorded it, and what is made but unrecorded exists, for what deletes goes by the
row. `Accounted`: what the row names and is gone, is in the row of a run that is
about to make it forget. With these `RecordedExists` needs no assumption on the
operator at all. `ConsoleInv`: unless the migration is being removed, one
uncancelled run is at work, and only while migrating (`Alone`), beside any number of
runs that were stopped ahead of the drain and go no further; receivers listen only
while replicating and until that run's drain, and while they do the device holds
passes alone (`Quiet`); the device is what state and place say (`Unmixed`); what was
recorded on the way to the launch is there (`Kept`). A deletion once begun is never
undone (`GoneStays`), and from the cancel of a stop in time to the receivers it brings
back no run is at work and the replica is as the passes have left it (`Stopped`), any
number of stops side by side, which is where `~MayRace` is needed.

**Local-disk boot.** `TokenKept`: a known token's run is at work, and knows that it
has registered it. `DiskInv` needs `~MayLag`, which gives `Alone`: one run is at
work. Then the row holds what that run has made so far (`RowFollows`), of its clones
at most the newest is unrecorded (`ClonesFollow`), its token is good from its
registration to the end of the wait (`TokenFollows`), and its instance is where the
run's place says, off during the wait only behind a copy of the run's own image
(`InstanceFollows`). A wait cut short leaves nothing at work (`StrandedWaits`) and
its token as the restart found it (`Restored`).

**Audit.** `MarksInLog`: no watermark is ahead of the log it was read from; `TextCovers`:
the text about to be put is behind neither the watermark read before it nor what
was uploaded before, which is why a failed upload or a lost answer does no harm;
and no bucket, no objects. `GoneInv`: a bucket's record that may lead nowhere
comes of a listing that failed, and a deletion goes by a record.

**Onboarding.** `Sound` needs no proviso: besides the types, before its rows are
inserted there is nothing of a migration (`Blank`), a creation is at one of its
disks (`InRange`), and what has rows, receivers or a handler has a plan (`Resolved`).
`RoundedSizesFit` then is arithmetic of GiBs and the tolerance, and, for the plan,
a choice of the least one that fits (well-founded induction on the plans' disks).
`Kept`, under `~MayCross`, is the induction for the other three: no deletion meets a
creation in progress or a Stop, which meets no creation either (`Uncrossed`); the rows are in the state that goes with the
handler's place (`Rowed`) and the disks before the one it is at have their ports and
volumes (`Provided`), unless its client has left; an ended creation that was not
abandoned is whole (`Whole`); a volume is named by a row, is about to be recorded, or is lost
(`Accounted`); and receivers come after the rows and go before them, and are all there unless an error
has left the migration `deaf` or a Stop has yet to bring them back (`Heard`).

*Only model-checked*: liveness (`CatchesUp`, `BaselineRecorded`, `SourceAnswers`,
`ThawBegun`, `CutoverEnds`, `LogsReachBucket`), which this prover does not reach.
Every safety property of a passing run is a theorem.

## 6. Not modelled, and why

- *In the modelled parts*: hash collisions; corrupt frames other than as
  `SessionFails`; compression and encoding; rate limits; the standalone receiver's
  `-once`; the time of a capture and the skew shown; several disks' clones in
  `Cutover` (they repeat one disk's), its run without Linode automation, and store writes
of its that fail, other than the removal of a row; the audit handlers side by side; the
  contents of options; a repeated full sync under way at a cutover; the texts of
  scripts, forms and events.
- *Fleet control plane* (`controlplane`, `controlclient`, `controld`, `replctl`):
  inventory and reports in single statements, which nothing modelled reads.
- *TLS, documentation site, flags*: certificates and text. What the console offers
  is a guard in `Cutover`, a restart of `applianced` an action of each module.
- *`machine-convert.sh`, installation*: what they do inside an image is out of a
  model checker's reach; the conversion is a write that ends or is killed.
- *Diagnostics, health, boot verification*: observations no decision depends on.

## 7. What could come next

`Quiesce` shown to implement the steps of `Cutover` from its start to `QuiesceEnds`.
