--------------------------- MODULE SourceSnapshot ---------------------------
(***************************************************************************)
(* How the agent makes the source hold still (internal/snapshot), and how  *)
(* it lets go again: the hooks, the filesystems of the disk, frozen or     *)
(* remounted read-only one by one, the LVM snapshot, the watchdog of a     *)
(* freeze, and the cleanup of a pass, deferred or run by the goroutine that*)
(* handles a signal while the pass goes on (cmd/agent/main.go, replicate). *)
(*                                                                         *)
(* One attempt at a pass.  Every command may fail or hang, hooks included; *)
(* one that fails has changed nothing.  The agent may be told to stop, or  *)
(* be killed, at any moment; what it has not undone by then stays.         *)
(***************************************************************************)
EXTENDS Naturals

CONSTANTS
    Filesystems, \* those mounted from the disk
    Depth        \* how deep in the tree each is mounted

ASSUME FilesystemAssumption == Depth \in [Filesystems -> Nat]

VARIABLES
    mode,    \* how this pass is to be read
    hooked,  \* is there a hook that quiesces the application, and one that resumes it?
    pc,      \* the agent's place
    todo,    \* the filesystems it has yet to get to
    fs,      \* the filesystems
    dog,     \* those with an armed watchdog
    thawing, \* those whose fsfreeze -u runs: their watchdog is disarmed
    app,     \* the application
    snap,    \* the LVM snapshot: what the application was when it was taken
    process, \* the agent's process
    handler, \* the goroutine that handles a signal
    failed   \* the commands that failed to undo something, by what they leave

freezes == <<dog, thawing>>
vars == <<mode, hooked, pc, todo, fs, freezes, app, snap, process, handler, failed>>

Modes == {"none", "fsfreeze", "remountro", "lvm"}
Pcs   == {"prepare", "hook", "quiesce", "thaw", "create", "created", "resume", "path", "read",
          "undo", "end"}

TypeOK ==
    /\ mode \in Modes
    /\ hooked \in BOOLEAN
    /\ pc \in Pcs
    /\ todo \subseteq Filesystems
    /\ fs \in [Filesystems -> {"rw", "frozen", "ro"}]
    /\ dog \subseteq Filesystems /\ thawing \subseteq Filesystems
    /\ app \in {"running", "quiesced"}
    /\ snap \in {"none", "running", "quiesced"}
    /\ process \in {"up", "exited", "killed"}
    /\ handler \in {"idle", "cleans"}
    /\ failed \subseteq Filesystems \cup {"snapshot", "hook"}

Init ==
    /\ mode \in Modes
    /\ hooked \in BOOLEAN
    /\ pc = "prepare"
    /\ todo = {}
    /\ fs = [m \in Filesystems |-> "rw"]
    /\ dog = {} /\ thawing = {}
    /\ app = "running"
    /\ snap = "none"
    /\ process = "up"
    /\ handler = "idle"
    /\ failed = {}

(***************************************************************************)
(* Helpers.                                                                *)
(***************************************************************************)

At(here)    == process = "up" /\ pc = here
Goto(there) == pc' = there /\ UNCHANGED process
Exit        == pc' = "end" /\ process' = "exited"

\* mountpointsFromLsblk: the deepest first.
Deepest(m, set)  == m \in set /\ \A n \in set : Depth[n] <= Depth[m]
Shallowest(m, set) == m \in set /\ \A n \in set : Depth[n] >= Depth[m]
ReadOnly         == {m \in Filesystems : fs[m] = "ro"}

\* thaw, whoever is the first to call it: the watchdog is disarmed, then fsfreeze -u runs.
Disarms(m) == dog' = dog \ {m} /\ thawing' = thawing \cup {m}

\* The post-hook, whose error is ignored.
Resumes ==
    \/ app' = "running" /\ UNCHANGED failed
    \/ hooked /\ failed' = failed \cup {"hook"} /\ UNCHANGED app

\* cleanupOnce: the cleanup is run by the pass at its end or by the handler, whoever
\* is first; restore is also what a refused remount does.
Cleaning == At("undo") \/ (process = "up" /\ handler = "cleans")

-----------------------------------------------------------------------------
(***************************************************************************)
(* Slips: a definition below with one plausible mistake in it, to show that*)
(* a property would notice.  No specification uses these.                  *)
(***************************************************************************)

\* The freeze is held while the device is read.
ThawsAtOnce_Held ==
    /\ At("thaw")
    /\ Goto("quiesce")
    /\ UNCHANGED <<mode, hooked, todo, fs, freezes, app, snap, handler, failed>>

\* A refused remount ends the attempt at once.
RefusesRemount_NoRestore(m) ==
    /\ At("quiesce") /\ mode = "remountro"
    /\ Deepest(m, todo)
    /\ Exit
    /\ UNCHANGED <<mode, hooked, todo, fs, freezes, app, snap, handler, failed>>

\* The application resumes before the snapshot is taken.
CreatesSnapshot_ResumesFirst ==
    /\ At("create")
    /\ app' = "running"
    /\ \/ snap' = app' /\ Goto("created")
       \/ Goto("resume") /\ UNCHANGED snap
    /\ UNCHANGED <<mode, hooked, todo, fs, freezes, handler, failed>>

\* The watchdog spares a filesystem whose snapshot is being taken.
WatchdogThaws_SparesSnapshot(m) ==
    /\ process = "up" /\ pc # "create"
    /\ m \in dog
    /\ Disarms(m)
    /\ UNCHANGED <<mode, hooked, pc, process, todo, fs, app, snap, handler, failed>>

\* A filesystem that cannot be remounted is skipped, as one that cannot be frozen.
RefusesRemount_Skips(m) ==
    /\ At("quiesce") /\ mode = "remountro"
    /\ Deepest(m, todo)
    /\ todo' = todo \ {m}
    /\ UNCHANGED <<mode, hooked, pc, process, fs, freezes, app, snap, handler, failed>>

-----------------------------------------------------------------------------
(***************************************************************************)
(* Prepare.                                                                *)
(***************************************************************************)

\* mountpointsFor: a disk with nothing mounted, or that cannot be listed, can only
\* be snapshotted.  ModeNone reads the device as it is.
ListsFilesystems ==
    /\ At("prepare")
    /\ IF mode = "none"
       THEN Goto("read") /\ UNCHANGED todo
       ELSE \/ Goto("hook") /\ todo' = Filesystems
            \/ mode = "lvm"  /\ Goto("hook") /\ todo' = {}
            \/ mode # "lvm" /\ Exit /\ UNCHANGED todo
    /\ UNCHANGED <<mode, hooked, fs, freezes, app, snap, handler, failed>>

RunsPreHook ==
    /\ At("hook")
    /\ \/ /\ app' = IF hooked THEN "quiesced" ELSE app
          /\ Goto("quiesce")
       \/ hooked /\ Exit /\ UNCHANGED app
    /\ UNCHANGED <<mode, hooked, todo, fs, freezes, snap, handler, failed>>

\* freeze, with its watchdog.
Freezes(m) ==
    /\ At("quiesce") /\ mode \in {"fsfreeze", "lvm"}
    /\ Deepest(m, todo)
    /\ fs' = [fs EXCEPT ![m] = "frozen"]
    /\ dog' = dog \cup {m}
    /\ todo' = todo \ {m}
    /\ IF mode = "fsfreeze" THEN Goto("thaw") ELSE UNCHANGED <<pc, process>>
    /\ UNCHANGED <<mode, hooked, thawing, app, snap, handler, failed>>

\* A freeze that fails: prepareFsfreeze returns at once, without the post-hook,
\* prepareLVM goes on.
RefusesFreeze(m) ==
    /\ At("quiesce") /\ mode \in {"fsfreeze", "lvm"}
    /\ Deepest(m, todo)
    /\ IF mode = "fsfreeze"
       THEN Exit /\ UNCHANGED todo
       ELSE todo' = todo \ {m} /\ UNCHANGED <<pc, process>>
    /\ UNCHANGED <<mode, hooked, fs, freezes, app, snap, handler, failed>>

\* The agent calls thaw, behind each freeze of prepareFsfreeze and behind lvcreate, the
\* last frozen first; where the watchdog was first, it waits for that thaw to end.
BeginsThaw(m) ==
    /\ At("thaw") \/ At("created") \/ At("resume")
    /\ Shallowest(m, dog)
    /\ \A n \in thawing : Depth[n] > Depth[m]
    /\ Disarms(m)
    /\ UNCHANGED <<mode, hooked, pc, process, todo, fs, app, snap, handler, failed>>

\* fsfreeze -u ends, once for each freeze.
ThawEnds(m) ==
    /\ process = "up"
    /\ m \in thawing
    /\ thawing' = thawing \ {m}
    /\ \/ fs' = [fs EXCEPT ![m] = "rw"] /\ UNCHANGED failed
       \/ failed' = failed \cup {m} /\ UNCHANGED fs
    /\ UNCHANGED <<mode, hooked, pc, process, todo, dog, app, snap, handler>>

\* prepareFsfreeze never holds a freeze.
ThawsAtOnce ==
    /\ At("thaw")
    /\ dog = {} /\ thawing = {}
    /\ Goto("quiesce")
    /\ UNCHANGED <<mode, hooked, todo, fs, freezes, app, snap, handler, failed>>

\* prepareRemountRO, one filesystem; one that refuses has all of them restored.
Remounts(m) ==
    /\ At("quiesce") /\ mode = "remountro"
    /\ Deepest(m, todo)
    /\ fs' = [fs EXCEPT ![m] = "ro"]
    /\ todo' = todo \ {m}
    /\ UNCHANGED <<mode, hooked, pc, process, freezes, app, snap, handler, failed>>

RefusesRemount(m) ==
    /\ At("quiesce") /\ mode = "remountro"
    /\ Deepest(m, todo)
    /\ Goto("undo")
    /\ UNCHANGED <<mode, hooked, todo, fs, freezes, app, snap, handler, failed>>

\* All filesystems have been got to.
Quiesced ==
    /\ At("quiesce")
    /\ todo = {}
    /\ \/ mode = "remountro" /\ Goto("read") /\ UNCHANGED <<app, failed>>
       \/ mode = "fsfreeze" /\ Goto("read") /\ Resumes
       \/ mode = "lvm" /\ Goto("create") /\ UNCHANGED <<app, failed>>
    /\ UNCHANGED <<mode, hooked, todo, fs, freezes, snap, handler>>

\* lvcreate, which may hang.
CreatesSnapshot ==
    /\ At("create")
    /\ \/ snap' = app /\ Goto("created")
       \/ Goto("resume") /\ UNCHANGED snap
    /\ UNCHANGED <<mode, hooked, todo, fs, freezes, app, handler, failed>>

\* The filesystems thawed, the application resumes, snapshot or not.
ResumesSource ==
    /\ At("created") \/ At("resume")
    /\ dog = {} /\ thawing = {}
    /\ Resumes
    /\ IF pc = "created" THEN Goto("path") ELSE Exit
    /\ UNCHANGED <<mode, hooked, todo, fs, freezes, snap, handler>>

\* lvSnapshotPath; when it fails, lvremove is given a path that is no volume's.
ResolvesPath ==
    /\ At("path")
    /\ \/ Goto("read") /\ UNCHANGED failed
       \/ Exit /\ failed' = failed \cup {"snapshot"}
    /\ UNCHANGED <<mode, hooked, todo, fs, freezes, app, snap, handler>>

-----------------------------------------------------------------------------
(***************************************************************************)
(* The pass, its end, and what cuts it short.                              *)
(***************************************************************************)

\* The pass has ended, well or not: signals are no longer handled, then the cleanup,
\* unless the handler has begun it.
PassEnds ==
    /\ At("read")
    /\ Goto("undo")
    /\ UNCHANGED <<mode, hooked, todo, fs, freezes, app, snap, handler, failed>>

\* restore, in the reverse order; what cannot be remounted is left.
Restores(m) ==
    /\ Cleaning
    /\ Shallowest(m, ReadOnly \ failed)
    /\ \/ fs' = [fs EXCEPT ![m] = "rw"] /\ UNCHANGED failed
       \/ failed' = failed \cup {m} /\ UNCHANGED fs
    /\ UNCHANGED <<mode, hooked, pc, process, todo, freezes, app, snap, handler>>

\* The rest of the cleanup, the post-hook or the removal of the snapshot, and the end:
\* the handler exits whatever the pass is doing.
CleansUp ==
    /\ Cleaning
    /\ ReadOnly \subseteq failed
    /\ \/ mode = "remountro" /\ Resumes /\ UNCHANGED snap
       \/ mode = "lvm" /\ snap' = "none" /\ UNCHANGED <<app, failed>>
       \/ mode = "lvm" /\ failed' = failed \cup {"snapshot"} /\ UNCHANGED <<app, snap>>
       \/ mode \in {"none", "fsfreeze"} /\ UNCHANGED <<app, snap, failed>>
    /\ Exit
    /\ UNCHANGED <<mode, hooked, todo, fs, freezes, handler>>

\* The watchdog of a freeze that has lasted too long.
WatchdogThaws(m) ==
    /\ process = "up"
    /\ m \in dog
    /\ Disarms(m)
    /\ UNCHANGED <<mode, hooked, pc, process, todo, fs, app, snap, handler, failed>>

\* SIGTERM or SIGINT: while the device is read a goroutine handles it, and another one
\* is lost on it; at any other time it ends the process.
Signalled ==
    /\ process = "up"
    /\ IF pc = "read" THEN handler' = "cleans" /\ UNCHANGED process
                      ELSE process' = "killed" /\ UNCHANGED handler
    /\ UNCHANGED <<mode, hooked, pc, todo, fs, freezes, app, snap, failed>>

Killed ==
    /\ process = "up"
    /\ process' = "killed"
    /\ UNCHANGED <<mode, hooked, pc, todo, fs, freezes, app, snap, handler, failed>>

Next ==
    \/ ListsFilesystems \/ RunsPreHook \/ ThawsAtOnce \/ Quiesced
    \/ \E m \in Filesystems :
          \/ Freezes(m) \/ RefusesFreeze(m)
          \/ BeginsThaw(m) \/ ThawEnds(m) \/ WatchdogThaws(m)
          \/ Remounts(m) \/ RefusesRemount(m) \/ Restores(m)
    \/ CreatesSnapshot \/ ResumesSource \/ ResolvesPath
    \/ PassEnds \/ CleansUp
    \/ Signalled \/ Killed

Spec == Init /\ [][Next]_vars

\* Only the watchdog is sure to go on: any command may hang.
FairSpec == Spec /\ \A m \in Filesystems : WF_vars(WatchdogThaws(m))

-----------------------------------------------------------------------------
(***************************************************************************)
(* Properties.                                                             *)
(***************************************************************************)

\* prepareFsfreeze has given up half-way, without the post-hook.
FreezeRefused == mode = "fsfreeze" /\ todo # {}

\* An agent that has ended by itself, or by a signal during its pass, has left the
\* source as it found it, but for what it tried to undo and could not: an aborted
\* cutover does not leave the source with read-only filesystems.  The application alone
\* is also left at rest when a freeze is refused.
SourceReleased ==
    process = "exited" =>
        /\ \A m \in Filesystems : fs[m] # "rw" => m \in failed
        /\ snap # "none" => "snapshot" \in failed
        /\ app # "running" => "hook" \in failed \/ FreezeRefused

\* A pass said to be consistent is one: it reads a snapshot, or filesystems all of
\* which are read-only, until it has ended or a signal's handler releases them.
PointInTime ==
    At("read") /\ handler = "idle" =>
        /\ mode = "remountro" => \A m \in Filesystems : fs[m] = "ro"
        /\ mode = "lvm" => snap # "none"

\* The snapshot shows the application at rest, if there is a hook to bring it there.
SnapshotAtRest == hooked /\ snap # "none" => snap = "quiesced"

\* No filesystem is frozen while the device is read, or the agent could not write its
\* own manifest.
NeverHeldFrozen == At("read") => \A m \in Filesystems : fs[m] = "frozen" => m \in failed

\* A frozen filesystem does not stay frozen while the agent lives, whatever else hangs:
\* it is thawed, or its thaw has at least been begun.
ThawBegun ==
    \A m \in Filesystems :
        process = "up" /\ fs[m] = "frozen" ~>
            \/ fs[m] # "frozen" \/ process = "killed"
            \/ m \in thawing \/ m \in failed
=============================================================================
