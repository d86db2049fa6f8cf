---------------------------- MODULE DiskCutover ----------------------------
(***************************************************************************)
(* The cutover onto a Linode's local disk (internal/appliance/             *)
(* migrations.go, finalizeDisk; cutover_stream.go).  The instance is booted*)
(* in rescue mode with a blank disk; a command the operator pastes there   *)
(* streams the image from the appliance and powers the instance off, and   *)
(* that is how the appliance, which waits, learns that the copy is done.   *)
(* The right to the image is a token, held in memory and in a row.         *)
(*                                                                         *)
(* Freeze and conversion, which come first, are Cutover's.  A run's token, *)
(* its instance and its clones go by the run's number.                     *)
(***************************************************************************)
EXTENDS Naturals

CONSTANTS
    DataDisks,   \* the disks but the first, each cloned into a volume
    MaxRuns,     \* bound: cutovers started
    MaxStops,    \* bound: cutovers stopped
    MaxRestarts, \* bound: restarts of the appliance
    MayLag       \* may a cutover be started before a stopped one has returned?

ASSUME BoundAssumption == MaxRuns \in Nat \ {0} /\ MaxStops \in Nat /\ MaxRestarts \in Nat
ASSUME LagAssumption == MayLag \in BOOLEAN
\* The instance goes by a tag of its own among the artifacts.
ASSUME DiskAssumption == "instance" \notin DataDisks

Runs == 1 .. MaxRuns

VARIABLES
    state,    \* the migration's state
    row,      \* the instance and the clones its row points at
    run,      \* the runs of finalizeDisk
    inst,     \* the instances
    watched,  \* is the instance's shutdown watchdog on?
    disk,     \* its local disk
    clones,   \* the clones that exist
    guest,    \* what the operator has the rescue system do
    register, \* cutoverStreams: the tokens
    card,     \* cutoverCmds: the token in the command the card shows, or 0
    saved,    \* the settings row: a token, and one in a command
    late,     \* 1: the run's copy budget is over; 2: so is the token's life
    budget    \* stops and restarts so far

\* History: artifacts nothing points at because a call's answer, a deletion or the
\* run itself was lost; the run whose wait a restart has cut short; tokens restored.
VARIABLES lost, stranded, restored

stream   == <<register, card, saved>>
cloud    == <<inst, watched, disk, clones>>
history  == <<lost, stranded, restored>>
vars == <<state, row, run, cloud, guest, stream, late, budget, history>>

RunPcs  == {"unused", "begin", "create", "created", "disk", "clone", "cloned", "register",
            "command", "rescue", "wait", "attach", "boot", "finish", "ending", "done"}
Nothing == [token |-> 0, cmd |-> 0]
Rows    == [inst : Runs \cup {0}, clone : [DataDisks -> Runs \cup {0}]]

Artifacts == ({"instance"} \cup DataDisks) \X Runs

TypeOK ==
    /\ state \in {"replicating", "migrating", "launched", "failed"}
    /\ row \in Rows
    /\ run \in [Runs -> [pc : RunPcs, live : BOOLEAN, seen : Rows, todo : SUBSET DataDisks,
                         token : BOOLEAN]]
    /\ inst \in [Runs -> {"none", "off", "rescue", "running"}]
    /\ watched \in [Runs -> BOOLEAN]
    /\ disk \in [Runs -> {"none", "blank", "partial", "cut short", "whole"}]
    /\ clones \subseteq DataDisks \X Runs
    /\ guest \in [Runs -> [pc : {"idle", "script", "copy"}, token : Runs \cup {0}, torn : BOOLEAN]]
    /\ register \subseteq Runs
    /\ card \in Runs \cup {0}
    /\ saved \in [token : Runs \cup {0}, cmd : Runs \cup {0}]
    /\ late \in [Runs -> 0 .. 2]
    /\ budget \in [stops : 0 .. MaxStops, restarts : 0 .. MaxRestarts]
    /\ lost \subseteq Artifacts
    /\ stranded \in Runs \cup {0}
    /\ restored \subseteq Runs

Empty  == [inst |-> 0, clone |-> [d \in DataDisks |-> 0]]
Unused == [pc |-> "unused", live |-> FALSE, seen |-> Empty, todo |-> {}, token |-> FALSE]
Done   == [Unused EXCEPT !.pc = "done"]
Idle   == [pc |-> "idle", token |-> 0, torn |-> FALSE]

Init ==
    /\ state = "replicating"
    /\ row = Empty
    /\ run = [r \in Runs |-> Unused]
    /\ inst = [r \in Runs |-> "none"]
    /\ watched = [r \in Runs |-> TRUE]
    /\ disk = [r \in Runs |-> "none"]
    /\ clones = {}
    /\ guest = [r \in Runs |-> Idle]
    /\ register = {}
    /\ card = 0
    /\ saved = Nothing
    /\ late = [r \in Runs |-> 0]
    /\ budget = [stops |-> 0, restarts |-> 0]
    /\ lost = {}
    /\ stranded = 0
    /\ restored = {}

(***************************************************************************)
(* Helpers.                                                                *)
(***************************************************************************)

Running(r)  == run[r].pc \notin {"unused", "done"}
At(r, pc)   == run[r].pc = pc
Goto(r, pc) == run' = [run EXCEPT ![r].pc = pc]

\* lookupCutoverStream: known, and not past its life.
Authorized(token) == token \in register /\ late[token] < 2

\* fail, which an error under a cancelled context skips; the look at the context may
\* come before a cancel and the write after it.
Fails(r) ==
    /\ state' = "failed" \/ (~run[r].live /\ UNCHANGED state)
    /\ Goto(r, "ending")

\* A slip: the tokens go, the row that a restart would read stays.
DropStream_KeepsRow == register' = {} /\ card' = 0 /\ UNCHANGED saved

\* dropCutoverStream: every token of the migration, the command, the row.
DropStream == register' = {} /\ card' = 0 /\ saved' = Nothing

\* poweroff, unless the watchdog boots the instance again.
PowersOff(r) ==
    /\ guest' = [guest EXCEPT ![r] = Idle]
    /\ \/ inst' = [inst EXCEPT ![r] = "off"]
       \/ watched[r] /\ UNCHANGED inst

-----------------------------------------------------------------------------
(***************************************************************************)
(* Slips: a definition below with one plausible mistake in it, to show that*)
(* a property would notice.  No specification uses these.                  *)
(***************************************************************************)

\* The clones are recorded when they have become active.
RecordsClone_Later(r) ==
    /\ At(r, "cloned")
    /\ \E d \in run[r].todo :
          /\ <<d, r>> \in clones \ lost
          /\ run' = [run EXCEPT ![r].pc = IF run[r].todo = {d} THEN "register" ELSE "clone",
                                ![r].todo = @ \ {d}]
          /\ UNCHANGED <<row, lost>>
    /\ UNCHANGED <<state, cloud, guest, stream, late, budget, stranded, restored>>

\* The instance is seen to be off, whether or not it has been in rescue mode.
Rescues_Unwaited(r) ==
    /\ At(r, "rescue")
    /\ Goto(r, "wait")
    /\ UNCHANGED <<state, row, cloud, guest, stream, late, budget, history>>

\* The command is shown, and the row not completed by it.
SetsCommand_MemoryOnly(r) ==
    /\ At(r, "command")
    /\ card' = r
    /\ Goto(r, "rescue")
    /\ UNCHANGED <<state, row, cloud, guest, register, saved, late, budget, history>>

\* The end of the budget is logged like that of a slice of the wait.
BudgetOver_WaitsOn(r) == At(r, "wait") /\ late[r] >= 1 /\ UNCHANGED vars

\* A run that fails or is stopped leaves its token be.
RunReturns_KeepsToken(r) ==
    /\ At(r, "ending")
    /\ run' = [run EXCEPT ![r] = Done]
    /\ UNCHANGED <<state, row, cloud, guest, stream, late, budget, history>>

-----------------------------------------------------------------------------
(***************************************************************************)
(* The operator's commands.                                                *)
(***************************************************************************)

\* The console offers it when no cutover is running; the run keeps the row it read.
StartMigration(r) ==
    /\ At(r, "unused") /\ \A q \in Runs : q < r => run[q].pc # "unused"
    /\ state \in {"replicating", "failed"}
    /\ MayLag \/ \A q \in Runs : ~Running(q)
    /\ state' = "migrating"
    /\ run' = [run EXCEPT ![r] = [Unused EXCEPT !.pc = "begin", !.live = TRUE, !.seen = row,
                                              !.todo = DataDisks]]
    /\ stranded' = 0
    /\ UNCHANGED <<row, cloud, guest, stream, late, budget, lost, restored>>

\* handleStopMigration cancels the run if there is one, and replication resumes onto
\* the volume an image may be streamed from.
StopMigration ==
    /\ state = "migrating"
    /\ budget.stops < MaxStops
    /\ budget' = [budget EXCEPT !.stops = @ + 1]
    /\ run' = [r \in Runs |-> [run[r] EXCEPT !.live = FALSE]]
    /\ guest' = [r \in Runs |-> [guest[r] EXCEPT !.torn = guest[r].pc = "copy"]]
    /\ state' = "replicating"
    /\ stranded' = 0
    /\ UNCHANGED <<row, cloud, stream, late, lost, restored>>

-----------------------------------------------------------------------------
(***************************************************************************)
(* finalizeDisk: instance, disk, clones.                                   *)
(***************************************************************************)

\* What the row the run was given points at.
Old(r) == {<<"instance", q>> : q \in {run[r].seen.inst} \ {0}}
          \cup {<<d, run[r].seen.clone[d]>> : d \in {e \in DataDisks : run[r].seen.clone[e] # 0}}

\* cleanupCutoverArtifacts deletes what it can, and forgets all of it.
CleansUp(r) ==
    /\ At(r, "begin")
    /\ run[r].live
    /\ \E kept \in SUBSET Old(r) :
          LET gone == Old(r) \ kept
          IN /\ inst' = [q \in Runs |-> IF <<"instance", q>> \in gone THEN "none" ELSE inst[q]]
             /\ guest' = [q \in Runs |-> IF <<"instance", q>> \in gone THEN Idle ELSE guest[q]]
             /\ disk' = [q \in Runs |-> IF <<"instance", q>> \in gone THEN "none" ELSE disk[q]]
             /\ clones' = clones \ gone
             /\ lost' = lost \cup {x \in kept : x[1] = "instance" => inst[x[2]] # "none"}
    /\ row' = [inst |-> 0,
               clone |-> [d \in DataDisks |-> IF run[r].seen.clone[d] # 0 THEN 0 ELSE row.clone[d]]]
    /\ run' = [run EXCEPT ![r].pc = "create", ![r].seen = Empty]
    /\ UNCHANGED <<state, watched, stream, late, budget, stranded, restored>>

\* The answer to a request that was served may not arrive.
CreatesInstance(r) ==
    /\ At(r, "create")
    /\ \/ /\ run[r].live
          /\ inst' = [inst EXCEPT ![r] = "off"]
          /\ \/ Goto(r, "created") /\ UNCHANGED <<state, lost>>
             \/ Fails(r) /\ lost' = lost \cup {<<"instance", r>>}
       \/ Fails(r) /\ UNCHANGED <<inst, lost>>
    /\ UNCHANGED <<row, watched, disk, clones, guest, stream, late, budget, stranded, restored>>

\* SetMigrationImage, unless the run was cancelled meanwhile; then Lassie is
\* disabled, if that can be done.
RecordsInstance(r) ==
    /\ At(r, "created")
    /\ IF run[r].live
       THEN /\ row' = [row EXCEPT !.inst = r]
            /\ \E on \in BOOLEAN : watched' = [watched EXCEPT ![r] = on]
            /\ Goto(r, "disk")
            /\ UNCHANGED lost
       ELSE /\ lost' = lost \cup {<<"instance", r>>}
            /\ Goto(r, "ending")
            /\ UNCHANGED <<row, watched>>
    /\ UNCHANGED <<state, inst, disk, clones, guest, stream, late, budget, stranded, restored>>

\* The blank disk, made once however often it is asked for; the filesystem is shrunk
\* to it, or does not fit.
CreatesDisk(r) ==
    /\ At(r, "disk")
    /\ \/ /\ run[r].live
          /\ disk' = [disk EXCEPT ![r] = "blank"]
          /\ Goto(r, IF DataDisks = {} THEN "register" ELSE "clone")
          /\ UNCHANGED state
       \/ Fails(r) /\ UNCHANGED disk
    /\ UNCHANGED <<row, inst, watched, clones, guest, stream, late, budget, history>>

\* CloneVolume of one data disk: refused while a volume of that label is left.
ClonesData(r) ==
    /\ At(r, "clone")
    /\ \/ \E d \in run[r].todo :
             /\ run[r].live
             /\ \A q \in Runs : <<d, q>> \notin clones
             /\ clones' = clones \cup {<<d, r>>}
             /\ \/ Goto(r, "cloned") /\ UNCHANGED <<state, lost>>
                \/ Fails(r) /\ lost' = lost \cup {<<d, r>>}
       \/ Fails(r) /\ UNCHANGED <<clones, lost>>
    /\ UNCHANGED <<row, inst, watched, disk, guest, stream, late, budget, stranded, restored>>

\* SetDiskArtifact, at once, unless the run was cancelled meanwhile.
RecordsClone(r) ==
    /\ At(r, "cloned")
    /\ \E d \in run[r].todo :
          /\ <<d, r>> \in clones \ lost
          /\ IF run[r].live
             THEN /\ row' = [row EXCEPT !.clone[d] = r]
                  /\ run' = [run EXCEPT ![r].pc = IF run[r].todo = {d} THEN "register" ELSE "clone",
                                        ![r].todo = @ \ {d}]
                  /\ UNCHANGED lost
             ELSE lost' = lost \cup {<<d, r>>} /\ Goto(r, "ending") /\ UNCHANGED row
    /\ UNCHANGED <<state, cloud, guest, stream, late, budget, stranded, restored>>

-----------------------------------------------------------------------------
(***************************************************************************)
(* finalizeDisk: token, rescue mode, the wait, the boot.                   *)
(***************************************************************************)

\* registerCutoverStream,
Registers(r) ==
    /\ At(r, "register")
    /\ register' = register \cup {r}
    /\ saved' = [token |-> r, cmd |-> 0]
    /\ run' = [run EXCEPT ![r].pc = "command", ![r].token = TRUE]
    /\ UNCHANGED <<state, row, cloud, guest, card, late, budget, history>>

\* setCutoverCopyCmd, which completes the row that it finds.
SetsCommand(r) ==
    /\ At(r, "command")
    /\ card' = r
    /\ saved' = IF saved = Nothing THEN saved ELSE [saved EXCEPT !.cmd = r]
    /\ Goto(r, "rescue")
    /\ UNCHANGED <<state, row, cloud, guest, register, late, budget, history>>

\* RescueInstance, and the wait for it to run.
Rescues(r) ==
    /\ At(r, "rescue")
    /\ \/ /\ run[r].live
          /\ inst' = [inst EXCEPT ![r] = "rescue"]
          /\ Goto(r, "wait")
          /\ UNCHANGED state
       \/ Fails(r) /\ UNCHANGED inst
    /\ UNCHANGED <<row, watched, disk, clones, guest, stream, late, budget, history>>

\* The instance is off: the copy is taken for done, and the token is dropped.
CopyDone(r) ==
    /\ At(r, "wait")
    /\ run[r].live
    /\ inst[r] = "off"
    /\ DropStream
    /\ Goto(r, "attach")
    /\ UNCHANGED <<state, row, cloud, guest, late, budget, history>>

\* The copy budget is over.
BudgetOver(r) ==
    /\ At(r, "wait")
    /\ late[r] >= 1
    /\ Fails(r)
    /\ UNCHANGED <<row, cloud, guest, stream, late, budget, history>>

\* A cancelled run stops waiting.
StopsWaiting(r) ==
    /\ run[r].pc \in {"begin", "wait"}
    /\ ~run[r].live
    /\ Goto(r, "ending")
    /\ UNCHANGED <<state, row, cloud, guest, stream, late, budget, history>>

\* The clones become active, and a config profile attaches them; that they report it
\* is not insisted on.
Attaches(r) ==
    /\ At(r, "attach")
    /\ \/ run[r].live /\ Goto(r, "boot") /\ UNCHANGED state
       \/ Fails(r)
    /\ UNCHANGED <<row, cloud, guest, stream, late, budget, history>>

\* The boot, tried again while it is refused; then, whatever the context says by now,
\* the watchdog is put back.
Boots(r) ==
    /\ At(r, "boot")
    /\ \/ /\ run[r].live
          /\ inst' = [inst EXCEPT ![r] = "running"]
          /\ \/ watched' = [watched EXCEPT ![r] = TRUE]
             \/ UNCHANGED watched
          /\ Goto(r, "finish")
          /\ UNCHANGED state
       \/ Fails(r) /\ UNCHANGED <<inst, watched>>
    /\ UNCHANGED <<row, disk, clones, guest, stream, late, budget, history>>

\* The last writes; they do not look at the context either.
Finishes(r) ==
    /\ At(r, "finish")
    /\ row' = [row EXCEPT !.inst = r]
    /\ state' = "launched"
    /\ Goto(r, "ending")
    /\ UNCHANGED <<cloud, guest, stream, late, budget, history>>

\* The deferred dropCutoverStream of a run that has come to registering.
RunReturns(r) ==
    /\ At(r, "ending")
    /\ IF run[r].token THEN DropStream ELSE UNCHANGED stream
    /\ run' = [run EXCEPT ![r] = Done]
    /\ UNCHANGED <<state, row, cloud, guest, late, budget, history>>

RunStep(r) ==
    \/ CleansUp(r) \/ CreatesInstance(r) \/ RecordsInstance(r) \/ CreatesDisk(r)
    \/ ClonesData(r) \/ RecordsClone(r) \/ Registers(r) \/ SetsCommand(r) \/ Rescues(r)
    \/ CopyDone(r) \/ BudgetOver(r) \/ StopsWaiting(r) \/ Attaches(r) \/ Boots(r)
    \/ Finishes(r) \/ RunReturns(r)

-----------------------------------------------------------------------------
(***************************************************************************)
(* The rescue system, time, and the appliance's restart.                   *)
(***************************************************************************)

\* The operator pastes what the card shows; handleCutoverScript answers a token
\* that is good.
Pastes(r) ==
    /\ inst[r] = "rescue"
    /\ guest[r].pc = "idle"
    /\ disk[r] # "none"
    /\ card # 0
    /\ Authorized(card)
    /\ guest' = [guest EXCEPT ![r] = [pc |-> "script", token |-> card, torn |-> FALSE]]
    /\ UNCHANGED <<state, row, run, cloud, stream, late, budget, history>>

\* handleCutoverImage; a refusal gives dd nothing to write, and does not stop the script.
Downloads(r) ==
    /\ guest[r].pc = "script"
    /\ IF Authorized(guest[r].token)
       THEN /\ disk' = [disk EXCEPT ![r] = "partial"]
            /\ guest' = [guest EXCEPT ![r].pc = "copy", ![r].torn = state # "migrating"]
            /\ UNCHANGED inst
       ELSE PowersOff(r) /\ UNCHANGED disk
    /\ UNCHANGED <<state, row, run, watched, clones, stream, late, budget, history>>

\* The image has arrived.
Copied(r) ==
    /\ guest[r].pc = "copy"
    /\ disk' = [disk EXCEPT ![r] = IF guest[r].torn THEN "partial" ELSE "whole"]
    /\ PowersOff(r)
    /\ UNCHANGED <<state, row, run, watched, clones, stream, late, budget, history>>

\* The download breaks off: the status of a pipe is dd's, and the script goes on to
\* power off as after a whole copy.
Truncated(r) ==
    /\ guest[r].pc = "copy"
    /\ disk' = [disk EXCEPT ![r] = "cut short"]
    /\ PowersOff(r)
    /\ UNCHANGED <<state, row, run, watched, clones, stream, late, budget, history>>

\* Time passes for a token: to the end of the copy budget, and, once a run that waits
\* has seen that, to its own end an hour later.
Ages(r) ==
    /\ saved.token = r \/ r \in register
    /\ late[r] < 2
    /\ late[r] = 1 => ~(At(r, "wait") /\ run[r].live)
    /\ run[r].pc \notin {"command", "rescue"}
    /\ late' = [late EXCEPT ![r] = @ + 1]
    /\ UNCHANGED <<state, row, run, cloud, guest, stream, budget, history>>

\* Runs and tokens are gone, and downloads break off; restoreCutoverState brings a
\* token back that has life left, with its command.
Restart ==
    /\ budget.restarts < MaxRestarts
    /\ budget' = [budget EXCEPT !.restarts = @ + 1]
    /\ run' = [r \in Runs |-> IF Running(r) THEN Done ELSE run[r]]
    /\ lost' = lost \cup {<<"instance", r>> : r \in {q \in Runs : At(q, "created")}}
                    \cup {x \in clones : At(x[2], "cloned") /\ row.clone[x[1]] # x[2]}
    /\ LET back == IF state = "migrating" /\ saved.token # 0 /\ late[saved.token] < 2
                   THEN saved ELSE Nothing
       IN /\ register' = {back.token} \ {0}
          /\ card' = back.cmd
          /\ restored' = restored \cup ({back.token} \ {0})
          /\ saved' = IF state = "migrating" THEN back ELSE saved
    /\ stranded' = IF \E r \in Runs : At(r, "wait") /\ run[r].live
                   THEN CHOOSE r \in Runs : At(r, "wait") /\ run[r].live
                   ELSE stranded
    /\ guest' = [r \in Runs |-> IF guest[r].pc = "copy" THEN Idle ELSE guest[r]]
    /\ inst' = [r \in Runs |-> IF guest[r].pc = "copy" /\ ~watched[r] THEN "off" ELSE inst[r]]
    /\ UNCHANGED <<state, row, watched, disk, clones, late>>

Next ==
    \/ \E r \in Runs : StartMigration(r) \/ RunStep(r)
    \/ StopMigration
    \/ \E r \in Runs : Pastes(r) \/ Downloads(r) \/ Copied(r) \/ Truncated(r) \/ Ages(r)
    \/ Restart

Spec == Init /\ [][Next]_vars

\* A run goes on, and time does; the operator need not paste anything.
FairSpec == Spec /\ \A r \in Runs : WF_vars(RunStep(r)) /\ WF_vars(Ages(r))

-----------------------------------------------------------------------------
(***************************************************************************)
(* Properties.                                                             *)
(***************************************************************************)

\* A migration shown as launched runs from a local disk that holds the whole image of
\* one frozen target, beside a recorded clone of every other disk: the power-off the
\* appliance waited for was the end of a copy, if one whose download broke off unnoticed.
LaunchedWhole ==
    state = "launched" =>
        /\ row.inst # 0 /\ inst[row.inst] = "running" /\ disk[row.inst] \in {"whole", "cut short"}
        /\ \A d \in DataDisks : <<d, row.clone[d]>> \in clones

\* While a run waits for the copy, and after a restart of the appliance has cut that
\* wait short, the card shows a command whose token is good, and the row would bring
\* both back.
CommandUsable ==
    \A r \in Runs :
        /\ (At(r, "wait") /\ run[r].live) \/ (stranded = r /\ late[r] < 2)
        => card = r /\ Authorized(r) /\ saved = [token |-> r, cmd |-> r]

\* A token does not outlive its run, however that ends: with no restart in between,
\* nobody can download the image of a target that is replicated to again.
TokenEndsWithRun ==
    \A r \in Runs :
        /\ r \in register /\ r \notin restored => Running(r)
        /\ saved.token = r /\ budget.restarts = 0 => Running(r)

\* Whatever a cutover has made in the cloud is pointed at by the row, but for what was
\* lost with an answer, a deletion or the run between the call and the write.
Accounted ==
    /\ \A r \in Runs :
          inst[r] # "none" =>
              row.inst = r \/ At(r, "created") \/ <<"instance", r>> \in lost
    /\ \A x \in clones : row.clone[x[1]] = x[2] \/ At(x[2], "cloned") \/ x \in lost

\* A cutover nobody pastes the command of ends, too; one that a restart has cut short
\* is the operator's to stop.
CutoverEnds ==
    state = "migrating" ~> state # "migrating" \/ budget.restarts > 0
=============================================================================
