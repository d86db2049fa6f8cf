------------------------------ MODULE Cutover ------------------------------
(***************************************************************************)
(* The cutover of one migration (internal/appliance/migrations.go): the    *)
(* operator's commands, each a handler, against the goroutines finalize    *)
(* and finalizeComplete they start, the receivers those stop, and the      *)
(* target device all of them work on.                                      *)
(*                                                                         *)
(* A run is one goroutine; the operator's commands act on it only through  *)
(* its context, which it looks at where the code does.  The target         *)
(* is abstracted to what may have written to it last: whole delta passes   *)
(* (Replication is about those) or machine-convert.sh, in place.  The      *)
(* launch path is the one from cloned volumes.                             *)
(***************************************************************************)
EXTENDS Naturals

CONSTANTS
    MaxRuns,      \* bound: cutover runs started
    MaxListeners, \* bound: times the receivers are started
    ConsoleOnly,  \* does the operator only press the buttons the console shows?
    MayOverrun,   \* may a session still be applying its pass when the drain gives up?
    MayStopLate,  \* may a Stop come too late to put everything back?
    MayRace,      \* may a command write over what another has done since it looked?
    MaxStops,     \* bound: stopped cutovers
    MaxRestarts,  \* bound: appliance restarts
    Removals      \* may the migration be deleted or closed?

ASSUME BoundAssumption ==
    /\ MaxRuns \in Nat \ {0} /\ MaxListeners \in Nat \ {0}
    /\ MaxStops \in Nat /\ MaxRestarts \in Nat
ASSUME OperatorAssumption ==
    /\ ConsoleOnly \in BOOLEAN /\ MayOverrun \in BOOLEAN
    /\ MayStopLate \in BOOLEAN /\ MayRace \in BOOLEAN /\ Removals \in BOOLEAN

Runs      == 1 .. MaxRuns
Listeners == 1 .. MaxListeners
Stops     == 1 .. MaxStops
Resources == {"clone", "instance"} \X Runs

VARIABLES
    state,     \* the migration's state in the store; "removed" when its row is gone
    recorded,  \* what clean-up goes by: the disk's artifact_id, launched_id
    cloud,     \* the artifacts that exist
    finalizes, \* the run whose cancel function is held, or 0
    cached,    \* is a phase-1 conversion kept for phase 2?
    pc,        \* where each run is, from the handler that is to start it
    guided,    \* is it phase 1 of a guided cutover?
    launch,    \* is it to launch an instance?
    live,      \* is its context still good?
    waits,     \* the receivers it drains, or 0
    seen,      \* the artifacts in the row it was given
    copy,      \* what its clone holds
    up,        \* the receivers now accepting, or 0
    session,   \* what each set of receivers is doing
    device,    \* the target device
    image,     \* what of it the recorded clone holds
    stop,      \* where the handler of each Stop is
    removing,  \* the handlers of Delete and Close under way
    restarts   \* restarts so far

\* History: what was cut short, a run's clean-up or a deletion.
VARIABLE interrupted

storeVars    == <<state, recorded>>
given        == <<guided, launch, live, waits, seen, copy>>
run          == <<pc, given>>
receiverVars == <<up, session>>
target       == <<device, image>>
handlers     == <<stop, removing>>
others       == <<handlers, restarts, interrupted>>
untouched    == <<target, others>>
vars == <<storeVars, cloud, finalizes, cached, run, receiverVars, target, others>>

States  == {"replicating", "migrating", "awaiting_cutover", "image_ready", "launched", "failed",
            "removed"}
RunPcs  == {"unused", "asked", "confirmed", "starting", "resuming", "begin", "quiesce", "drain",
            "draining", "convert", "converting", "park", "clean", "cleaning", "clone", "cloned",
            "create", "created", "boot", "finish", "ending", "done"}
StopPcs == {"unused", "admitted", "cancelled", "reopens", "answered"}
\* "replica": whole passes only; "partial": a conversion was begun; "mixed":
\* passes and conversion on top of each other.
Devices == {"replica", "partial", "converted", "mixed"}

TypeOK ==
    /\ state \in States
    /\ recorded \subseteq Resources
    /\ cloud \subseteq Resources
    /\ finalizes \in Runs \cup {0}
    /\ cached \in BOOLEAN
    /\ pc \in [Runs -> RunPcs]
    /\ guided \in [Runs -> BOOLEAN] /\ launch \in [Runs -> BOOLEAN] /\ live \in [Runs -> BOOLEAN]
    /\ waits \in [Runs -> Listeners \cup {0}]
    /\ seen \in [Runs -> SUBSET Resources]
    /\ copy \in [Runs -> Devices]
    /\ up \in Listeners \cup {0}
    /\ session \in [Listeners -> {"unused", "idle", "stream", "apply"}]
    /\ device \in Devices
    /\ image \in Devices
    /\ stop \in [Stops -> StopPcs]
    /\ removing \subseteq {"delete", "close"}
    /\ restarts \in 0 .. MaxRestarts
    /\ interrupted \subseteq {"clean-up", "deletion"}

Init ==
    /\ state = "replicating"
    /\ recorded = {}
    /\ cloud = {}
    /\ finalizes = 0
    /\ cached = FALSE
    /\ pc = [r \in Runs |-> "unused"]
    /\ guided = [r \in Runs |-> FALSE] /\ launch = guided /\ live = guided
    /\ waits = [r \in Runs |-> 0]
    /\ seen = [r \in Runs |-> {}]
    /\ copy = [r \in Runs |-> "replica"]
    /\ up = 1
    /\ session = [g \in Listeners |-> IF g = 1 THEN "idle" ELSE "unused"]
    /\ device = "replica"
    /\ image = "replica"
    /\ stop = [k \in Stops |-> "unused"]
    /\ removing = {}
    /\ restarts = 0
    /\ interrupted = {}

(***************************************************************************)
(* Helpers.                                                                *)
(***************************************************************************)

\* Commands are given, and receivers opened, in order.
NextRun(r)      == pc[r] = "unused" /\ \A q \in Runs : q < r => pc[q] # "unused"
NextStop(k)     == stop[k] = "unused" /\ \A j \in Stops : j < k => stop[j] # "unused"
NextListener(g) == session[g] = "unused" /\ \A h \in Listeners : h < g => session[h] # "unused"

Running(r) == pc[r] \notin {"unused", "done"}
Applying   == \E g \in Listeners : session[g] = "apply"
Converting == \E r \in Runs : pc[r] = "converting"

\* SetMigrationState and the artifact writes update no row once it is gone.
Row(new, old)   == IF state = "removed" THEN old ELSE new
SetState(s)     == state' = Row(s, state)
Goto(r, there)  == pc' = [pc EXCEPT ![r] = there] /\ UNCHANGED given

\* A goroutine that is over keeps nothing.
Retire(over) ==
    /\ pc' = [r \in Runs |-> IF r \in over THEN "done" ELSE pc[r]]
    /\ guided' = [r \in Runs |-> guided[r] /\ r \notin over]
    /\ launch' = [r \in Runs |-> launch[r] /\ r \notin over]
    /\ live' = [r \in Runs |-> live[r] /\ r \notin over]
    /\ waits' = [r \in Runs |-> IF r \in over THEN 0 ELSE waits[r]]
    /\ seen' = [r \in Runs |-> IF r \in over THEN {} ELSE seen[r]]
    /\ copy' = [r \in Runs |-> IF r \in over THEN "replica" ELSE copy[r]]

\* ensureReceivers: idempotent; a new set of listeners when none is up.
EnsureReceivers ==
    IF up # 0
    THEN UNCHANGED receiverVars
    ELSE \E g \in Listeners :
            /\ NextListener(g)
            /\ up' = g
            /\ session' = [session EXCEPT ![g] = "idle"]

\* Deleting artifacts is best effort, and there are none but those that exist.
Delete(artifacts) == \E gone \in SUBSET (artifacts \cap cloud) : cloud' = cloud \ gone

\* The row's clones; their disk has one.
ClonesOf(row) == {x \in row : x[1] = "clone"}

\* The context of the run whose cancel function is held is cancelled.
CancelRun ==
    /\ live' = [r \in Runs |-> live[r] /\ r # finalizes]
    /\ finalizes' = 0
    /\ UNCHANGED <<pc, guided, launch, waits, seen, copy>>

-----------------------------------------------------------------------------
(***************************************************************************)
(* Slips: a definition below with one plausible mistake in it, to show that*)
(* a property would notice.  No specification uses these.                  *)
(***************************************************************************)

\* The drain waits for the session, but the receivers go on accepting.
DrainBegins_KeepsAccepting(r) ==
    /\ pc[r] = "drain"
    /\ pc' = [pc EXCEPT ![r] = "draining"]
    /\ waits' = [waits EXCEPT ![r] = up]
    /\ UNCHANGED <<guided, launch, live, seen, copy>>
    /\ UNCHANGED <<storeVars, cloud, finalizes, cached, up, session, untouched>>

\* The receivers are stopped, but the pass they are applying is not waited for.
DrainEnds_NoWait(r) ==
    /\ pc[r] = "draining"
    /\ Goto(r, "convert")
    /\ UNCHANGED <<storeVars, cloud, finalizes, cached, up, session, untouched>>

\* A failed conversion is logged, and the state left as it is.
ConvertEnds_LogsOnly(r) ==
    /\ pc[r] = "converting"
    /\ \/ /\ live[r]
          /\ device' = IF device = "partial" THEN "converted" ELSE device
          /\ Goto(r, IF guided[r] THEN "park" ELSE "clean")
       \/ /\ Goto(r, "ending")
          /\ UNCHANGED device
    /\ UNCHANGED <<storeVars, cloud, finalizes, cached, receiverVars, image, others>>

\* The old artifacts are deleted, and the row goes on pointing at them.
CleanEnds_KeepsRow(r) ==
    /\ pc[r] = "cleaning"
    /\ Goto(r, "clone")
    /\ UNCHANGED <<storeVars, cloud, finalizes, cached, receiverVars, untouched>>

\* The error of the instance's creation is not looked at.
CreateInstance_ErrorIgnored(r) ==
    /\ pc[r] = "create"
    /\ \/ /\ live[r]
          /\ cloud' = cloud \cup {<<"instance", r>>}
          /\ Goto(r, "created")
       \/ Goto(r, "finish") /\ UNCHANGED cloud
    /\ UNCHANGED <<storeVars, finalizes, cached, receiverVars, untouched>>

-----------------------------------------------------------------------------
(***************************************************************************)
(* The operator.                                                           *)
(***************************************************************************)

\* A handler reads the row and looks at it, writes it, and only then touches what is in
\* memory or in the cloud; a goroutine of a cutover, or another handler, may come between.

\* The row is read: the goroutine will keep what it held.  Only the phase that clones
\* asks whether to launch.
Admit(r, there, isGuided, launches) ==
    /\ NextRun(r)
    /\ pc' = [pc EXCEPT ![r] = there]
    /\ guided' = [guided EXCEPT ![r] = isGuided]
    /\ launch' = [launch EXCEPT ![r] = launches /\ ~isGuided]
    /\ seen' = [seen EXCEPT ![r] = recorded]
    /\ UNCHANGED <<live, waits, copy>>
    /\ UNCHANGED <<storeVars, cloud, finalizes, cached, receiverVars, untouched>>

\* handleStartMigration: the baseline is complete; the state is not looked at,
\* the console alone keeps the button away.
Startable == state # "removed" /\ (ConsoleOnly => state \in {"replicating", "failed"})

StartMigration(r, isGuided, launches) ==
    /\ Startable
    /\ Admit(r, "asked", isGuided, launches)

\* handleCompleteCutover: phase 2 of a guided cutover.
Completable == state = "awaiting_cutover"

CompleteCutover(r, launches) ==
    /\ Completable
    /\ Admit(r, "confirmed", FALSE, launches)

\* A Stop has cancelled the run, and has not brought the receivers back yet.
Stopping == \E k \in Stops : stop[k] \in {"cancelled", "reopens"}

\* The migration has moved on since the handler looked, or a Stop is at it.
Overtaken(r) == Stopping \/ ~(IF pc[r] = "asked" THEN Startable ELSE Completable)

\* Either sets it to migrating, without another look.
Accept(r) ==
    /\ pc[r] \in {"asked", "confirmed"}
    /\ Overtaken(r) => MayRace
    /\ SetState("migrating")
    /\ pc' = [pc EXCEPT ![r] = IF pc[r] = "asked" THEN "starting" ELSE "resuming"]
    /\ live' = [live EXCEPT ![r] = TRUE]
    /\ UNCHANGED <<guided, launch, waits, seen, copy>>
    /\ UNCHANGED <<recorded, cloud, finalizes, cached, receiverVars, untouched>>

\* The end of either: the cancel function is kept, the goroutine started.
LaunchRun(r) ==
    /\ pc[r] \in {"starting", "resuming"}
    /\ finalizes' = r
    /\ Goto(r, IF pc[r] = "starting" THEN "begin" ELSE "convert")
    /\ UNCHANGED <<storeVars, cloud, cached, receiverVars, untouched>>

\* Too late to put everything back: the run is over, the conversion has begun on the
\* target, or a run is at work that a Stop will not cancel ahead of its last look before
\* the drain.
StopsLate ==
    \/ state \notin {"migrating", "replicating"}
    \/ device # "replica"
    \/ \E r \in Runs : /\ Running(r) /\ live[r] /\ pc[r] # "ending"
                       /\ ~(r = finalizes /\ pc[r] \in {"begin", "quiesce"})

\* handleStopMigration: Stop, or Cancel while awaiting the power-off.  The state
\* is looked at here, and written by StopMigration.
AdmitStop(k) ==
    /\ NextStop(k)
    /\ state \in {"migrating", "awaiting_cutover"}
    /\ stop' = [stop EXCEPT ![k] = "admitted"]
    /\ UNCHANGED <<storeVars, cloud, finalizes, cached, run, receiverVars, target, removing,
                   restarts, interrupted>>

\* Its run is cancelled, and what it kept for its second phase forgotten.
StopCancels(k) ==
    /\ stop[k] = "admitted"
    /\ StopsLate => MayStopLate
    /\ stop' = [stop EXCEPT ![k] = "cancelled"]
    /\ CancelRun
    /\ cached' = FALSE
    /\ UNCHANGED <<storeVars, cloud, receiverVars, target, removing, restarts, interrupted>>

StopMigration(k) ==
    /\ stop[k] = "cancelled"
    /\ stop' = [stop EXCEPT ![k] = "reopens"]
    /\ SetState("replicating")
    /\ UNCHANGED <<recorded, cloud, finalizes, cached, run, receiverVars, target, removing,
                   restarts, interrupted>>

\* The row is read again for its receivers; it may go behind that read, or before it.
StopReopens(k) ==
    /\ stop[k] = "reopens"
    /\ stop' = [stop EXCEPT ![k] = "answered"]
    /\ EnsureReceivers \/ (state = "removed" /\ UNCHANGED receiverVars)
    /\ UNCHANGED <<storeVars, cloud, finalizes, cached, run, target, removing, restarts,
                   interrupted>>

\* handleDeleteMigration, or handleCloseMigration, which keeps what was launched:
\* cleanupMigrationResources comes first and the row goes last.
RemoveMigration(how) ==
    /\ Removals
    /\ how \notin removing
    /\ removing' = removing \cup {how}
    /\ state # "removed"
    /\ how = "close" => state \in {"image_ready", "launched"}
    /\ CancelRun
    /\ cached' = FALSE
    /\ up' = 0
    /\ IF how = "close" THEN UNCHANGED cloud ELSE Delete(recorded)
    /\ UNCHANGED <<storeVars, session, target, stop, restarts, interrupted>>

\* DeleteMigration, or its failure, which the handler answers with and leaves at that.
RemoveRow(how) ==
    /\ how \in removing
    /\ removing' = removing \ {how}
    /\ \/ recorded' = {} /\ state' = "removed" /\ UNCHANGED interrupted
       \/ /\ interrupted' = interrupted \cup {c \in {"deletion"} : how = "delete"}
          /\ UNCHANGED storeVars
    /\ UNCHANGED <<cloud, finalizes, cached, run, receiverVars, target, stop, restarts>>

StopStep(k) == StopCancels(k) \/ StopMigration(k) \/ StopReopens(k)

Operator ==
    \/ \E r \in Runs, isGuided \in BOOLEAN, launches \in BOOLEAN :
          StartMigration(r, isGuided, launches)
    \/ \E r \in Runs, launches \in BOOLEAN : CompleteCutover(r, launches)
    \/ \E k \in Stops : AdmitStop(k) \/ StopStep(k)
    \/ \E how \in {"delete", "close"} : RemoveMigration(how) \/ RemoveRow(how)

-----------------------------------------------------------------------------
(***************************************************************************)
(* finalize: freeze the target, and for a guided cutover convert and park. *)
(***************************************************************************)

\* Skip, a source that is off, or the wait for a point-in-time pass.
BeginRun(r) ==
    /\ pc[r] = "begin"
    /\ \/ Goto(r, "quiesce")
       \/ Goto(r, IF live[r] THEN "drain" ELSE "ending")
    /\ UNCHANGED <<storeVars, cloud, finalizes, cached, receiverVars, untouched>>

\* quiesceForCutover returns: every disk settled, the deadline, or a cancel.
QuiesceEnds(r) ==
    /\ pc[r] = "quiesce"
    /\ Goto(r, IF live[r] THEN "drain" ELSE "ending")
    /\ UNCHANGED <<storeVars, cloud, finalizes, cached, receiverVars, untouched>>

\* drainReceivers, up to its wait; it does not look at the context.
DrainBegins(r) ==
    /\ pc[r] = "drain"
    /\ pc' = [pc EXCEPT ![r] = "draining"]
    /\ waits' = [waits EXCEPT ![r] = up]
    /\ UNCHANGED <<guided, launch, live, seen, copy>>
    /\ up' = 0
    /\ UNCHANGED <<storeVars, cloud, finalizes, cached, session, untouched>>

\* The drained loops have exited, or the grace is over: then a session that is
\* still reading is severed, one that applies its pass runs on.
DrainEnds(r) ==
    /\ pc[r] = "draining"
    /\ LET g == waits[r]
       IN IF g = 0 \/ session[g] = "idle"
          THEN UNCHANGED session
          ELSE /\ session[g] = "apply" => MayOverrun
               /\ session' = [session EXCEPT ![g] = IF @ = "stream" THEN "idle" ELSE @]
    /\ pc' = [pc EXCEPT ![r] = "convert"]
    /\ waits' = [waits EXCEPT ![r] = 0]
    /\ UNCHANGED <<guided, launch, live, seen, copy>>
    /\ UNCHANGED <<storeVars, cloud, finalizes, cached, up, untouched>>

\* Phase 1 of a guided cutover is over: cutoverConvert and pendingCutover are
\* filled in and the migration awaits the power-off.  No look at the context.
Park(r) ==
    /\ pc[r] = "park"
    /\ cached' = TRUE
    /\ SetState("awaiting_cutover")
    /\ Goto(r, "ending")
    /\ UNCHANGED <<recorded, cloud, finalizes, receiverVars, untouched>>

\* The deferred deletion: of whichever cancel function is held by now.
RunReturns(r) ==
    /\ pc[r] = "ending"
    /\ finalizes' = 0
    /\ Retire({r})
    /\ UNCHANGED <<storeVars, cloud, cached, receiverVars, untouched>>

\* s.fail, which an error under a cancelled context skips.  The look at the
\* context may come before a cancel, and the write after it.
RunFails(r) ==
    /\ SetState("failed") \/ (~live[r] /\ UNCHANGED state)
    /\ Goto(r, "ending")

-----------------------------------------------------------------------------
(***************************************************************************)
(* convertBootDisk, called by either phase.                                *)
(***************************************************************************)

\* Phase 2 reuses phase 1's result if there is one; otherwise machine-convert.sh
\* starts on the device, under the run's context.
ConvertBegins(r) ==
    /\ pc[r] = "convert"
    /\ \/ /\ ~guided[r] /\ cached
          /\ cached' = FALSE
          /\ Goto(r, "clean")
          /\ UNCHANGED device
       \/ /\ guided[r] \/ ~cached
          /\ ~live[r]
          /\ Goto(r, "ending")
          /\ UNCHANGED <<cached, device>>
       \/ /\ guided[r] \/ ~cached
          /\ live[r]
          /\ device' = IF Applying \/ Converting \/ device = "mixed" THEN "mixed" ELSE "partial"
          /\ Goto(r, "converting")
          /\ UNCHANGED cached
    /\ UNCHANGED <<storeVars, cloud, finalizes, receiverVars, image, others>>

\* The script exits; a failed conversion fails a guided cutover and one without a
\* root filesystem, and otherwise the volume is cloned for repair by hand.
ConvertEnds(r) ==
    /\ pc[r] = "converting"
    /\ \/ /\ live[r]
          /\ device' = IF device = "partial" THEN "converted" ELSE device
          /\ Goto(r, IF guided[r] THEN "park" ELSE "clean")
          /\ UNCHANGED state
       \/ RunFails(r) /\ UNCHANGED device
       \/ /\ live[r] /\ ~guided[r]
          /\ Goto(r, "clean")
          /\ UNCHANGED <<state, device>>
    /\ UNCHANGED <<recorded, cloud, finalizes, cached, receiverVars, image, others>>

-----------------------------------------------------------------------------
(***************************************************************************)
(* finalizeComplete: clone, launch.                                        *)
(***************************************************************************)

\* cleanupCutoverArtifacts: what the row the run was given points at is deleted,
CleanBegins(r) ==
    /\ pc[r] = "clean"
    /\ Delete(seen[r])
    /\ Goto(r, "cleaning")
    /\ UNCHANGED <<storeVars, finalizes, cached, receiverVars, untouched>>

\* and then the disk's clone is forgotten if that row had one, the instance in any
\* case.
CleanEnds(r) ==
    /\ pc[r] = "cleaning"
    /\ recorded' = IF ClonesOf(seen[r]) # {} THEN {} ELSE ClonesOf(recorded)
    /\ pc' = [pc EXCEPT ![r] = "clone"]
    /\ seen' = [seen EXCEPT ![r] = {}]
    /\ UNCHANGED <<guided, launch, live, waits, copy>>
    /\ UNCHANGED <<state, cloud, finalizes, cached, receiverVars, untouched>>

\* CloneVolume: refused while a volume of the same label is left.
CloneVolume(r) ==
    /\ pc[r] = "clone"
    /\ \/ /\ live[r] /\ state # "removed"
          /\ \A q \in Runs : <<"clone", q>> \notin cloud
          /\ cloud' = cloud \cup {<<"clone", r>>}
          /\ pc' = [pc EXCEPT ![r] = "cloned"]
          /\ copy' = [copy EXCEPT ![r] = IF Applying \/ Converting THEN "mixed" ELSE device]
          /\ UNCHANGED <<state, guided, launch, live, waits, seen>>
       \/ RunFails(r) /\ UNCHANGED cloud
    /\ UNCHANGED <<recorded, finalizes, cached, receiverVars, untouched>>

\* WaitVolumeActive, and only then SetDiskArtifact and SetMigrationImage.
RecordClone(r) ==
    /\ pc[r] = "cloned"
    /\ \/ /\ live[r]
          /\ recorded' = Row({<<"clone", r>>}, recorded)
          /\ image' = copy[r]
          /\ Goto(r, IF launch[r] THEN "create" ELSE "finish")
          /\ UNCHANGED state
       \/ RunFails(r) /\ UNCHANGED <<recorded, image>>
    /\ UNCHANGED <<cloud, finalizes, cached, receiverVars, device, others>>

CreateInstance(r) ==
    /\ pc[r] = "create"
    /\ \/ /\ live[r]
          /\ cloud' = cloud \cup {<<"instance", r>>}
          /\ Goto(r, "created")
          /\ UNCHANGED state
       \/ RunFails(r) /\ UNCHANGED cloud
    /\ UNCHANGED <<recorded, finalizes, cached, receiverVars, untouched>>

\* SetMigrationImage, unless the run was cancelled while the instance was created.
RecordInstance(r) ==
    /\ pc[r] = "created"
    /\ IF live[r]
       THEN /\ recorded' = Row(ClonesOf(recorded) \cup {<<"instance", r>>}, recorded)
            /\ Goto(r, "boot")
       ELSE Goto(r, "ending") /\ UNCHANGED recorded
    /\ UNCHANGED <<state, cloud, finalizes, cached, receiverVars, untouched>>

\* CreateConfigBootingVolumes and Boot.
BootInstance(r) ==
    /\ pc[r] = "boot"
    /\ \/ live[r] /\ Goto(r, "finish") /\ UNCHANGED state
       \/ RunFails(r)
    /\ UNCHANGED <<recorded, cloud, finalizes, cached, receiverVars, untouched>>

\* The last state write; it does not look at the context.
Finish(r) ==
    /\ pc[r] = "finish"
    /\ SetState(IF launch[r] THEN "launched" ELSE "image_ready")
    /\ Goto(r, "ending")
    /\ UNCHANGED <<recorded, cloud, finalizes, cached, receiverVars, untouched>>

RunStep(r) ==
    \/ Accept(r) \/ LaunchRun(r) \/ BeginRun(r) \/ QuiesceEnds(r)
    \/ DrainBegins(r) \/ DrainEnds(r)
    \/ ConvertBegins(r) \/ ConvertEnds(r) \/ Park(r)
    \/ CleanBegins(r) \/ CleanEnds(r) \/ CloneVolume(r) \/ RecordClone(r)
    \/ CreateInstance(r) \/ RecordInstance(r) \/ BootInstance(r) \/ Finish(r)
    \/ RunReturns(r)

-----------------------------------------------------------------------------
(***************************************************************************)
(* The receivers' sessions, and the appliance's restart.                   *)
(***************************************************************************)

SessionBegins(g) ==
    /\ up = g
    /\ session[g] = "idle"
    /\ session' = [session EXCEPT ![g] = "stream"]
    /\ UNCHANGED <<storeVars, cloud, finalizes, cached, run, up, untouched>>

\* The pass is complete and is written to the device.
SessionApplies(g) ==
    /\ session[g] = "stream"
    /\ session' = [session EXCEPT ![g] = "apply"]
    /\ device' = IF device = "replica" THEN device ELSE "mixed"
    /\ UNCHANGED <<storeVars, cloud, finalizes, cached, run, up, image, others>>

\* Applied, or given up before the pass was complete.
SessionEnds(g) ==
    /\ session[g] \in {"stream", "apply"}
    /\ session' = [session EXCEPT ![g] = "idle"]
    /\ UNCHANGED <<storeVars, cloud, finalizes, cached, run, up, untouched>>

\* All that is in memory is gone; StartActiveReceivers brings the receivers back
\* while replicating, and nothing resumes a run.
Restart ==
    /\ restarts < MaxRestarts
    /\ restarts' = restarts + 1
    /\ interrupted' = interrupted
         \cup {c \in {"clean-up"} : \E r \in Runs : pc[r] = "cleaning"}
         \cup {c \in {"deletion"} : "delete" \in removing}
    /\ Retire({r \in Runs : Running(r)})
    /\ finalizes' = 0
    /\ cached' = FALSE
    /\ LET quiet == [g \in Listeners |-> IF session[g] = "unused" THEN "unused" ELSE "idle"]
       IN IF state = "replicating"
          THEN \E g \in Listeners : /\ NextListener(g)
                                    /\ up' = g
                                    /\ session' = [quiet EXCEPT ![g] = "idle"]
          ELSE up' = 0 /\ session' = quiet
    /\ stop' = [k \in Stops |-> IF stop[k] = "unused" THEN "unused" ELSE "answered"]
    /\ removing' = {}
    /\ UNCHANGED <<storeVars, cloud, target>>

ReceiverStep == \E g \in Listeners : SessionBegins(g) \/ SessionApplies(g) \/ SessionEnds(g)

Next ==
    \/ Operator
    \/ \E r \in Runs : RunStep(r)
    \/ ReceiverStep
    \/ Restart

Spec == Init /\ [][Next]_vars

\* A goroutine runs on: every wait of it has a deadline or its context.  So does the
\* handler of a command, whose client stays on.  A session's pass has an end.
Fairness ==
    /\ \A r \in Runs : WF_vars(RunStep(r))
    /\ \A k \in Stops : WF_vars(StopStep(k))
    /\ \A how \in {"delete", "close"} : WF_vars(RemoveRow(how))
    /\ \A g \in Listeners : WF_vars(SessionEnds(g))

FairSpec == Spec /\ Fairness

-----------------------------------------------------------------------------
(***************************************************************************)
(* Properties.                                                             *)
(***************************************************************************)

\* From the moment a deletion is accepted its migration is past caring for.
Deleting == "delete" \in removing \/ "deletion" \in interrupted

\* While the console tells the operator that it is safe to power the source off,
\* replication is stopped, nothing writes to the target, and it is converted.
SafeToPowerOff ==
    state = "awaiting_cutover" /\ ~Deleting =>
        /\ up = 0
        /\ \A g \in Listeners : session[g] \notin {"stream", "apply"}
        /\ device = "converted"

\* What a finished cutover cloned is one pass of the source and its conversion,
\* not passes and conversions laid over each other.
ClonesOnePass ==
    state \in {"image_ready", "launched"} /\ ~Deleting => image # "mixed"

\* A migration shown as launched has its instance, and a clone to boot it from,
\* while it is being closed too, but not once its deletion is under way.
LaunchedHasInstance ==
    state = "launched" /\ ~Deleting =>
        \A kind \in {"clone", "instance"} : \E r \in Runs : <<kind, r>> \in recorded \cap cloud

\* What clean-up, Delete and the console go by never names an artifact that has
\* been deleted, whatever runs and commands overlap, once what is deleting has come
\* to its write: a second run deletes only what the row held when it started, and
\* the row forgets it.
RecordedExists ==
    \/ recorded \subseteq cloud
    \/ "delete" \in removing
    \/ interrupted # {}
    \/ \E r \in Runs : pc[r] = "cleaning"

\* A migration does not stay in migrating: its run, or whoever cancelled it,
\* moves it on.
CutoverEnds == state = "migrating" ~> state # "migrating"
=============================================================================
