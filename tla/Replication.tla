---------------------------- MODULE Replication ----------------------------
(***************************************************************************)
(* The replication data plane of one disk: the agent's pass                *)
(* (cmd/agent/main.go), the session the receiver runs for it               *)
(* (internal/receiver), the agent's checkpoint manifest                    *)
(* (internal/blockdiff) and what the appliance records when a pass lands   *)
(* (ensureDiskReceiver's callbacks).                                       *)
(*                                                                         *)
(* A block's content is a number and so is its SHA-256 (no collisions).    *)
(* Blank stands for what a new volume holds, for the zero hash of a block  *)
(* NewManifest has not filled in, and for "no record" in the functions     *)
(* that hold at most one record a block.  A pass reads the device in       *)
(* ascending order and sends a block at most once, so the frames between   *)
(* agent and receiver, and the records of the staging file, are functions  *)
(* from blocks to contents and are consumed smallest block first.          *)
(***************************************************************************)
EXTENDS Naturals

CONSTANTS
    NumBlocks,         \* blocks of the disk
    MaxVersion,        \* bound: contents a source block takes
    Recurring,         \* may a block's content return to an earlier one?
    HasSnapshot,       \* can the source give a point-in-time read (LVM, remount-ro)?
    MaxAgentFaults,    \* bound: agent deaths and broken connections
    MaxReceiverFaults, \* bound: failed sessions, appliance restarts, host crashes
    MaxRefusals,       \* bound: hellos answered with a hold or a rejection
    MaxForced,         \* bound: passes run with --full
    MaxRequests,       \* bound: cutovers asking for a consistent pass
    None               \* no manifest file

ASSUME SizeAssumption == NumBlocks \in Nat \ {0} /\ MaxVersion \in Nat \ {0}
ASSUME ModeAssumption == Recurring \in BOOLEAN /\ HasSnapshot \in BOOLEAN

Blank    == 0
Blocks   == 1 .. NumBlocks
Versions == 1 .. MaxVersion
Content  == [Blocks -> 0 .. MaxVersion]
Nothing  == [b \in Blocks |-> Blank]

ASSUME NoneAssumption == None \notin Content

VARIABLES
    src,       \* the live source device
    manifest,  \* the agent's checkpoint file, or None
    agent,     \* the pass: where it is, full or delta, point-in-time or live
    cur,       \* next block the pass reads
    next,      \* the manifest the pass is building
    img,       \* the snapshot a point-in-time pass reads
    conn,      \* the connection: agent end open, Done sent, DoneAck in flight
    wire,      \* block frames sent and not yet received
    rcv,       \* the receiver's session
    stage,     \* the staging file of a delta session
    dev,       \* the target device as its readers see it
    vol,       \* what of it is durable
    app,       \* appliance: consistency wanted, captured, full_sync_done
    budget     \* faults and requests so far

(***************************************************************************)
(* History: what the last pass to send Done had read, whether the target   *)
(* is free of the direct writes of an unfinished full sync, and the        *)
(* contents the source has had.                                            *)
(***************************************************************************)
VARIABLES offer, whole, instants

history  == <<offer, whole, instants>>
passVars == <<agent, cur, next, img>>
linkVars == <<conn, wire>>
rcvVars  == <<rcv, stage>>
diskVars == <<dev, vol>>
vars == <<src, manifest, passVars, linkVars, rcvVars, diskVars, app, budget, history>>

\* The values of the records.
AgentPcs == {"idle", "hello", "resync", "stream", "wait", "commit"}
RcvPcs   == {"accept", "stream", "apply", "ack", "record", "mark"}
Passes   == [pc : AgentPcs, full : BOOLEAN, consistent : BOOLEAN, mayBail : BOOLEAN]
Links    == [open : BOOLEAN, done : BOOLEAN, reply : BOOLEAN]
Sessions == [pc : RcvPcs, full : BOOLEAN, consistent : BOOLEAN]
Outcomes == [want : BOOLEAN, marked : BOOLEAN, fullSyncDone : BOOLEAN]
Budgets  == [agent : Nat, receiver : Nat, refused : Nat, forced : Nat, requested : Nat]

TypeOK ==
    /\ src \in Content
    /\ manifest \in Content \cup {None}
    /\ agent \in Passes
    /\ cur \in 1 .. (NumBlocks + 1)
    /\ next \in Content
    /\ img \in Content
    /\ conn \in Links
    /\ wire \in Content
    /\ rcv \in Sessions
    /\ stage \in Content
    /\ dev \in Content
    /\ vol \in Content
    /\ app \in Outcomes
    /\ budget \in Budgets
    /\ offer \in Content
    /\ whole \in BOOLEAN
    /\ instants \subseteq Content

\* No pass runs.
Resting == [pc |-> "idle", full |-> FALSE, consistent |-> FALSE, mayBail |-> FALSE]

\* No session runs: the receiver waits in Accept.
Listening == [pc |-> "accept", full |-> FALSE, consistent |-> FALSE]

Init ==
    /\ src = [b \in Blocks |-> 1]
    /\ manifest = None
    /\ agent = Resting
    /\ cur = 1
    /\ next = Nothing
    /\ img = Nothing
    /\ conn = [open |-> FALSE, done |-> FALSE, reply |-> FALSE]
    /\ wire = Nothing
    /\ rcv = Listening
    /\ stage = Nothing
    /\ dev = Nothing
    /\ vol = Nothing
    /\ app = [want |-> FALSE, marked |-> FALSE, fullSyncDone |-> FALSE]
    /\ budget = [agent |-> 0, receiver |-> 0, refused |-> 0, forced |-> 0, requested |-> 0]
    /\ offer = Nothing
    /\ whole = FALSE
    /\ instants = {src}

(***************************************************************************)
(* Helpers.                                                                *)
(***************************************************************************)

\* f's first record, in device order.
First(f, b) == f[b] # Blank /\ \A c \in Blocks : c < b => f[c] = Blank

\* The target once every staged record is written to it.
Overlay(base, records) ==
    [b \in Blocks |-> IF records[b] # Blank THEN records[b] ELSE base[b]]

\* What the pass reads: the live device, or its snapshot.
ReadSource == IF agent.consistent THEN img ELSE src

\* Handle returns: the staging file is removed, unread frames are dropped.
SessionEnds ==
    /\ rcv' = Listening
    /\ stage' = Nothing
    /\ wire' = Nothing

\* The session is over, but its callback has a disk to mark.
BeginsMark ==
    /\ rcv' = [rcv EXCEPT !.pc = "mark"]
    /\ stage' = Nothing
    /\ wire' = Nothing

-----------------------------------------------------------------------------
(***************************************************************************)
(* Slips: a definition below with one plausible mistake in it, to show that*)
(* a property would notice.  No specification uses these.                  *)
(***************************************************************************)

\* The checkpoint is saved with Done, before the target has acknowledged.
SendDone_SavesEarly ==
    /\ agent.pc = "stream"
    /\ cur = NumBlocks + 1
    /\ agent' = [agent EXCEPT !.pc = "wait"]
    /\ conn' = [conn EXCEPT !.done = TRUE]
    /\ offer' = next
    /\ manifest' = next
    /\ UNCHANGED <<src, cur, next, img, wire, rcvVars, diskVars, app, budget, whole, instants>>

\* Live passes are let through again once the disk is marked consistent.
RequestConsistent_UntilMarked == app.want /\ ~app.marked /\ ~agent.consistent

\* DoneAck does not wait for dev.Sync.
SyncTarget_Skipped ==
    /\ rcv.pc = "apply"
    /\ stage = Nothing
    /\ rcv' = [rcv EXCEPT !.pc = "ack"]
    /\ UNCHANGED <<src, manifest, passVars, linkVars, stage, diskVars, app, budget, history>>

\* full_sync_done is overwritten instead of or-ed.
RecordDiskSync_Overwrites ==
    /\ rcv.pc = "record"
    /\ app' = [app EXCEPT !.fullSyncDone = rcv.full]
    /\ IF rcv.consistent /\ app.want THEN BeginsMark ELSE SessionEnds
    /\ UNCHANGED <<src, manifest, passVars, conn, diskVars, budget, history>>

\* A pass that completes while one is wanted marks the disk, of whatever kind it is.
RecordDiskSync_MarksAny ==
    /\ rcv.pc = "record"
    /\ app' = [app EXCEPT !.fullSyncDone = @ \/ rcv.full]
    /\ IF app.want THEN BeginsMark ELSE SessionEnds
    /\ UNCHANGED <<src, manifest, passVars, conn, diskVars, budget, history>>

\* A dropped delta keeps what it had staged.
AbortSession_Applies ==
    /\ rcv.pc = "stream"
    /\ ~conn.open
    /\ ~conn.done
    /\ wire = Nothing
    /\ dev' = Overlay(dev, stage)
    /\ SessionEnds
    /\ UNCHANGED <<src, manifest, passVars, conn, vol, app, budget, history>>

-----------------------------------------------------------------------------
(***************************************************************************)
(* The source, under its own load.                                         *)
(***************************************************************************)

SourceWrite(b) ==
    /\ \E v \in Versions :
          /\ IF Recurring THEN v # src[b] ELSE v = src[b] + 1
          /\ src' = [src EXCEPT ![b] = v]
    /\ instants' = instants \cup {src'}
    /\ UNCHANGED <<manifest, passVars, linkVars, rcvVars, diskVars, app, budget, offer, whole>>

(***************************************************************************)
(* The agent.                                                              *)
(***************************************************************************)

\* replicate() returns, with an error or cleanly: its locals are gone.
PassEnds ==
    /\ agent' = Resting
    /\ cur' = 1
    /\ next' = Nothing
    /\ img' = Nothing

\* replicate() up to the Hello, first attempt: live read, manifest loaded
\* unless --full, an unusable manifest promoting the pass to a full sync.
Prepare ==
    /\ agent.pc = "idle"
    /\ \E forced \in BOOLEAN :
          /\ forced => budget.forced < MaxForced
          /\ agent' = [pc |-> "hello", full |-> forced \/ manifest = None,
                       consistent |-> FALSE, mayBail |-> TRUE]
          /\ budget' = [budget EXCEPT !.forced = IF forced THEN @ + 1 ELSE @]
    /\ UNCHANGED <<src, manifest, cur, next, img, linkVars, rcvVars, diskVars, app, history>>

\* run()'s second attempt, after a bounce: from a point-in-time source if there
\* is one, else live again.  Neither may bail out.
PrepareAgain ==
    /\ agent.pc = "resync"
    /\ agent' = [agent EXCEPT !.pc = "hello", !.mayBail = FALSE, !.consistent = HasSnapshot]
    /\ img' = IF HasSnapshot THEN src ELSE img
    /\ UNCHANGED <<src, manifest, cur, next, linkVars, rcvVars, diskVars, app, budget, history>>

\* process(i): read, hash, skip when the checkpoint has the same hash, else send.
ProcessBlock ==
    /\ agent.pc = "stream"
    /\ cur \in Blocks
    /\ LET sum  == ReadSource[cur]
           same == ~agent.full /\ manifest[cur] = sum
       IN /\ next' = [next EXCEPT ![cur] = sum]
          /\ wire' = IF same THEN wire ELSE [wire EXCEPT ![cur] = sum]
    /\ cur' = cur + 1
    /\ UNCHANGED <<src, manifest, agent, img, conn, rcvVars, diskVars, app, budget, history>>

SendDone ==
    /\ agent.pc = "stream"
    /\ cur = NumBlocks + 1
    /\ agent' = [agent EXCEPT !.pc = "wait"]
    /\ conn' = [conn EXCEPT !.done = TRUE]
    /\ offer' = next
    /\ UNCHANGED <<src, manifest, cur, next, img, wire, rcvVars, diskVars, app, budget,
                   whole, instants>>

ReceiveDoneAck ==
    /\ agent.pc = "wait"
    /\ conn.reply
    /\ agent' = [agent EXCEPT !.pc = "commit"]
    /\ conn' = [conn EXCEPT !.open = FALSE, !.reply = FALSE]
    /\ UNCHANGED <<src, manifest, cur, next, img, wire, rcvVars, diskVars, app, budget, history>>

\* next.Save: the only place the checkpoint file changes.
SaveManifest ==
    /\ agent.pc = "commit"
    /\ manifest' = next
    /\ PassEnds
    /\ UNCHANGED <<src, linkVars, rcvVars, diskVars, app, budget, history>>

\* The agent dies (power-off, signal) or its connection breaks.  What it had on
\* the wire arrives up to some block, and Done only behind all of it.
AgentStops ==
    /\ agent.pc # "idle"
    /\ budget.agent < MaxAgentFaults
    /\ budget' = [budget EXCEPT !.agent = @ + 1]
    /\ PassEnds
    /\ IF conn.open
       THEN \E last \in 0 .. NumBlocks, behind \in BOOLEAN :
               /\ wire' = [b \in Blocks |-> IF b <= last THEN wire[b] ELSE Blank]
               /\ conn' = [open |-> FALSE, reply |-> FALSE,
                           done |-> conn.done /\ behind /\ last = NumBlocks]
       ELSE UNCHANGED linkVars
    /\ UNCHANGED <<src, manifest, rcvVars, diskVars, app, history>>

-----------------------------------------------------------------------------
(***************************************************************************)
(* The receiver: Serve's single accept loop running Handle.                *)
(***************************************************************************)

\* Must the Hello be bounced into a crash-consistent re-read?
RequestConsistent == app.want /\ ~agent.consistent

\* Handle up to the accepting HelloAck.
HandleHello ==
    /\ rcv.pc = "accept"
    /\ agent.pc = "hello"
    /\ ~RequestConsistent
    /\ rcv' = [pc |-> "stream", full |-> agent.full, consistent |-> agent.consistent]
    /\ stage' = Nothing
    /\ wire' = Nothing
    /\ conn' = [open |-> TRUE, done |-> FALSE, reply |-> FALSE]
    /\ agent' = [agent EXCEPT !.pc = "stream"]
    /\ UNCHANGED <<src, manifest, cur, next, img, diskVars, app, budget, history>>

\* Handle answers ConsistentResync: the agent re-reads, or, on an attempt that
\* may not bail out, gives up on this pass.
BounceHello ==
    /\ rcv.pc = "accept"
    /\ agent.pc = "hello"
    /\ RequestConsistent
    /\ IF agent.mayBail
       THEN /\ agent' = [agent EXCEPT !.pc = "resync"]
            /\ UNCHANGED <<cur, next, img>>
       ELSE PassEnds
    /\ UNCHANGED <<src, manifest, linkVars, rcvVars, diskVars, app, budget, history>>

\* Handle's other early returns: wrong agent or geometry, replication held by
\* the operator's gate, target not opened.
RefuseHello ==
    /\ rcv.pc = "accept"
    /\ agent.pc = "hello"
    /\ budget.refused < MaxRefusals
    /\ budget' = [budget EXCEPT !.refused = @ + 1]
    /\ PassEnds
    /\ UNCHANGED <<src, manifest, linkVars, rcvVars, diskVars, app, history>>

\* MsgBlock: a delta's block is staged, a full sync's goes straight to the device.
ReceiveBlock(b) ==
    /\ rcv.pc = "stream"
    /\ First(wire, b)
    /\ wire' = [wire EXCEPT ![b] = Blank]
    /\ IF rcv.full
       THEN /\ dev' = [dev EXCEPT ![b] = wire[b]]
            /\ whole' = FALSE
            /\ UNCHANGED stage
       ELSE /\ stage' = [stage EXCEPT ![b] = wire[b]]
            /\ UNCHANGED <<dev, whole>>
    /\ UNCHANGED <<src, manifest, passVars, conn, rcv, vol, app, budget, offer, instants>>

\* MsgDone: the pass is complete.
ReceiveDone ==
    /\ rcv.pc = "stream"
    /\ wire = Nothing
    /\ conn.done
    /\ conn' = [conn EXCEPT !.done = FALSE]
    /\ rcv' = [rcv EXCEPT !.pc = "apply"]
    /\ whole' = TRUE
    /\ UNCHANGED <<src, manifest, passVars, wire, stage, diskVars, app, budget, offer, instants>>

\* One turn of stage.Apply's loop.
ApplyRecord(b) ==
    /\ rcv.pc = "apply"
    /\ First(stage, b)
    /\ dev' = [dev EXCEPT ![b] = stage[b]]
    /\ stage' = [stage EXCEPT ![b] = Blank]
    /\ UNCHANGED <<src, manifest, passVars, linkVars, rcv, vol, app, budget, history>>

\* dev.Sync, behind the last staged record.
SyncTarget ==
    /\ rcv.pc = "apply"
    /\ stage = Nothing
    /\ vol' = dev
    /\ rcv' = [rcv EXCEPT !.pc = "ack"]
    /\ UNCHANGED <<src, manifest, passVars, linkVars, stage, dev, app, budget, history>>

\* DoneAck{OK}: with the agent gone, the write succeeds into the void or the
\* session ends with the write's error and nothing is recorded.
SendDoneAck ==
    /\ rcv.pc = "ack"
    /\ conn' = [conn EXCEPT !.reply = conn.open]
    /\ \/ /\ rcv' = [rcv EXCEPT !.pc = "record"]
          /\ UNCHANGED <<wire, stage>>
       \/ /\ ~conn.open
          /\ SessionEnds
    /\ UNCHANGED <<src, manifest, passVars, diskVars, app, budget, history>>

\* onComplete: RecordDiskSync (full_sync_done is sticky), wantDiskConsistency,
RecordDiskSync ==
    /\ rcv.pc = "record"
    /\ app' = [app EXCEPT !.fullSyncDone = @ \/ rcv.full]
    /\ IF rcv.consistent /\ app.want THEN BeginsMark ELSE SessionEnds
    /\ UNCHANGED <<src, manifest, passVars, conn, diskVars, budget, history>>

\* and markDiskConsistent, under another lock and with no other look at the request.
MarkDiskConsistent ==
    /\ rcv.pc = "mark"
    /\ app' = [app EXCEPT !.marked = TRUE]
    /\ SessionEnds
    /\ UNCHANGED <<src, manifest, passVars, conn, diskVars, budget, history>>

\* "stream closed before done": the session is dropped, a delta with all of it.
AbortSession ==
    /\ rcv.pc = "stream"
    /\ ~conn.open
    /\ ~conn.done
    /\ wire = Nothing
    /\ SessionEnds
    /\ UNCHANGED <<src, manifest, passVars, conn, diskVars, app, budget, history>>

\* The agent's end of a session the receiver gave up: its pass ends with an
\* error, unless DoneAck is already on its way.
AgentLosesReceiver ==
    /\ IF conn.open /\ ~conn.reply
       THEN PassEnds
       ELSE UNCHANGED passVars
    /\ conn' = [open |-> conn.reply, done |-> FALSE, reply |-> conn.reply]

\* An error in the session (staging file, bad frame, target write, sync) or the
\* connection severed after the drain grace: Handle returns early.
SessionFails ==
    /\ rcv.pc \in {"stream", "apply"}
    /\ budget.receiver < MaxReceiverFaults
    /\ budget' = [budget EXCEPT !.receiver = @ + 1]
    /\ SessionEnds
    /\ AgentLosesReceiver
    /\ UNCHANGED <<src, manifest, diskVars, app, history>>

\* The appliance process stops and is started again; the consistency request
\* and its outcome are in memory.
ApplianceRestart ==
    /\ budget.receiver < MaxReceiverFaults
    /\ budget' = [budget EXCEPT !.receiver = @ + 1]
    /\ SessionEnds
    /\ AgentLosesReceiver
    /\ app' = [app EXCEPT !.want = FALSE, !.marked = FALSE]
    /\ UNCHANGED <<src, manifest, diskVars, history>>

\* The appliance's host crashes: writes not yet durable are lost as well.
HostCrash ==
    /\ budget.receiver < MaxReceiverFaults
    /\ budget' = [budget EXCEPT !.receiver = @ + 1]
    /\ SessionEnds
    /\ AgentLosesReceiver
    /\ app' = [app EXCEPT !.want = FALSE, !.marked = FALSE]
    /\ dev' = vol
    /\ whole' = (whole /\ vol = dev)
    /\ UNCHANGED <<src, manifest, vol, offer, instants>>

\* The kernel writes a dirty block back on its own account.
Writeback(b) ==
    /\ vol[b] # dev[b]
    /\ vol' = [vol EXCEPT ![b] = dev[b]]
    /\ UNCHANGED <<src, manifest, passVars, linkVars, rcvVars, dev, app, budget, history>>

-----------------------------------------------------------------------------
(***************************************************************************)
(* The cutover's side of it.                                               *)
(***************************************************************************)

RequestConsistency ==
    /\ budget.requested < MaxRequests
    /\ budget' = [budget EXCEPT !.requested = @ + 1]
    /\ app' = [app EXCEPT !.want = TRUE, !.marked = FALSE]
    /\ UNCHANGED <<src, manifest, passVars, linkVars, rcvVars, diskVars, history>>

ClearConsistency ==
    /\ app.want \/ app.marked
    /\ app' = [app EXCEPT !.want = FALSE, !.marked = FALSE]
    /\ UNCHANGED <<src, manifest, passVars, linkVars, rcvVars, diskVars, budget, history>>

-----------------------------------------------------------------------------

AgentStep == Prepare \/ PrepareAgain \/ ProcessBlock \/ SendDone \/ ReceiveDoneAck \/ SaveManifest

ReceiverStep ==
    \/ HandleHello \/ BounceHello
    \/ \E b \in Blocks : ReceiveBlock(b) \/ ApplyRecord(b)
    \/ ReceiveDone \/ SyncTarget \/ SendDoneAck \/ RecordDiskSync \/ MarkDiskConsistent
    \/ AbortSession

Fault == AgentStops \/ RefuseHello \/ SessionFails \/ ApplianceRestart \/ HostCrash

Next ==
    \/ AgentStep
    \/ ReceiverStep
    \/ Fault
    \/ \E b \in Blocks : SourceWrite(b) \/ Writeback(b)
    \/ RequestConsistency
    \/ ClearConsistency

Spec == Init /\ [][Next]_vars

\* The agent's timer and process, the receiver's loop, and a cutover that does
\* not hold its request for ever (quiesceForCutover's deadline).
Fairness ==
    /\ WF_vars(AgentStep)
    /\ WF_vars(ReceiverStep)
    /\ WF_vars(ClearConsistency)

FairSpec == Spec /\ Fairness

-----------------------------------------------------------------------------
(***************************************************************************)
(* Properties.                                                             *)
(***************************************************************************)

\* When the agent is about to commit its checkpoint, the target durably holds
\* exactly the content the checkpoint lists: the manifest is "the source of
\* truth for what the target already has" (blockdiff.go), whatever passes,
\* lost acknowledgements and crashes came before.
CheckpointIsDurable == agent.pc = "commit" => vol = next

\* The image the target holds once the pass being applied is through.
Image == IF rcv.pc = "apply" THEN Overlay(dev, stage) ELSE dev

\* A disk that a cutover asks for and that is marked consistent stays at one instant of
\* the source until the request is dropped, whatever live passes the agent tries meanwhile
\* (markDiskConsistent leaves the request set for that), and whenever the mark was decided.
FrozenAtOneInstant == app.want /\ app.marked /\ whole => Image \in instants

\* What the disk promises a cutover that waits for it; a target that holds no image, as a
\* baseline is writing it, is not at more than one instant.
Request == INSTANCE ConsistentPass
             WITH want <- app.want, marked <- app.marked, atOnce <- (whole => Image \in instants)

KeepsRequest == Request!Spec

\* A complete pass is being applied, and not all of it has been.
Applying == rcv.pc = "apply" /\ stage # Nothing

\* A fault of the receiver that leaves the target between two images: inside Apply, or
\* a crash of its host that loses writes.
Tears ==
    \/ Applying /\ (SessionFails \/ ApplianceRestart \/ HostCrash)
    \/ HostCrash /\ vol # dev

\* The pass may have changed the target: its Done is sent, or it is a full sync.
Landing == agent.pc \in {"wait", "commit"} \/ (agent.pc = "stream" /\ agent.full)

\* A fault that ends such a pass without its checkpoint, an earlier one being kept.
Forgets == Fault /\ manifest # None /\ Landing /\ agent'.pc = "idle"

\* The target's contract.
Target == INSTANCE TargetImage
            WITH Contents <- 0 .. MaxVersion, Initial <- Nothing, content <- Image

KeepsTargetContract == Target!Spec

\* Once the source's writes, the faults and the cutovers stop, the target
\* catches up with the source and stays there.
CatchesUp == <>[](vol = src)

\* The appliance comes to know that the disk is baselined, and no delta that
\* follows makes it forget: cutoverReady can become true and stay so.
BaselineRecorded == <>[]app.fullSyncDone
=============================================================================
