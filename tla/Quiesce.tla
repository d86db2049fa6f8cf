------------------------------ MODULE Quiesce ------------------------------
(***************************************************************************)
(* The quiesce of a cutover across a migration's disks: the appliance asks *)
(* every disk's agent for one crash-consistent pass, waits until each has  *)
(* landed one or refused, and freezes the target (migrations.go,           *)
(* quiesceForCutover and the callbacks of ensureDiskReceiver; receiver.go, *)
(* Handle up to the HelloAck; cmd/agent/main.go, run).  With it the gate of*)
(* replication, which the same handshake consults: start, pause, resume.   *)
(*                                                                         *)
(* Each disk has one agent, run by a timer, and one receiver, which serves *)
(* one session at a time; so the two are one process here.  But the session*)
(* looks at the gate and at the request apart, and what the receiver does  *)
(* behind a session, looking at the request and recording its outcome, are *)
(* two steps beside the agent's next run: a lock is taken for each.  What  *)
(* a pass carries is Replication's business; here it is whether it is of   *)
(* one instant.  The time of a capture, which is recorded for the skew     *)
(* shown to the operator, is left out.                                     *)
(***************************************************************************)
EXTENDS Naturals

CONSTANTS
    Disks,
    Sources,     \* the kinds of source: for each disk, what its agent can do
    MaxCutovers, \* bound: cutovers started
    MaxStops,    \* bound: cutovers stopped
    MaxPauses,   \* bound: pauses of replication
    MaxFaults,   \* bound: broken sessions, failed snapshots, unreadable rows
    MaxUpsets,   \* bound: stops, pauses and faults together
    MayOvertake  \* may a Stop overtake a run about to set or clear requests?

\* An agent pinned to snapshots, one on LVM, one that may remount its
\* filesystems read-only at cutover, and one that has nothing of the kind.
Mechanisms == {"pinned", "lvm", "remountro", "none"}

ASSUME DiskAssumption   == Disks # {} /\ Sources \subseteq [Disks -> Mechanisms]
ASSUME BoundAssumption  == /\ MaxCutovers \in Nat \ {0}
                           /\ MaxStops \in Nat /\ MaxPauses \in Nat /\ MaxFaults \in Nat
                           /\ MaxUpsets \in Nat
ASSUME StopAssumption   == MayOvertake \in BOOLEAN

Runs == 1 .. MaxCutovers

VARIABLES
    mechanism, \* what each disk's agent can do
    state,     \* the migration's state
    enabled,   \* its replication_enabled
    connected, \* has the disk's agent been seen?  its timer keeps it so
    agent,     \* each disk's agent and its session
    first,     \* is its attempt the first of its run?
    consistent,\* is its pass of one instant?
    req,       \* consistReq
    done,      \* consistDone
    refused,   \* quiesceErr
    marking,   \* what the receiver, having seen it wanted, is about to record
    landed,    \* what the disk's target holds: the kind of its last applied pass
    up,        \* are the receivers listening?
    run,       \* the cutover runs
    live,      \* is the run's context still good?
    asked,     \* the disks it has asked
    all,       \* did it find every disk consistent?
    finalizes, \* the run whose cancel function is held, or 0
    stops,     \* cutovers stopped so far
    pauses,    \* pauses so far
    faults     \* faults so far

\* History: passes applied while paused, since the gate last closed.
VARIABLE sincePause

agents  == <<agent, first, consistent>>
runs    == <<run, live, asked, all>>
request == <<req, done, refused, marking>>
control == <<state, enabled, runs, finalizes>>
budget  == <<stops, pauses, faults>>
vars == <<mechanism, connected, agents, request, landed, up, control, budget, sincePause>>

AgentPcs == {"off", "hello", "gated", "stream", "again", "refusal"}
RunPcs   == {"unused", "begin", "ask", "wait", "drain", "draining", "frozen", "returned"}

TypeOK ==
    /\ mechanism \in Sources
    /\ state \in {"awaiting_agent", "replicating", "migrating"}
    /\ enabled \in BOOLEAN
    /\ connected \in [Disks -> BOOLEAN]
    /\ agent \in [Disks -> AgentPcs]
    /\ first \in [Disks -> BOOLEAN] /\ consistent \in [Disks -> BOOLEAN]
    /\ req \in [Disks -> BOOLEAN]
    /\ done \in [Disks -> BOOLEAN]
    /\ refused \in [Disks -> BOOLEAN]
    /\ marking \in [Disks -> {"nothing", "done", "refused"}]
    /\ landed \in [Disks -> {"nothing", "live", "consistent"}]
    /\ up \in BOOLEAN
    /\ run \in [Runs -> RunPcs]
    /\ live \in [Runs -> BOOLEAN] /\ all \in [Runs -> BOOLEAN]
    /\ asked \in [Runs -> SUBSET Disks]
    /\ finalizes \in Runs \cup {0}
    /\ stops \in 0 .. MaxStops /\ pauses \in 0 .. MaxPauses /\ faults \in 0 .. MaxFaults
    /\ sincePause \in [Disks -> Nat]

Init ==
    /\ mechanism \in Sources
    /\ state = "awaiting_agent"
    /\ enabled = FALSE
    /\ connected = [d \in Disks |-> FALSE]
    /\ agent = [d \in Disks |-> "off"]
    /\ first = [d \in Disks |-> TRUE]
    /\ consistent = [d \in Disks |-> FALSE]
    /\ req = [d \in Disks |-> FALSE]
    /\ done = [d \in Disks |-> FALSE]
    /\ refused = [d \in Disks |-> FALSE]
    /\ marking = [d \in Disks |-> "nothing"]
    /\ landed = [d \in Disks |-> "nothing"]
    /\ up = TRUE
    /\ run = [r \in Runs |-> "unused"]
    /\ live = [r \in Runs |-> FALSE]
    /\ asked = [r \in Runs |-> {}]
    /\ all = [r \in Runs |-> FALSE]
    /\ finalizes = 0
    /\ stops = 0 /\ pauses = 0 /\ faults = 0
    /\ sincePause = [d \in Disks |-> 0]

(***************************************************************************)
(* Helpers.                                                                *)
(***************************************************************************)

Goto(d, pc)  == agent' = [agent EXCEPT ![d] = pc] /\ UNCHANGED <<first, consistent>>
Tries(d, pc, isFirst, isConsistent) ==
    /\ agent' = [agent EXCEPT ![d] = pc]
    /\ first' = [first EXCEPT ![d] = isFirst]
    /\ consistent' = [consistent EXCEPT ![d] = isConsistent]
GoOff(d)     == Tries(d, "off", TRUE, FALSE)
RunTo(r, pc) == run' = [run EXCEPT ![r] = pc] /\ UNCHANGED <<live, asked, all>>

\* A fault, of which there are MaxFaults; NoFault otherwise.
Upsets  == stops + pauses + faults
Fault   == /\ faults < MaxFaults /\ Upsets < MaxUpsets
           /\ faults' = faults + 1 /\ UNCHANGED <<stops, pauses>>
NoFault == UNCHANGED budget

\* The attempt whose error the agent reports to the appliance.
Reporting(d) == ~first[d] /\ mechanism[d] = "remountro"

\* An attempt fails on the agent's side.
Fails(d) == IF Reporting(d) THEN Goto(d, "refusal") ELSE GoOff(d)

\* clearConsistency.
Forget ==
    /\ req' = [d \in Disks |-> FALSE]
    /\ done' = [d \in Disks |-> FALSE]
    /\ refused' = [d \in Disks |-> FALSE]
    /\ UNCHANGED marking

\* A slip: the gate looks at the flag alone.
GateOpen_FlagOnly == enabled

\* replicationEnabled: a cutover needs its pass even if replication is paused.
GateOpen == enabled \/ state = "migrating"

\* A run that will set the requests, or clear them, without a look at its context.
Hasty(r) == run[r] \in {"begin", "ask", "drain", "draining"}

Settled(d) == done[d] \/ refused[d]

\* Serve's loop accepts no session before the callback of the last one has returned.
Accepting(d) == marking[d] = "nothing"
Serving(d)   == agent[d] \in {"hello", "gated", "stream"} \/ ~Accepting(d)

\* The bounce: asked of anything but a consistent pass.
Bounced(d) == req[d] /\ ~consistent[d]

-----------------------------------------------------------------------------
(***************************************************************************)
(* Slips: a definition below with one plausible mistake in it, to show that*)
(* a property would notice.  No specification uses these.                  *)
(***************************************************************************)

\* The request is dropped once it has been met.
Marks_DropsRequest(d) ==
    /\ ~Accepting(d)
    /\ done' = [done EXCEPT ![d] = @ \/ marking[d] = "done"]
    /\ refused' = [refused EXCEPT ![d] = @ \/ marking[d] = "refused"]
    /\ marking' = [marking EXCEPT ![d] = "nothing"]
    /\ req' = [req EXCEPT ![d] = @ /\ marking[d] # "done"]
    /\ UNCHANGED <<mechanism, connected, agents, landed, up, control, budget, sincePause>>

\* A pass that lands while one is wanted marks the disk, of whatever kind it is.
Lands_MarksAny(d) ==
    /\ agent[d] = "stream"
    /\ landed' = [landed EXCEPT ![d] = IF consistent[d] THEN "consistent" ELSE "live"]
    /\ sincePause' = [sincePause EXCEPT ![d] = IF GateOpen THEN 0 ELSE @ + 1]
    /\ state' = IF state = "awaiting_agent" THEN "replicating" ELSE state
    /\ marking' = [marking EXCEPT ![d] = IF req[d] THEN "done" ELSE @]
    /\ GoOff(d) /\ NoFault
    /\ UNCHANGED <<mechanism, connected, req, done, refused, up, enabled, runs, finalizes>>

\* Stop leaves the requests alone.
StopMigration_KeepsRequests ==
    /\ state = "migrating"
    /\ MayOvertake \/ \A r \in Runs : ~Hasty(r)
    /\ stops < MaxStops /\ Upsets < MaxUpsets
    /\ stops' = stops + 1 /\ UNCHANGED <<pauses, faults>>
    /\ live' = [r \in Runs |-> live[r] /\ r # finalizes]
    /\ finalizes' = 0
    /\ state' = "replicating"
    /\ up' = TRUE
    /\ sincePause' = [d \in Disks |-> 0]
    /\ UNCHANGED <<mechanism, enabled, connected, agents, run, asked, all, request, landed>>

\* A disk with its baseline is let through: the gate only holds the first pass.
Handshake_HoldsBaselineOnly(d) ==
    /\ agent[d] = "hello" /\ Accepting(d)
    /\ connected' = [connected EXCEPT ![d] = TRUE]
    /\ NoFault
    /\ IF ~GateOpen /\ landed[d] = "nothing" THEN GoOff(d) ELSE Goto(d, "gated")
    /\ UNCHANGED <<mechanism, request, landed, up, control, sincePause>>

-----------------------------------------------------------------------------
(***************************************************************************)
(* An agent's run of one pass, and the receiver's side of the handshake.   *)
(***************************************************************************)

\* The timer fires; the agent reads the device live unless pinned to a snapshot.
Starts(d) ==
    /\ agent[d] = "off"
    /\ up
    /\ Tries(d, "hello", TRUE, mechanism[d] = "pinned")
    /\ UNCHANGED <<mechanism, connected, request, landed, up, control, budget,
                   sincePause>>

\* The gate records the connection, reads the row, and holds the agent or not; it
\* fails open when the row cannot be read.
Handshake(d) ==
    /\ agent[d] = "hello" /\ Accepting(d)
    /\ connected' = [connected EXCEPT ![d] = TRUE]
    /\ \/ ~GateOpen /\ GoOff(d) /\ NoFault
       \/ Goto(d, "gated") /\ (IF GateOpen THEN NoFault ELSE Fault)
    /\ UNCHANGED <<mechanism, request, landed, up, control, sincePause>>

\* Then, while a consistent pass is wanted, any other is bounced: once the agent tries
\* again, the second time it gives up.
HelloAck(d) ==
    /\ agent[d] = "gated"
    /\ IF ~Bounced(d) THEN Goto(d, "stream")
       ELSE IF first[d] THEN Goto(d, "again") ELSE GoOff(d)
    /\ NoFault
    /\ UNCHANGED <<mechanism, connected, request, landed, up, control, sincePause>>

\* The second attempt: from a snapshot, with the filesystems read-only, or live
\* once more.  A remount that is refused is reported, a failed snapshot is not.
TriesAgain(d) ==
    /\ agent[d] = "again"
    /\ \/ /\ up
          /\ Tries(d, "hello", FALSE, mechanism[d] # "none")
          /\ NoFault
       \/ mechanism[d] = "remountro" /\ Goto(d, "refusal") /\ NoFault
       \/ mechanism[d] = "lvm" /\ GoOff(d) /\ Fault
       \/ ~up /\ GoOff(d) /\ NoFault
    /\ UNCHANGED <<mechanism, connected, request, landed, up, control, sincePause>>

\* The connection breaks, or the agent does, before the pass is complete.
Breaks(d) ==
    /\ agent[d] \in {"hello", "gated", "stream"}
    /\ Fails(d)
    /\ Fault
    /\ UNCHANGED <<mechanism, connected, request, landed, up, control, sincePause>>

\* The pass is applied; onComplete records it, and sees whether a consistent pass is
\* still wanted.  The agent may miss the acknowledgement.
Lands(d) ==
    /\ agent[d] = "stream"
    /\ landed' = [landed EXCEPT ![d] = IF consistent[d] THEN "consistent" ELSE "live"]
    /\ sincePause' = [sincePause EXCEPT ![d] = IF GateOpen THEN 0 ELSE @ + 1]
    /\ state' = IF state = "awaiting_agent" THEN "replicating" ELSE state
    /\ marking' = [marking EXCEPT ![d] = IF consistent[d] /\ req[d] THEN "done" ELSE @]
    /\ \/ GoOff(d) /\ NoFault
       \/ Fails(d) /\ Fault
    /\ UNCHANGED <<mechanism, connected, req, done, refused, up, enabled, runs, finalizes>>

\* reportQuiesceFailure: a Hello with nothing but the reason; best effort.
ReportsRefusal(d) ==
    /\ agent[d] = "refusal" /\ Accepting(d)
    /\ \/ NoFault /\ marking' = [marking EXCEPT ![d] = IF up /\ req[d] THEN "refused" ELSE @]
       \/ Fault /\ UNCHANGED marking
    /\ GoOff(d)
    /\ UNCHANGED <<mechanism, connected, req, done, refused, landed, up, control, sincePause>>

\* markDiskConsistent, markDiskQuiesceFailed: recorded without another look at the
\* request, which may have been dropped since, or made anew.
Marks(d) ==
    /\ ~Accepting(d)
    /\ done' = [done EXCEPT ![d] = @ \/ marking[d] = "done"]
    /\ refused' = [refused EXCEPT ![d] = @ \/ marking[d] = "refused"]
    /\ marking' = [marking EXCEPT ![d] = "nothing"]
    /\ UNCHANGED <<mechanism, connected, agents, req, landed, up, control, budget, sincePause>>

AgentStep(d) ==
    \/ Starts(d) \/ Handshake(d) \/ HelloAck(d) \/ TriesAgain(d)
    \/ Lands(d) \/ ReportsRefusal(d) \/ Marks(d)

-----------------------------------------------------------------------------
(***************************************************************************)
(* The operator.                                                           *)
(***************************************************************************)

\* handleStartReplication: once every disk's agent has been seen.
StartReplication ==
    /\ ~enabled
    /\ state \in {"awaiting_agent", "replicating"}
    /\ \A d \in Disks : connected[d]
    /\ enabled' = TRUE
    /\ UNCHANGED <<mechanism, connected, agents, request, landed, up, state, runs,
                   finalizes, budget, sincePause>>

\* handlePauseReplication: a pass in flight is let finish.
PauseReplication ==
    /\ enabled
    /\ state \in {"awaiting_agent", "replicating"}
    /\ pauses < MaxPauses /\ Upsets < MaxUpsets
    /\ pauses' = pauses + 1 /\ UNCHANGED <<stops, faults>>
    /\ enabled' = FALSE
    /\ sincePause' = [d \in Disks |-> 0]
    /\ UNCHANGED <<mechanism, connected, agents, request, landed, up, state, runs,
                   finalizes>>

\* handleStartMigration; the console offers it when no cutover is running.
StartMigration(r) ==
    /\ run[r] = "unused" /\ \A q \in Runs : q < r => run[q] # "unused"
    /\ state = "replicating"
    /\ \A d \in Disks : landed[d] # "nothing"
    /\ state' = "migrating"
    /\ run' = [run EXCEPT ![r] = "begin"]
    /\ live' = [live EXCEPT ![r] = TRUE]
    /\ finalizes' = r
    /\ UNCHANGED <<mechanism, enabled, connected, agents, asked, all, request,
                   landed, up, budget, sincePause>>

\* handleStopMigration: cancel, forget the requests, let the receivers run.
StopMigration ==
    /\ state = "migrating"
    /\ MayOvertake \/ \A r \in Runs : ~Hasty(r)
    /\ stops < MaxStops /\ Upsets < MaxUpsets
    /\ stops' = stops + 1 /\ UNCHANGED <<pauses, faults>>
    /\ live' = [r \in Runs |-> live[r] /\ r # finalizes]
    /\ finalizes' = 0
    /\ Forget
    /\ state' = "replicating"
    /\ up' = TRUE
    /\ sincePause' = [d \in Disks |-> 0]
    /\ UNCHANGED <<mechanism, enabled, connected, agents, run, asked, all, landed>>

Operator ==
    \/ StartReplication \/ PauseReplication \/ StopMigration
    \/ \E r \in Runs : StartMigration(r)

-----------------------------------------------------------------------------
(***************************************************************************)
(* finalize, up to the frozen target.                                      *)
(***************************************************************************)

\* A cutover under a cancelled context returns, and so does a frozen one in the end.
Returns(r) ==
    /\ run' = [run EXCEPT ![r] = "returned"]
    /\ asked' = [asked EXCEPT ![r] = {}]
    /\ finalizes' = 0
    /\ UNCHANGED <<live, all>>

\* The snapshot is skipped, or no agent has been seen: taken for consistent.
SkipsQuiesce(r) ==
    /\ run[r] = "begin"
    /\ IF live[r] THEN RunTo(r, "drain") /\ UNCHANGED finalizes ELSE Returns(r)
    /\ UNCHANGED <<mechanism, state, enabled, connected, agents, request, landed,
                   up, budget, sincePause>>

\* requestDiskConsistency, disk by disk, whatever the context says by now.
Asks(r, d) ==
    /\ run[r] \in {"begin", "ask"}
    /\ d \notin asked[r]
    /\ req' = [req EXCEPT ![d] = TRUE]
    /\ done' = [done EXCEPT ![d] = FALSE]
    /\ refused' = [refused EXCEPT ![d] = FALSE]
    /\ asked' = [asked EXCEPT ![r] = @ \cup {d}]
    /\ run' = [run EXCEPT ![r] = IF asked[r] \cup {d} = Disks THEN "wait" ELSE "ask"]
    /\ UNCHANGED <<mechanism, state, enabled, connected, agents, marking, live, all,
                   landed, up, finalizes, budget, sincePause>>

\* The wait ends: every disk has settled, or the context is cancelled,
Settles(r) ==
    /\ run[r] = "wait"
    /\ \/ /\ live[r]
          /\ \A d \in Disks : Settled(d)
          /\ run' = [run EXCEPT ![r] = "drain"]
          /\ all' = [all EXCEPT ![r] = \A d \in Disks : done[d]]
          /\ UNCHANGED <<live, asked, finalizes>>
       \/ ~live[r] /\ Returns(r)
    /\ UNCHANGED <<mechanism, state, enabled, connected, agents, request, landed,
                   up, budget, sincePause>>

\* or consistencyWait is over and some disk has not.
TimesOut(r) ==
    /\ run[r] = "wait"
    /\ live[r]
    /\ \E d \in Disks : ~Settled(d)
    /\ RunTo(r, "drain")
    /\ UNCHANGED <<mechanism, state, enabled, connected, agents, request, landed,
                   up, finalizes, budget, sincePause>>

\* drainReceivers stops the listeners,
DrainBegins(r) ==
    /\ run[r] = "drain"
    /\ RunTo(r, "draining")
    /\ up' = FALSE
    /\ UNCHANGED <<mechanism, state, enabled, connected, agents, request, landed,
                   finalizes, budget, sincePause>>

\* waits for the sessions, and the requests are forgotten.
DrainEnds(r) ==
    /\ run[r] = "draining"
    /\ up \/ \A d \in Disks : ~Serving(d)
    /\ Forget
    /\ RunTo(r, "frozen")
    /\ UNCHANGED <<mechanism, state, enabled, connected, agents, landed, up,
                   finalizes, budget, sincePause>>

RunStep(r) ==
    \/ SkipsQuiesce(r) \/ \E d \in Disks : Asks(r, d)
    \/ Settles(r) \/ DrainBegins(r) \/ DrainEnds(r)

Next ==
    \/ Operator
    \/ \E d \in Disks : AgentStep(d) \/ Breaks(d)
    \/ \E r \in Runs : RunStep(r) \/ TimesOut(r)

Spec == Init /\ [][Next]_vars

\* An agent's timer fires again and again, its passes end, and a run goes on.  No
\* fairness of TimesOut: what is to happen must happen without the deadline.
Fairness ==
    /\ \A d \in Disks : WF_vars(AgentStep(d))
    /\ WF_vars(\E r \in Runs : RunStep(r))

FairSpec == Spec /\ Fairness

-----------------------------------------------------------------------------
(***************************************************************************)
(* Properties.                                                             *)
(***************************************************************************)

\* The cutover the operator started last.
Newest(r) == run[r] # "unused" /\ \A q \in Runs : q > r => run[q] = "unused"

\* Once a cutover has found a consistent pass on every disk, and until it is stopped,
\* none of the disks takes anything else, before the receivers are stopped or after,
\* nor for what older cutovers still do: what will be cloned is what was announced as
\* captured on all disks.
FrozenTogether ==
    \A r \in Runs :
        Newest(r) /\ state = "migrating" /\ run[r] \in {"drain", "draining", "frozen"} /\ all[r]
            => \A d \in Disks : landed[d] = "consistent"

\* What each disk promises a cutover that waits for it: while it is wanted and marked, its
\* target takes no pass but consistent ones, and a mark may come late, or for nobody, but
\* never for a pass the target does not hold.
Disk(d) == INSTANCE ConsistentPass
             WITH want <- req[d], marked <- done[d], atOnce <- landed[d] = "consistent"

KeepsRequest ==
    /\ \A d \in Disks : Disk(d)!Init
    /\ [][\A d \in Disks : [Disk(d)!Next]_(Disk(d)!vars)]_<<req, done, landed>>

\* A request outlives neither the cutover that made it nor its stop, or every later
\* live pass of the disk would be bounced.
RequestHasOwner ==
    (\E d \in Disks : req[d]) =>
        \E r \in Runs : live[r] /\ run[r] \in {"ask", "wait", "drain", "draining"}

\* Paused means paused: after Pause, or a cutover stopped while paused, each disk
\* takes the pass in flight and nothing more, but for a gate that could not be read.
PauseHolds == \A d \in Disks : sincePause[d] <= 1 + faults

\* The cutover the operator awaits, of a source that has a means to be consistent.
Waiting(r) ==
    /\ Newest(r) /\ run[r] = "wait" /\ state = "migrating"
    /\ \A d \in Disks : mechanism[d] # "none"

\* Every source that has a means to answers the request, with a consistent pass or a
\* refusal, paused or not: the cutover gets on without waiting out its deadline.
SourceAnswers == \A r \in Runs : Waiting(r) ~> ~Waiting(r)
=============================================================================
