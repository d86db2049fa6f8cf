------------------------- MODULE ReplicationProofs -------------------------
(***************************************************************************)
(* Theorems about Replication, for any number of blocks, contents, faults, *)
(* refusals and cutovers: its type invariant; that the checkpoint never    *)
(* claims what the target does not durably hold; that a behaviour in which *)
(* no fault tears a pass implements TargetImage; and, unless a session     *)
(* fails in the middle of Apply, that a disk marked consistent stays at    *)
(* one instant of its source and implements ConsistentPass.  All but the   *)
(* first are proved for a source none of whose blocks returns to an        *)
(* earlier content, and again for any source, of behaviours without a      *)
(* Forgets step.                                                           *)
(***************************************************************************)
EXTENDS Replication, TLAPS

(***************************************************************************)
(* Type correctness.                                                       *)
(***************************************************************************)

\* What a pass reads, and what a block frame or a staged record holds, is content.
LEMMA ContentTypes ==
    /\ Nothing \in Content /\ Blank \in 0 .. MaxVersion /\ Versions \subseteq 0 .. MaxVersion
    /\ \A f \in Content, b \in Blocks, v \in 0 .. MaxVersion : [f EXCEPT ![b] = v] \in Content
    /\ \A f \in Content, b \in Blocks : f[b] \in 0 .. MaxVersion
BY SizeAssumption DEF Content, Nothing, Blank, Blocks, Versions

LEMMA InitType == Init => TypeOK
<1>1. [b \in Blocks |-> 1] \in Content
  BY SizeAssumption DEF Content
<1> SUFFICES ASSUME Init PROVE TypeOK
  OBVIOUS
<1> USE DEF Init
<1>2. /\ src \in Content /\ instants \subseteq Content
      /\ manifest \in Content \cup {None} /\ next \in Content /\ img \in Content
      /\ wire \in Content /\ stage \in Content /\ dev \in Content /\ vol \in Content
      /\ offer \in Content /\ whole \in BOOLEAN
  BY <1>1, ContentTypes
<1>3. cur \in 1 .. (NumBlocks + 1)
  BY SizeAssumption
<1>4. /\ agent \in Passes
      /\ rcv \in Sessions
      /\ conn \in Links
      /\ app \in Outcomes
  BY DEF Resting, Listening, AgentPcs, RcvPcs, Passes, Sessions, Links, Outcomes
<1>5. budget \in Budgets
  BY DEF Budgets
<1> QED
  BY <1>2, <1>3, <1>4, <1>5 DEF TypeOK

\* The ends of a pass and of a session.
LEMMA EndTypes ==
    /\ PassEnds => agent' \in Passes /\ cur' \in 1 .. (NumBlocks + 1)
                   /\ next' \in Content /\ img' \in Content
    /\ SessionEnds => rcv' \in Sessions /\ stage' \in Content /\ wire' \in Content
<1>1. Resting \in Passes /\ Listening \in Sessions
  BY DEF Resting, Listening, Passes, Sessions, AgentPcs, RcvPcs
<1>2. 1 \in 1 .. (NumBlocks + 1)
  BY SizeAssumption
<1> QED
  BY <1>1, <1>2, ContentTypes DEF PassEnds, SessionEnds

\* The agent's side of a session that fails under it.
LEMMA LossTypes ==
    TypeOK /\ AgentLosesReceiver =>
        /\ agent' \in Passes /\ cur' \in 1 .. (NumBlocks + 1)
        /\ next' \in Content /\ img' \in Content /\ conn' \in Links
<1> SUFFICES ASSUME TypeOK, AgentLosesReceiver
             PROVE  /\ agent' \in Passes /\ cur' \in 1 .. (NumBlocks + 1)
                    /\ next' \in Content /\ img' \in Content /\ conn' \in Links
  OBVIOUS
<1>1. conn' \in Links
  BY DEF AgentLosesReceiver, TypeOK, Links
<1>2. PassEnds \/ UNCHANGED passVars
  BY DEF AgentLosesReceiver
<1> QED
  BY <1>1, <1>2, EndTypes DEF passVars, TypeOK

\* Counting a fault or a request, and taking note of one.
LEMMA RecordTypes ==
    /\ \A u \in Budgets :
          /\ [u EXCEPT !.agent = @ + 1] \in Budgets
          /\ [u EXCEPT !.receiver = @ + 1] \in Budgets
          /\ [u EXCEPT !.refused = @ + 1] \in Budgets
          /\ [u EXCEPT !.forced = @ + 1] \in Budgets
          /\ [u EXCEPT !.requested = @ + 1] \in Budgets
    /\ \A o \in Outcomes, w \in BOOLEAN, m \in BOOLEAN :
          /\ [o EXCEPT !.want = w, !.marked = m] \in Outcomes
          /\ [o EXCEPT !.marked = m] \in Outcomes
    /\ \A a \in Passes, q \in AgentPcs : [a EXCEPT !.pc = q] \in Passes
    /\ \A r \in Sessions, q \in RcvPcs : [r EXCEPT !.pc = q] \in Sessions
    /\ \A l \in Links, v \in BOOLEAN :
          /\ [l EXCEPT !.done = v] \in Links
          /\ [l EXCEPT !.reply = v] \in Links
          /\ [l EXCEPT !.open = FALSE, !.reply = FALSE] \in Links
<1>1. \A u \in Budgets :
          /\ [u EXCEPT !.agent = @ + 1] \in Budgets
          /\ [u EXCEPT !.receiver = @ + 1] \in Budgets
          /\ [u EXCEPT !.refused = @ + 1] \in Budgets
          /\ [u EXCEPT !.forced = @ + 1] \in Budgets
          /\ [u EXCEPT !.requested = @ + 1] \in Budgets
  BY DEF Budgets
<1>2. \A o \in Outcomes, w \in BOOLEAN, m \in BOOLEAN :
          /\ [o EXCEPT !.want = w, !.marked = m] \in Outcomes
          /\ [o EXCEPT !.marked = m] \in Outcomes
  BY DEF Outcomes
<1>3. \A a \in Passes, q \in AgentPcs : [a EXCEPT !.pc = q] \in Passes
  BY DEF Passes
<1>4. \A r \in Sessions, q \in RcvPcs : [r EXCEPT !.pc = q] \in Sessions
  BY DEF Sessions
<1>5. \A l \in Links, v \in BOOLEAN :
          /\ [l EXCEPT !.done = v] \in Links
          /\ [l EXCEPT !.reply = v] \in Links
          /\ [l EXCEPT !.open = FALSE, !.reply = FALSE] \in Links
  BY DEF Links
<1> QED
  BY <1>1, <1>2, <1>3, <1>4, <1>5

\* Each step of the agent keeps the types.
LEMMA AgentType == TypeOK /\ AgentStep => TypeOK'
<1> SUFFICES ASSUME TypeOK, AgentStep PROVE TypeOK'
  OBVIOUS
<1> USE DEF TypeOK, passVars, linkVars, rcvVars, diskVars, history
<1>1. CASE Prepare
  <2>1. PICK forced \in BOOLEAN :
            /\ agent' = [pc |-> "hello", full |-> forced \/ manifest = None,
                          consistent |-> FALSE, mayBail |-> TRUE]
            /\ budget' = [budget EXCEPT !.forced = IF forced THEN @ + 1 ELSE @]
    BY <1>1 DEF Prepare
  <2>2. agent' \in Passes
    BY <2>1 DEF Passes, AgentPcs
  <2>3. budget' \in Budgets
    BY <2>1 DEF Budgets
  <2> QED
    BY <1>1, <2>2, <2>3 DEF Prepare
<1>2. CASE PrepareAgain
  <2>1. img' \in Content
    BY <1>2 DEF PrepareAgain
  <2>2. agent' \in Passes
    BY <1>2, ModeAssumption DEF PrepareAgain, Passes, AgentPcs
  <2> QED
    BY <1>2, <2>1, <2>2 DEF PrepareAgain
<1>3. CASE ProcessBlock
  <2>1. ReadSource[cur] \in 0 .. MaxVersion
    BY <1>3, ContentTypes DEF ProcessBlock, ReadSource
  <2>2. next' \in Content /\ wire' \in Content
    BY <1>3, <2>1, ContentTypes DEF ProcessBlock
  <2>3. cur' \in 1 .. (NumBlocks + 1)
    BY <1>3, SizeAssumption DEF ProcessBlock, Blocks
  <2> QED
    BY <1>3, <2>2, <2>3 DEF ProcessBlock
<1>4. CASE SendDone
  BY <1>4, RecordTypes DEF SendDone, AgentPcs
<1>5. CASE ReceiveDoneAck
  BY <1>5, RecordTypes DEF ReceiveDoneAck, AgentPcs
<1>6. CASE SaveManifest
  BY <1>6, EndTypes DEF SaveManifest
<1> QED
  BY <1>1, <1>2, <1>3, <1>4, <1>5, <1>6 DEF AgentStep

\* Each step of the receiver keeps the types.
LEMMA ReceiverType == TypeOK /\ ReceiverStep => TypeOK'
<1> SUFFICES ASSUME TypeOK, ReceiverStep PROVE TypeOK'
  OBVIOUS
<1> USE DEF TypeOK, passVars, linkVars, rcvVars, diskVars, history
<1>1. CASE HandleHello
  <2>1. rcv' \in Sessions /\ conn' \in Links
    BY <1>1 DEF HandleHello, Passes, Sessions, Links, RcvPcs
  <2> QED
    BY <1>1, <2>1, ContentTypes, RecordTypes DEF HandleHello, AgentPcs
<1>2. CASE BounceHello
  BY <1>2, EndTypes, RecordTypes DEF BounceHello, AgentPcs
<1>3. ASSUME NEW b \in Blocks, ReceiveBlock(b) PROVE TypeOK'
  <2>1. wire' \in Content
    BY <1>3, ContentTypes DEF ReceiveBlock
  <2>2. dev' \in Content /\ stage' \in Content /\ whole' \in BOOLEAN
    BY <1>3, ContentTypes DEF ReceiveBlock
  <2> QED
    BY <1>3, <2>1, <2>2 DEF ReceiveBlock
<1>4. ASSUME NEW b \in Blocks, ApplyRecord(b) PROVE TypeOK'
  <2>1. dev' \in Content /\ stage' \in Content
    BY <1>4, ContentTypes DEF ApplyRecord
  <2> QED
    BY <1>4, <2>1 DEF ApplyRecord
<1>5. CASE ReceiveDone
  BY <1>5, RecordTypes DEF ReceiveDone, RcvPcs
<1>6. CASE SyncTarget
  BY <1>6, RecordTypes DEF SyncTarget, RcvPcs
<1>7. CASE SendDoneAck
  <2>1. conn' \in Links
    BY <1>7 DEF SendDoneAck, Links
  <2> QED
    BY <1>7, <2>1, EndTypes, RecordTypes DEF SendDoneAck, RcvPcs
<1>8. CASE RecordDiskSync
  <2>1. app' \in Outcomes
    BY <1>8 DEF RecordDiskSync, Outcomes, Sessions
  <2>2. BeginsMark => rcv' \in Sessions /\ stage' \in Content /\ wire' \in Content
    BY ContentTypes, RecordTypes DEF BeginsMark, RcvPcs
  <2> QED
    BY <1>8, <2>1, <2>2, EndTypes DEF RecordDiskSync
<1>9. CASE AbortSession
  BY <1>9, EndTypes DEF AbortSession
<1>10. CASE MarkDiskConsistent
  BY <1>10, EndTypes, RecordTypes DEF MarkDiskConsistent
<1> QED
  BY <1>1, <1>2, <1>3, <1>4, <1>5, <1>6, <1>7, <1>8, <1>9, <1>10 DEF ReceiverStep

\* What breaks keeps the types.
LEMMA FaultType == TypeOK /\ Fault => TypeOK'
<1> SUFFICES ASSUME TypeOK, Fault PROVE TypeOK'
  OBVIOUS
<1> USE DEF TypeOK, passVars, linkVars, rcvVars, diskVars, history
<1>1. CASE AgentStops
  <2>1. \A last \in 0 .. NumBlocks :
           [b \in Blocks |-> IF b <= last THEN wire[b] ELSE Blank] \in Content
    BY SizeAssumption DEF Content, Blank
  <2>2. wire' \in Content
    BY <1>1, <2>1 DEF AgentStops
  <2>3. conn' \in Links
    <3>1. CASE conn.open
      <4>1. PICK last \in 0 .. NumBlocks, behind \in BOOLEAN :
                conn' = [open |-> FALSE, reply |-> FALSE,
                         done |-> conn.done /\ behind /\ last = NumBlocks]
        BY <1>1, <3>1 DEF AgentStops
      <4> QED
        BY <4>1 DEF Links
    <3>2. CASE ~conn.open
      BY <1>1, <3>2 DEF AgentStops
    <3> QED
      BY <3>1, <3>2
  <2> QED
    BY <1>1, <2>2, <2>3, EndTypes, RecordTypes DEF AgentStops
<1>2. CASE RefuseHello
  BY <1>2, EndTypes, RecordTypes DEF RefuseHello
<1>3. CASE SessionFails
  BY <1>3, EndTypes, LossTypes, RecordTypes DEF SessionFails
<1>4. CASE ApplianceRestart
  BY <1>4, EndTypes, LossTypes, RecordTypes DEF ApplianceRestart
<1>5. CASE HostCrash
  BY <1>5, EndTypes, LossTypes, RecordTypes DEF HostCrash
<1> QED
  BY <1>1, <1>2, <1>3, <1>4, <1>5 DEF Fault

\* Each step of the source, the target's kernel and the cutover keeps the types.
LEMMA OtherType ==
    /\ TypeOK
    /\ \/ \E b \in Blocks : SourceWrite(b) \/ Writeback(b)
       \/ RequestConsistency
       \/ ClearConsistency
    => TypeOK'
<1> USE DEF TypeOK, passVars, linkVars, rcvVars, diskVars, history
<1>1. ASSUME TypeOK, NEW b \in Blocks, SourceWrite(b) PROVE TypeOK'
  <2>1. PICK v \in Versions : src' = [src EXCEPT ![b] = v]
    BY <1>1 DEF SourceWrite
  <2>2. v \in 0 .. MaxVersion
    BY SizeAssumption DEF Versions
  <2>3. src' \in Content
    BY <1>1, <2>1, <2>2, ContentTypes
  <2> QED
    BY <1>1, <2>3 DEF SourceWrite
<1>2. ASSUME TypeOK, NEW b \in Blocks, Writeback(b) PROVE TypeOK'
  <2>1. vol' \in Content
    BY <1>2, ContentTypes DEF Writeback
  <2> QED
    BY <1>2, <2>1 DEF Writeback
<1>3. ASSUME TypeOK, RequestConsistency PROVE TypeOK'
  BY <1>3, RecordTypes DEF RequestConsistency
<1>4. ASSUME TypeOK, ClearConsistency PROVE TypeOK'
  BY <1>4, RecordTypes DEF ClearConsistency
<1> QED
  BY <1>1, <1>2, <1>3, <1>4

\* Every step keeps the types.
LEMMA StepType == TypeOK /\ [Next]_vars => TypeOK'
<1>1. TypeOK /\ Next => TypeOK'
  BY AgentType, ReceiverType, FaultType, OtherType DEF Next
<1>2. TypeOK /\ UNCHANGED vars => TypeOK'
  BY DEF vars, TypeOK, passVars, linkVars, rcvVars, diskVars, history
<1> QED
  BY <1>1, <1>2

\* Every variable keeps its type, whatever the agent, the receiver, the faults
\* and the cutovers do.
THEOREM TypeCorrect == Spec => []TypeOK
BY InitType, StepType, PTL DEF Spec

-----------------------------------------------------------------------------
(***************************************************************************)
(* The checkpoint.  CheckpointIsDurable is not inductive: it rests on what *)
(* the session still holds being what the pass has read, and on the target *)
(* having what the pass skipped.  Of that there are two reasons, either of *)
(* which will do: that content only moves forward, from the checkpoint     *)
(* through the target, the staging file and the wire to the source (Ahead);*)
(* or that the target never has what the checkpoint does not know of when  *)
(* a pass begins (Settled).                                                *)
(***************************************************************************)

\* Where the pass and its session stand to each other.
InStep ==
    /\ conn.open <=> agent.pc \in {"stream", "wait"}
    /\ conn.reply => agent.pc = "wait" /\ rcv.pc \in {"record", "mark", "accept"}
    /\ agent.pc = "stream" => rcv.pc = "stream" /\ ~conn.done
    /\ agent.pc = "wait" /\ ~conn.reply => rcv.pc \in {"stream", "apply", "ack"}
    /\ agent.pc = "wait" => cur = NumBlocks + 1
    /\ agent.pc = "commit" => rcv.pc \in {"record", "mark", "accept"}
    /\ agent.pc \in {"idle", "hello", "resync"} => cur = 1
    /\ agent.pc \in {"hello", "resync", "stream"} /\ ~agent.full => manifest # None

\* What is still on its way to the target, by where the session is.
Pending ==
    /\ rcv.pc # "stream" => wire = Nothing
    /\ rcv.pc \notin {"stream", "apply"} => stage = Nothing
    /\ rcv.full => stage = Nothing

\* No block that is read is blank.
Filled ==
    /\ \A b \in Blocks : src[b] # Blank
    /\ agent.consistent => \A b \in Blocks : img[b] # Blank

\* Content only moves forward.
Forward ==
    \A b \in Blocks :
        /\ manifest # None => manifest[b] <= vol[b]
        /\ vol[b] <= dev[b]
        /\ dev[b] <= src[b]
        /\ wire[b] <= src[b] /\ stage[b] <= src[b]
        /\ wire[b] # Blank => dev[b] <= wire[b]
        /\ stage[b] # Blank => dev[b] <= stage[b]

\* A point-in-time read is ahead of all that the target was sent.
SnapshotAhead ==
    agent.consistent =>
        \A b \in Blocks :
            /\ dev[b] <= img[b] /\ wire[b] <= img[b] /\ stage[b] <= img[b]
            /\ img[b] <= src[b]

Ahead == Forward /\ SnapshotAhead

\* What block b of the target becomes if the session completes.
Eventual(b) ==
    IF wire[b] # Blank THEN wire[b] ELSE IF stage[b] # Blank THEN stage[b] ELSE dev[b]

\* While a pass has its session, the target is to become what the pass read.
Delivery ==
    agent.pc \in {"stream", "wait"} =>
        \A b \in Blocks :
            IF b < cur THEN Eventual(b) = next[b] ELSE wire[b] = Blank /\ stage[b] = Blank

\* Behind dev.Sync, until the pass is over, the target is durable.
Synced ==
    /\ rcv.pc \in {"ack", "record", "mark"} \/ conn.reply => vol = dev
    /\ agent.pc = "commit" => vol = dev /\ vol = next

CheckpointInv == TypeOK /\ InStep /\ Pending /\ Filled /\ Delivery /\ Synced

\* A block that the pass is about to skip is on the target.
SkipsRight ==
    agent.pc = "stream" /\ ~agent.full /\ cur \in Blocks /\ manifest[cur] = ReadSource[cur]
    => dev[cur] = manifest[cur]

\* The invariant without its types, which TypeCorrect's lemmas give.
Progress == InStep /\ Pending /\ Filled /\ Delivery /\ Synced

\* What a step keeps: the invariant, and content ahead if it was.
Keeps == Progress' /\ (Ahead => Ahead')

\* Content is numbers, a function over the blocks differs from an update of it
\* in one place only, and Nothing holds no record.
LEMMA Access ==
    /\ Blank \in Nat
    /\ \A b \in Blocks : Nothing[b] = Blank /\ b \in Nat
    /\ \A f \in Content, b \in Blocks : f[b] \in Nat
    /\ \A f \in Content, b \in Blocks, c \in Blocks, v \in 0 .. MaxVersion :
          [f EXCEPT ![b] = v][c] = IF c = b THEN v ELSE f[c]
BY SizeAssumption DEF Blank, Blocks, Nothing, Content

\* The invariant is about these variables and no other.
LEMMA SameProgress ==
    /\ CheckpointInv
    /\ UNCHANGED <<src, manifest, passVars, linkVars, rcvVars, diskVars>>
    => Keeps
BY DEF CheckpointInv, Keeps, Progress, InStep, Pending, Filled, Ahead, Forward, SnapshotAhead,
       Delivery, Eventual, Synced, passVars, linkVars, rcvVars, diskVars

\* A pass that is over holds the invariant up by itself, with the link closed.
LEMMA PassOver ==
    ASSUME CheckpointInv, PassEnds, conn'.open = FALSE, conn'.reply = FALSE, src' = src,
           Pending', Ahead => Forward', rcv'.pc \in {"ack", "record", "mark"} => (vol = dev)'
    PROVE  Keeps
<1>1. agent'.pc = "idle" /\ ~agent'.consistent /\ cur' = 1
  BY DEF PassEnds, Resting
<1>2. Filled'
  BY <1>1 DEF CheckpointInv, Filled
<1> QED
  BY <1>1, <1>2 DEF Keeps, Progress, Ahead, InStep, SnapshotAhead, Delivery, Synced

\* Init establishes it.
LEMMA InitProgress == Init => Progress /\ Ahead
<1> SUFFICES ASSUME Init PROVE Progress /\ Ahead
  OBVIOUS
<1>1. \A b \in Blocks : src[b] = 1
  BY DEF Init
<1>2. InStep /\ Pending /\ SnapshotAhead /\ Delivery /\ Synced
  BY DEF Init, Resting, Listening, InStep, Pending, SnapshotAhead, Delivery, Synced
<1>3. Forward /\ Filled
  BY <1>1, Access DEF Init, Forward, Filled, Resting, Blank
<1> QED
  BY <1>2, <1>3 DEF Progress, Ahead

\* The agent up to the Hello.
LEMMA PrepareProgress == CheckpointInv /\ (Prepare \/ PrepareAgain) => Keeps
<1> SUFFICES ASSUME CheckpointInv, Prepare \/ PrepareAgain PROVE Keeps
  OBVIOUS
<1> USE DEF CheckpointInv, passVars, linkVars, rcvVars, diskVars
<1>1. CASE Prepare
  <2>1. /\ agent'.pc = "hello" /\ ~agent'.consistent
        /\ ~agent'.full => manifest # None
    <3>1. PICK forced \in BOOLEAN :
              agent' = [pc |-> "hello", full |-> forced \/ manifest = None,
                        consistent |-> FALSE, mayBail |-> TRUE]
      BY <1>1 DEF Prepare
    <3> QED
      BY <3>1
  <2>2. InStep'
    BY <1>1, <2>1 DEF InStep, Prepare
  <2>3. Pending' /\ Filled' /\ Delivery' /\ Synced'
    BY <1>1, <2>1 DEF Pending, Filled, Delivery, Synced, InStep, Prepare
  <2>4. Ahead => Ahead'
    BY <1>1, <2>1 DEF Ahead, Forward, SnapshotAhead, Prepare
  <2> QED
    BY <2>2, <2>3, <2>4 DEF Keeps, Progress
<1>2. CASE PrepareAgain
  <2>1. /\ agent'.pc = "hello" /\ agent'.full = agent.full
        /\ agent'.consistent = HasSnapshot
        /\ HasSnapshot => img' = src
    BY <1>2, ModeAssumption DEF PrepareAgain, TypeOK, Passes
  <2>2. InStep'
    BY <1>2, <2>1 DEF InStep, PrepareAgain
  <2>3. ASSUME Ahead PROVE Ahead'
    <3>1. \A b \in Blocks : src[b] \in Nat
      BY Access DEF TypeOK
    <3>2. \A b \in Blocks :
             /\ dev[b] <= src[b] /\ wire[b] <= src[b] /\ stage[b] <= src[b]
             /\ src[b] <= src[b]
      BY <2>3, <3>1 DEF Ahead, Forward
    <3>3. UNCHANGED <<manifest, vol, dev, wire, stage, src>>
      BY <1>2 DEF PrepareAgain, diskVars
    <3>4. SnapshotAhead'
      BY <2>1, <3>2, <3>3 DEF SnapshotAhead
    <3> QED
      BY <2>3, <3>3, <3>4 DEF Ahead, Forward
  <2>4. Pending' /\ Filled' /\ Delivery' /\ Synced'
    BY <1>2, <2>1 DEF Pending, Filled, Delivery, Synced, InStep, PrepareAgain
  <2> QED
    BY <2>2, <2>3, <2>4 DEF Keeps, Progress
<1> QED
  BY <1>1, <1>2
\* A block read and, unless the checkpoint has it, sent.
LEMMA ProcessProgress == ASSUME CheckpointInv, SkipsRight, ProcessBlock PROVE Keeps
<1> USE DEF CheckpointInv, passVars, linkVars, rcvVars, diskVars
<1> DEFINE sum == ReadSource[cur]
<1>1. /\ UNCHANGED <<src, manifest, agent, img, conn, rcv, stage, dev, vol>>
      /\ agent.pc = "stream" /\ rcv.pc = "stream"
      /\ cur \in Blocks /\ cur' = cur + 1 /\ cur \in Nat
      /\ next' = [next EXCEPT ![cur] = sum]
  BY Access DEF ProcessBlock, InStep
<1>2. ~conn.reply /\ agent.pc # "wait"
  BY <1>1 DEF InStep
<1>3. /\ sum \in 0 .. MaxVersion /\ sum \in Nat /\ sum # Blank
      /\ agent.consistent => sum = img[cur]
      /\ Ahead => dev[cur] <= sum /\ sum <= src[cur]
  <2>1. sum \in 0 .. MaxVersion /\ sum \in Nat /\ src[cur] \in Nat
    BY <1>1, Access, ContentTypes DEF ReadSource, TypeOK
  <2>2. sum # Blank /\ (agent.consistent => sum = img[cur])
    BY <1>1 DEF ReadSource, Filled
  <2>3. Ahead => dev[cur] <= sum /\ sum <= src[cur]
    BY <1>1, <2>1 DEF ReadSource, Ahead, Forward, SnapshotAhead
  <2> QED
    BY <2>1, <2>2, <2>3
<1>4. wire[cur] = Blank /\ stage[cur] = Blank
  BY <1>1 DEF Delivery
<1>5. \/ wire' = [wire EXCEPT ![cur] = sum]
      \/ wire' = wire /\ dev[cur] = sum
  <2>1. CASE ~agent.full /\ manifest[cur] = sum
    <3>1. dev[cur] = sum
      BY <1>1, <2>1 DEF SkipsRight
    <3> QED
      BY <2>1, <3>1 DEF ProcessBlock
  <2>2. CASE ~(~agent.full /\ manifest[cur] = sum)
    BY <2>2 DEF ProcessBlock
  <2> QED
    BY <2>1, <2>2
<1> HIDE DEF sum
<1>6. wire \in Content /\ next \in Content
  BY DEF TypeOK
<1>7. /\ \A b \in Blocks : b # cur => wire'[b] = wire[b] /\ next'[b] = next[b]
      /\ next'[cur] = sum
      /\ wire'[cur] = sum \/ (wire'[cur] = Blank /\ dev[cur] = sum)
  <2>1. \A b \in Blocks : next'[b] = IF b = cur THEN sum ELSE next[b]
    BY <1>1, <1>3, <1>6, Access
  <2>2. CASE wire' = [wire EXCEPT ![cur] = sum]
    <3>1. \A b \in Blocks : wire'[b] = IF b = cur THEN sum ELSE wire[b]
      BY <1>1, <1>3, <1>6, <2>2, Access
    <3>2. cur \in Blocks
      BY <1>1
    <3> QED
      BY <2>1, <3>1, <3>2
  <2>3. CASE wire' = wire /\ dev[cur] = sum
    BY <1>1, <1>4, <2>1, <2>3
  <2> QED
    BY <1>5, <2>2, <2>3
<1>8. InStep'
  BY <1>1, <1>2 DEF InStep
<1>9. Pending'
  BY <1>1 DEF Pending
<1>10. ASSUME Ahead PROVE Forward'
  <2> SUFFICES ASSUME NEW b \in Blocks
               PROVE  wire'[b] <= src[b] /\ (wire'[b] # Blank => dev[b] <= wire'[b])
    BY <1>1, <1>10 DEF Ahead, Forward
  <2> QED
    BY <1>3, <1>7, <1>10, Access DEF Ahead, Forward, Blank, TypeOK
<1>11. ASSUME Ahead PROVE SnapshotAhead'
  <2> SUFFICES ASSUME agent.consistent, NEW b \in Blocks PROVE wire'[b] <= img[b]
    BY <1>1, <1>11 DEF Ahead, SnapshotAhead
  <2> QED
    BY <1>3, <1>7, <1>11, Access DEF Ahead, SnapshotAhead, Blank, TypeOK
<1>12. Delivery'
  <2> SUFFICES ASSUME NEW b \in Blocks
               PROVE  IF b < cur + 1 THEN Eventual(b)' = next'[b]
                      ELSE wire'[b] = Blank /\ stage[b] = Blank
    BY <1>1 DEF Delivery
  <2>1. CASE b = cur
    BY <2>1, <1>1, <1>3, <1>4, <1>7 DEF Eventual
  <2>2. CASE b # cur
    <3>1. Eventual(b)' = Eventual(b)
      BY <2>2, <1>1, <1>7 DEF Eventual
    <3>2. b < cur + 1 <=> b < cur
      BY <2>2, <1>1, Access
    <3> QED
      BY <2>2, <1>1, <1>7, <3>1, <3>2 DEF Delivery
  <2> QED
    BY <2>1, <2>2
<1>13. Synced' /\ Filled'
  BY <1>1, <1>2 DEF Synced, Filled
<1> QED
  BY <1>8, <1>9, <1>10, <1>11, <1>12, <1>13 DEF Keeps, Progress, Ahead

\* Done, its acknowledgement, and the checkpoint: the step the others are for.
LEMMA CommitProgress == CheckpointInv /\ (SendDone \/ ReceiveDoneAck \/ SaveManifest) => Keeps
<1> SUFFICES ASSUME CheckpointInv, SendDone \/ ReceiveDoneAck \/ SaveManifest PROVE Keeps
  OBVIOUS
<1> USE DEF CheckpointInv, passVars, linkVars, rcvVars, diskVars
<1>1. CASE SendDone
  <2>1. /\ agent.pc = "stream" /\ rcv.pc = "stream" /\ agent'.pc = "wait"
        /\ agent'.full = agent.full /\ agent'.consistent = agent.consistent
        /\ conn'.open = conn.open /\ conn'.reply = conn.reply
        /\ cur = NumBlocks + 1
    BY <1>1 DEF SendDone, InStep, TypeOK, Passes, Links
  <2>2. ~conn.reply
    BY <2>1 DEF InStep
  <2>3. InStep'
    BY <1>1, <2>1, <2>2 DEF InStep, SendDone
  <2>4. Delivery'
    BY <1>1, <2>1 DEF Delivery, Eventual, SendDone
  <2>5. Pending' /\ Filled' /\ Synced' /\ (Ahead => Ahead')
    BY <1>1, <2>1 DEF Pending, Filled, Ahead, Forward, SnapshotAhead, Synced, SendDone
  <2> QED
    BY <2>3, <2>4, <2>5 DEF Keeps, Progress
<1>2. CASE ReceiveDoneAck
  <2>1. /\ agent.pc = "wait" /\ conn.reply /\ agent'.pc = "commit"
        /\ agent'.consistent = agent.consistent
        /\ ~conn'.open /\ ~conn'.reply
        /\ rcv.pc \in {"record", "mark", "accept"}
    BY <1>2 DEF ReceiveDoneAck, InStep, TypeOK, Passes, Links
  <2>2. InStep'
    BY <1>2, <2>1 DEF InStep, ReceiveDoneAck
  <2>3. Pending' /\ Filled' /\ Delivery' /\ (Ahead => Ahead')
    BY <1>2, <2>1 DEF Pending, Filled, Ahead, Forward, SnapshotAhead, Delivery, ReceiveDoneAck
  <2>4. vol = dev /\ wire = Nothing /\ stage = Nothing /\ cur = NumBlocks + 1
    BY <2>1 DEF Synced, Pending, InStep
  <2>5. \A b \in Blocks : b < cur
    BY <2>4, SizeAssumption DEF Blocks
  <2>6. \A b \in Blocks : dev[b] = next[b]
    BY <2>1, <2>4, <2>5, Access DEF Delivery, Eventual
  <2>7. dev = next
    BY <2>6 DEF TypeOK, Content
  <2>8. Synced'
    BY <1>2, <2>1, <2>4, <2>7 DEF Synced, ReceiveDoneAck
  <2> QED
    BY <2>2, <2>3, <2>8 DEF Keeps, Progress
<1>3. CASE SaveManifest
  <2>1. /\ agent.pc = "commit" /\ manifest' = next /\ vol = next
        /\ UNCHANGED <<src, conn, wire, rcv, stage, dev, vol>>
        /\ ~conn.open /\ ~conn.reply
    BY <1>3 DEF SaveManifest, InStep, Synced
  <2>2. \A b \in Blocks : manifest'[b] <= vol[b]
    BY <2>1, Access DEF TypeOK
  <2>3. Ahead => Forward'
    BY <2>1, <2>2 DEF Ahead, Forward
  <2>4. Pending' /\ (rcv'.pc \in {"ack", "record", "mark"} => (vol = dev)')
    BY <2>1 DEF Pending, Synced
  <2>5. conn'.open = FALSE /\ conn'.reply = FALSE
    BY <2>1
  <2> QED
    BY <1>3, <2>1, <2>3, <2>4, <2>5, PassOver DEF SaveManifest
<1> QED
  BY <1>1, <1>2, <1>3
\* A session opened: nothing is left over from an earlier one.
LEMMA HelloProgress == CheckpointInv /\ (HandleHello \/ BounceHello \/ RefuseHello) => Keeps
<1> SUFFICES ASSUME CheckpointInv, HandleHello \/ BounceHello \/ RefuseHello PROVE Keeps
  OBVIOUS
<1> USE DEF CheckpointInv, passVars, linkVars, rcvVars, diskVars
<1>1. CASE HandleHello
  <2>1. /\ agent.pc = "hello" /\ cur = 1 /\ wire = Nothing /\ stage = Nothing
        /\ wire' = Nothing /\ stage' = Nothing
        /\ UNCHANGED <<src, manifest, cur, next, img, dev, vol>>
    BY <1>1 DEF HandleHello, InStep, Pending
  <2>2. /\ agent'.pc = "stream" /\ agent'.full = agent.full
        /\ agent'.consistent = agent.consistent
        /\ conn'.open /\ ~conn'.done /\ ~conn'.reply
        /\ rcv'.pc = "stream"
    BY <1>1 DEF HandleHello, TypeOK, Passes
  <2>3. InStep' /\ Pending' /\ Synced'
    BY <2>1, <2>2 DEF InStep, Pending, Synced
  <2>4. Filled' /\ (Ahead => Ahead')
    BY <2>1, <2>2 DEF Filled, Ahead, Forward, SnapshotAhead
  <2>5. Delivery'
    <3>1. \A b \in Blocks : ~(b < cur)
      BY <2>1, SizeAssumption DEF Blocks
    <3> QED
      BY <2>1, <3>1, Access DEF Delivery
  <2> QED
    BY <2>3, <2>4, <2>5 DEF Keeps, Progress
<1>2. CASE /\ agent.pc = "hello" /\ PassEnds
           /\ UNCHANGED <<src, manifest, conn, wire, rcv, stage, dev, vol>>
  <2>1. ~conn.open /\ ~conn.reply
    BY <1>2 DEF InStep
  <2>2. /\ conn'.open = FALSE /\ conn'.reply = FALSE
        /\ Pending' /\ (Ahead => Forward')
        /\ rcv'.pc \in {"ack", "record", "mark"} => (vol = dev)'
    BY <1>2, <2>1 DEF Pending, Ahead, Forward, Synced, TypeOK, Links
  <2> QED
    BY <1>2, <2>2, PassOver
<1>3. CASE /\ agent.pc = "hello" /\ agent' = [agent EXCEPT !.pc = "resync"]
           /\ UNCHANGED <<src, manifest, cur, next, img, conn, wire, rcv, stage, dev, vol>>
  <2>1. /\ agent'.pc = "resync" /\ agent'.full = agent.full
        /\ agent'.consistent = agent.consistent
    BY <1>3 DEF TypeOK, Passes
  <2>2. InStep' /\ Pending' /\ Synced' /\ Filled' /\ Delivery'
    BY <1>3, <2>1 DEF InStep, Pending, Synced, Filled, Delivery
  <2>3. Ahead => Ahead'
    BY <1>3, <2>1 DEF Ahead, Forward, SnapshotAhead
  <2> QED
    BY <2>2, <2>3 DEF Keeps, Progress
<1>4. BounceHello \/ RefuseHello =>
        /\ agent.pc = "hello"
        /\ UNCHANGED <<src, manifest, conn, wire, rcv, stage, dev, vol>>
        /\ PassEnds \/ (agent' = [agent EXCEPT !.pc = "resync"] /\ UNCHANGED <<cur, next, img>>)
  BY DEF BounceHello, RefuseHello
<1> QED
  BY <1>1, <1>2, <1>3, <1>4

\* A frame taken off the wire: to the target or to the staging file.
LEMMA BlockProgress == ASSUME CheckpointInv, NEW c \in Blocks, ReceiveBlock(c) PROVE Keeps
<1> USE DEF CheckpointInv, passVars, linkVars, rcvVars, diskVars
<1>1. /\ rcv.pc = "stream" /\ wire[c] # Blank
      /\ wire' = [wire EXCEPT ![c] = Blank]
      /\ UNCHANGED <<src, manifest, agent, cur, next, img, conn, rcv, vol>>
  BY DEF ReceiveBlock, First
<1>2. ~conn.reply /\ agent.pc # "commit"
  BY <1>1 DEF InStep
<1>3. \/ rcv.full /\ dev' = [dev EXCEPT ![c] = wire[c]] /\ stage' = stage /\ stage = Nothing
      \/ ~rcv.full /\ stage' = [stage EXCEPT ![c] = wire[c]] /\ dev' = dev
  BY DEF ReceiveBlock, Pending
<1>4. \A b \in Blocks :
         /\ src[b] \in Nat /\ dev[b] \in Nat /\ vol[b] \in Nat /\ wire[b] \in Nat
         /\ stage[b] \in Nat /\ img[b] \in Nat
  BY Access DEF TypeOK
<1>5. /\ wire'[c] = Blank
      /\ \A b \in Blocks : b # c => wire'[b] = wire[b] /\ dev'[b] = dev[b] /\ stage'[b] = stage[b]
      /\ \/ dev'[c] = wire[c] /\ stage'[c] = Blank
         \/ dev'[c] = dev[c] /\ stage'[c] = wire[c]
  <2>1. wire \in Content /\ dev \in Content /\ stage \in Content /\ wire[c] \in 0 .. MaxVersion
    BY ContentTypes DEF TypeOK
  <2>2. \A b \in Blocks : wire'[b] = IF b = c THEN Blank ELSE wire[b]
    BY <1>1, <2>1, Access, ContentTypes
  <2>3. CASE dev' = [dev EXCEPT ![c] = wire[c]] /\ stage' = stage /\ stage = Nothing
    <3>1. \A b \in Blocks : dev'[b] = IF b = c THEN wire[c] ELSE dev[b]
      BY <2>1, <2>3, Access
    <3>2. \A b \in Blocks : stage'[b] = stage[b] /\ stage'[b] = Blank
      BY <2>3, Access
    <3> QED
      BY <2>2, <3>1, <3>2
  <2>4. CASE stage' = [stage EXCEPT ![c] = wire[c]] /\ dev' = dev
    <3>1. \A b \in Blocks : stage'[b] = IF b = c THEN wire[c] ELSE stage[b]
      BY <2>1, <2>4, Access
    <3> QED
      BY <2>2, <2>4, <3>1
  <2> QED
    BY <1>3, <2>3, <2>4
<1>6. InStep' /\ Synced'
  BY <1>1, <1>2 DEF InStep, Synced
<1>7. Pending'
  BY <1>1, <1>3 DEF Pending
<1>8. ASSUME Ahead PROVE Forward'
  <2> SUFFICES ASSUME NEW b \in Blocks
               PROVE  /\ vol[b] <= dev'[b] /\ dev'[b] <= src[b]
                      /\ wire'[b] <= src[b] /\ stage'[b] <= src[b]
                      /\ wire'[b] # Blank => dev'[b] <= wire'[b]
                      /\ stage'[b] # Blank => dev'[b] <= stage'[b]
    BY <1>1, <1>8 DEF Ahead, Forward
  <2>1. /\ vol[b] <= dev[b] /\ dev[b] <= src[b] /\ wire[b] <= src[b] /\ stage[b] <= src[b]
        /\ wire[b] # Blank => dev[b] <= wire[b]
        /\ stage[b] # Blank => dev[b] <= stage[b]
    BY <1>8 DEF Ahead, Forward
  <2>2. CASE b = c
    BY <1>1, <1>4, <1>5, <2>1, <2>2 DEF Blank
  <2>3. CASE b # c
    BY <1>5, <2>1, <2>3
  <2> QED
    BY <2>2, <2>3
<1>9. ASSUME Ahead PROVE SnapshotAhead'
  <2> SUFFICES ASSUME agent.consistent, NEW b \in Blocks
               PROVE  dev'[b] <= img[b] /\ wire'[b] <= img[b] /\ stage'[b] <= img[b]
    BY <1>1, <1>9 DEF Ahead, SnapshotAhead
  <2>1. dev[b] <= img[b] /\ wire[b] <= img[b] /\ stage[b] <= img[b]
    BY <1>9 DEF Ahead, SnapshotAhead
  <2> QED
    BY <1>4, <1>5, <2>1 DEF Blank
<1>10. Delivery'
  <2> SUFFICES ASSUME agent.pc \in {"stream", "wait"}, NEW b \in Blocks
               PROVE  IF b < cur THEN Eventual(b)' = next[b]
                      ELSE wire'[b] = Blank /\ stage'[b] = Blank
    BY <1>1 DEF Delivery
  <2>1. IF b < cur THEN Eventual(b) = next[b] ELSE wire[b] = Blank /\ stage[b] = Blank
    BY DEF Delivery
  <2>2. CASE b = c
    BY <1>1, <1>5, <2>1, <2>2 DEF Eventual
  <2>3. CASE b # c
    BY <1>5, <2>1, <2>3 DEF Eventual
  <2> QED
    BY <2>2, <2>3
<1>11. Filled'
  BY <1>1 DEF Filled
<1> QED
  BY <1>6, <1>7, <1>8, <1>9, <1>10, <1>11 DEF Keeps, Progress, Ahead

\* A staged record written to the target.
LEMMA ApplyProgress == ASSUME CheckpointInv, NEW c \in Blocks, ApplyRecord(c) PROVE Keeps
<1> USE DEF CheckpointInv, passVars, linkVars, rcvVars, diskVars
<1>1. /\ rcv.pc = "apply" /\ stage[c] # Blank
      /\ stage' = [stage EXCEPT ![c] = Blank] /\ dev' = [dev EXCEPT ![c] = stage[c]]
      /\ UNCHANGED <<src, manifest, agent, cur, next, img, conn, wire, rcv, vol>>
  BY DEF ApplyRecord, First
<1>2. ~conn.reply /\ agent.pc # "commit" /\ wire = Nothing /\ ~rcv.full
  BY <1>1, Access DEF InStep, Pending
<1>3. \A b \in Blocks :
         /\ src[b] \in Nat /\ dev[b] \in Nat /\ vol[b] \in Nat
         /\ stage[b] \in Nat /\ img[b] \in Nat /\ wire[b] = Blank
  BY <1>2, Access DEF TypeOK
<1>4. \A b \in Blocks : /\ stage'[b] = IF b = c THEN Blank ELSE stage[b]
                        /\ dev'[b] = IF b = c THEN stage[c] ELSE dev[b]
  <2>1. dev \in Content /\ stage \in Content /\ stage[c] \in 0 .. MaxVersion
    BY ContentTypes DEF TypeOK
  <2> QED
    BY <1>1, <2>1, Access, ContentTypes
<1>5. InStep' /\ Synced' /\ Pending' /\ Filled'
  BY <1>1, <1>2 DEF InStep, Synced, Pending, Filled
<1>6. ASSUME Ahead PROVE Forward'
  <2> SUFFICES ASSUME NEW b \in Blocks
               PROVE  /\ vol[b] <= dev'[b] /\ dev'[b] <= src[b] /\ stage'[b] <= src[b]
                      /\ stage'[b] # Blank => dev'[b] <= stage'[b]
    BY <1>1, <1>3, <1>6 DEF Ahead, Forward
  <2>1. /\ vol[b] <= dev[b] /\ dev[b] <= src[b] /\ stage[b] <= src[b]
        /\ stage[b] # Blank => dev[b] <= stage[b]
    BY <1>6 DEF Ahead, Forward
  <2> QED
    BY <1>1, <1>3, <1>4, <2>1 DEF Blank
<1>7. ASSUME Ahead PROVE SnapshotAhead'
  <2> SUFFICES ASSUME agent.consistent, NEW b \in Blocks
               PROVE  dev'[b] <= img[b] /\ stage'[b] <= img[b]
    BY <1>1, <1>7 DEF Ahead, SnapshotAhead
  <2>1. dev[b] <= img[b] /\ stage[b] <= img[b]
    BY <1>7 DEF Ahead, SnapshotAhead
  <2> QED
    BY <1>3, <1>4, <2>1 DEF Blank
<1>8. Delivery'
  <2> SUFFICES ASSUME agent.pc \in {"stream", "wait"}, NEW b \in Blocks
               PROVE  IF b < cur THEN Eventual(b)' = next[b]
                      ELSE wire[b] = Blank /\ stage'[b] = Blank
    BY <1>1 DEF Delivery
  <2>1. IF b < cur THEN Eventual(b) = next[b] ELSE wire[b] = Blank /\ stage[b] = Blank
    BY DEF Delivery
  <2>2. wire'[b] = wire[b]
    BY <1>1
  <2> QED
    BY <1>1, <1>3, <1>4, <2>1, <2>2 DEF Eventual
<1> QED
  BY <1>5, <1>6, <1>7, <1>8 DEF Keeps, Progress, Ahead
\* Done taken, the target flushed, the acknowledgement sent.
LEMMA SyncProgress ==
    CheckpointInv /\ (ReceiveDone \/ SyncTarget \/ SendDoneAck) => Keeps
<1> SUFFICES ASSUME CheckpointInv, ReceiveDone \/ SyncTarget \/ SendDoneAck PROVE Keeps
  OBVIOUS
<1> USE DEF CheckpointInv, passVars, linkVars, rcvVars, diskVars
<1>1. CASE ReceiveDone
  <2>1. /\ rcv.pc = "stream" /\ wire = Nothing /\ conn.done
        /\ rcv'.pc = "apply" /\ rcv'.full = rcv.full
        /\ conn'.open = conn.open /\ conn'.reply = conn.reply
        /\ UNCHANGED <<src, manifest, agent, cur, next, img, wire, stage, dev, vol>>
    BY <1>1 DEF ReceiveDone, TypeOK, Sessions, Links
  <2>2. ~conn.reply /\ agent.pc \notin {"stream", "commit"}
    BY <2>1 DEF InStep
  <2>3. InStep' /\ Pending' /\ Synced'
    BY <2>1, <2>2 DEF InStep, Pending, Synced
  <2>4. Filled' /\ Delivery' /\ (Ahead => Ahead')
    BY <2>1 DEF Filled, Ahead, Forward, SnapshotAhead, Delivery, Eventual
  <2> QED
    BY <2>3, <2>4 DEF Keeps, Progress
<1>2. CASE SyncTarget
  <2>1. /\ rcv.pc = "apply" /\ stage = Nothing /\ vol' = dev
        /\ rcv'.pc = "ack" /\ rcv'.full = rcv.full
        /\ UNCHANGED <<src, manifest, agent, cur, next, img, conn, wire, stage, dev>>
    BY <1>2 DEF SyncTarget, TypeOK, Sessions
  <2>2. ~conn.reply /\ agent.pc \notin {"stream", "commit"} /\ wire = Nothing
    BY <2>1 DEF InStep, Pending
  <2>3. InStep' /\ Pending' /\ Synced'
    BY <2>1, <2>2 DEF InStep, Pending, Synced
  <2>4. ASSUME Ahead PROVE Forward'
    <3> SUFFICES ASSUME NEW b \in Blocks
                 PROVE  (manifest # None => manifest[b] <= dev[b]) /\ dev[b] <= dev[b]
      BY <2>1, <2>4 DEF Ahead, Forward
    <3>1. dev[b] \in Nat /\ vol[b] \in Nat /\ (manifest # None => manifest[b] \in Nat)
      BY Access DEF TypeOK
    <3> QED
      BY <2>4, <3>1 DEF Ahead, Forward
  <2>5. Filled' /\ Delivery' /\ (Ahead => SnapshotAhead')
    BY <2>1 DEF Filled, Ahead, SnapshotAhead, Delivery, Eventual
  <2> QED
    BY <2>3, <2>4, <2>5 DEF Keeps, Progress, Ahead
<1>3. CASE SendDoneAck
  <2>1. /\ rcv.pc = "ack" /\ wire = Nothing /\ stage = Nothing /\ vol = dev
        /\ conn'.open = conn.open /\ conn'.reply = conn.open /\ conn'.done = conn.done
        /\ wire' = Nothing /\ stage' = Nothing
        /\ rcv'.pc = "record" \/ (rcv'.pc = "accept" /\ ~conn.open)
        /\ UNCHANGED <<src, manifest, agent, cur, next, img, dev, vol>>
    BY <1>3 DEF SendDoneAck, SessionEnds, Listening, Pending, Synced, TypeOK, Sessions, Links
  <2>2. /\ agent.pc \notin {"stream", "commit"}
        /\ conn.open <=> agent.pc = "wait"
    BY <2>1 DEF InStep
  <2>3. InStep' /\ Pending' /\ Synced'
    BY <2>1, <2>2 DEF InStep, Pending, Synced
  <2>4. Filled' /\ Delivery' /\ (Ahead => Ahead')
    BY <2>1 DEF Filled, Ahead, Forward, SnapshotAhead, Delivery, Eventual
  <2> QED
    BY <2>3, <2>4 DEF Keeps, Progress
<1> QED
  BY <1>1, <1>2, <1>3

\* What a session that is over, for whatever reason, leaves to prove: that no
\* pass counts on it any more.
LEMMA SessionOver ==
    ASSUME CheckpointInv, SessionEnds,
           UNCHANGED <<src, manifest, vol>>, dev' \in Content,
           Ahead => \A b \in Blocks : vol[b] <= dev'[b] /\ dev'[b] <= dev[b],
           vol = dev => dev' = dev,
           \/ PassEnds /\ conn'.open = FALSE /\ conn'.reply = FALSE
           \/ /\ UNCHANGED passVars
              /\ conn.open => conn.reply
              /\ conn'.open = conn.open /\ conn'.reply = conn.reply
    PROVE  Keeps
<1> USE DEF CheckpointInv, passVars
<1>1. /\ rcv'.pc = "accept" /\ wire' = Nothing /\ stage' = Nothing
      /\ UNCHANGED <<src, manifest, vol>>
  BY DEF SessionEnds, Listening
<1>2. rcv'.full = FALSE
  BY DEF SessionEnds, Listening
<1>3. Pending'
  BY <1>1, <1>2 DEF Pending
<1>4. \A b \in Blocks :
         /\ src[b] \in Nat /\ dev[b] \in Nat /\ vol[b] \in Nat /\ img[b] \in Nat
         /\ dev'[b] \in Nat /\ wire'[b] = Blank /\ stage'[b] = Blank
  BY <1>1, Access DEF TypeOK
<1>5. ASSUME Ahead PROVE Forward'
  <2> SUFFICES ASSUME NEW b \in Blocks
               PROVE  /\ vol[b] <= dev'[b] /\ dev'[b] <= src[b]
                      /\ Blank <= src[b]
    BY <1>1, <1>4, <1>5 DEF Ahead, Forward
  <2> QED
    BY <1>4, <1>5 DEF Ahead, Forward, Blank
<1>6. CASE PassEnds /\ conn'.open = FALSE /\ conn'.reply = FALSE
  BY <1>1, <1>3, <1>5, <1>6, PassOver
<1>7. CASE /\ UNCHANGED passVars
           /\ conn.open => conn.reply
           /\ conn'.open = conn.open /\ conn'.reply = conn.reply
  <2>1. /\ UNCHANGED <<agent, cur, next, img>>
        /\ conn'.open = conn.open /\ conn'.reply = conn.reply
    BY <1>7
  <2>2. InStep'
    BY <1>1, <1>7, <2>1 DEF InStep
  <2>3. Filled' /\ (Ahead => SnapshotAhead')
    <3>1. Filled'
      BY <1>1, <2>1 DEF Filled
    <3>2. ASSUME Ahead, agent.consistent, NEW b \in Blocks
          PROVE  dev'[b] <= img[b] /\ Blank <= img[b] /\ img[b] <= src[b]
      BY <1>4, <3>2 DEF Ahead, SnapshotAhead, Blank
    <3>3. Ahead => SnapshotAhead'
      BY <1>1, <1>4, <2>1, <3>2 DEF SnapshotAhead
    <3> QED
      BY <3>1, <3>3
  <2>4. (agent.pc \in {"wait", "commit"} => vol = dev) /\ agent.pc # "stream"
    BY <1>7 DEF InStep, Synced
  <2>5. Synced'
    BY <1>1, <2>1, <2>4 DEF Synced, InStep
  <2>6. Delivery'
    <3>1. agent.pc = "wait" => wire = Nothing /\ stage = Nothing /\ dev' = dev
      BY <1>7, <2>4 DEF InStep, Pending
    <3> QED
      BY <1>1, <2>1, <2>4, <3>1 DEF Delivery, Eventual
  <2> QED
    BY <1>3, <1>5, <2>2, <2>3, <2>5, <2>6 DEF Keeps, Progress, Ahead
<1> QED
  BY <1>6, <1>7

\* A pass that is recorded and is to be marked: nothing of it is still under way.
LEMMA MarkProgress == CheckpointInv /\ RecordDiskSync /\ BeginsMark => Keeps
<1> SUFFICES ASSUME CheckpointInv, RecordDiskSync, BeginsMark PROVE Keeps
  OBVIOUS
<1> USE DEF CheckpointInv, passVars, diskVars
<1>1. /\ rcv.pc = "record" /\ wire = Nothing /\ stage = Nothing /\ vol = dev
      /\ wire' = Nothing /\ stage' = Nothing /\ rcv'.pc = "mark"
      /\ UNCHANGED <<src, manifest, agent, cur, next, img, conn, dev, vol>>
  BY DEF RecordDiskSync, BeginsMark, Pending, Synced, TypeOK, Sessions
<1>2. InStep' /\ Pending' /\ Synced'
  BY <1>1 DEF InStep, Pending, Synced
<1>3. Filled' /\ Delivery' /\ (Ahead => Ahead')
  BY <1>1 DEF Filled, Ahead, Forward, SnapshotAhead, Delivery, Eventual
<1> QED
  BY <1>2, <1>3 DEF Keeps, Progress

\* Sessions that end: recorded, dropped, failed, or lost with the appliance.
LEMMA EndProgress ==
    /\ CheckpointInv
    /\ \/ RecordDiskSync \/ MarkDiskConsistent \/ AbortSession
       \/ SessionFails \/ ApplianceRestart \/ HostCrash
    => Keeps
<1> SUFFICES ASSUME CheckpointInv,
                    \/ (RecordDiskSync /\ SessionEnds) \/ MarkDiskConsistent \/ AbortSession
                    \/ SessionFails \/ ApplianceRestart \/ HostCrash
             PROVE  Keeps
  BY MarkProgress DEF RecordDiskSync
<1> USE DEF CheckpointInv, passVars, linkVars, rcvVars, diskVars
<1>1. Ahead => \A b \in Blocks : vol[b] <= dev[b] /\ dev[b] <= dev[b] /\ vol[b] <= vol[b]
  BY Access DEF TypeOK, Ahead, Forward
<1>2. dev \in Content /\ vol \in Content
  BY DEF TypeOK
<1>3. SessionEnds /\ UNCHANGED <<src, manifest, vol>> /\ (dev' = dev \/ dev' = vol)
  BY DEF RecordDiskSync, MarkDiskConsistent, AbortSession, SessionFails, ApplianceRestart, HostCrash
<1>4. \/ PassEnds /\ conn'.open = FALSE /\ conn'.reply = FALSE
      \/ /\ UNCHANGED passVars
         /\ conn.open => conn.reply
         /\ conn'.open = conn.open /\ conn'.reply = conn.reply
  <2>1. CASE RecordDiskSync \/ MarkDiskConsistent
    BY <2>1 DEF RecordDiskSync, MarkDiskConsistent, InStep
  <2>2. CASE AbortSession
    BY <2>2 DEF AbortSession
  <2>3. CASE SessionFails \/ ApplianceRestart \/ HostCrash
    <3>1. AgentLosesReceiver
      BY <2>3 DEF SessionFails, ApplianceRestart, HostCrash
    <3>2. conn.open \in BOOLEAN /\ conn.reply \in BOOLEAN /\ (conn.reply => conn.open)
      BY DEF InStep, TypeOK, Links
    <3>3. CASE conn.open /\ ~conn.reply
      <4>1. PassEnds /\ conn'.open = conn.reply /\ conn'.reply = conn.reply
        BY <3>1, <3>3 DEF AgentLosesReceiver
      <4> QED
        BY <3>2, <3>3, <4>1
    <3>4. CASE ~(conn.open /\ ~conn.reply)
      BY <3>1, <3>2, <3>4 DEF AgentLosesReceiver
    <3> QED
      BY <3>3, <3>4
  <2> QED
    BY <2>1, <2>2, <2>3
<1> QED
  BY <1>1, <1>2, <1>3, <1>4, SessionOver
\* The agent stopping, the wire cut behind some frame.
LEMMA StopProgress == CheckpointInv /\ AgentStops => Keeps
<1> SUFFICES ASSUME CheckpointInv, AgentStops PROVE Keeps
  OBVIOUS
<1> USE DEF CheckpointInv, passVars, linkVars, rcvVars, diskVars
<1>1. PassEnds /\ UNCHANGED <<src, manifest, rcv, stage, dev, vol>>
  BY DEF AgentStops
<1>2. /\ conn'.open = FALSE /\ conn'.reply = FALSE
      /\ \A b \in Blocks : wire'[b] = wire[b] \/ wire'[b] = Blank
      /\ wire' \in Content
  <2>1. CASE conn.open
    <3>1. PICK last \in 0 .. NumBlocks, behind \in BOOLEAN :
              /\ wire' = [b \in Blocks |-> IF b <= last THEN wire[b] ELSE Blank]
              /\ conn' = [open |-> FALSE, reply |-> FALSE,
                          done |-> conn.done /\ behind /\ last = NumBlocks]
      BY <2>1 DEF AgentStops
    <3>2. wire' \in Content
      BY <3>1, SizeAssumption DEF TypeOK, Content, Blank
    <3> QED
      BY <3>1, <3>2
  <2>2. CASE ~conn.open
    <3>1. UNCHANGED <<conn, wire>> /\ ~conn.reply
      BY <2>2 DEF AgentStops, InStep
    <3> QED
      BY <2>2, <3>1 DEF TypeOK, Links
  <2> QED
    BY <2>1, <2>2
<1>3. Pending'
  <2>1. wire = Nothing => wire' = Nothing
    <3> SUFFICES ASSUME wire = Nothing PROVE wire' = Nothing
      OBVIOUS
    <3>1. \A b \in Blocks : wire'[b] = Nothing[b]
      BY <1>2, Access
    <3> QED
      BY <1>2, <3>1, ContentTypes DEF Content
  <2> QED
    BY <1>1, <2>1 DEF Pending
<1>4. ASSUME Ahead PROVE Forward'
  <2>1. \A b \in Blocks : src[b] \in Nat
    BY Access DEF TypeOK
  <2> QED
    BY <1>1, <1>2, <1>4, <2>1 DEF Ahead, Forward, Blank
<1>5. rcv'.pc \in {"ack", "record", "mark"} => (vol = dev)'
  BY <1>1 DEF Synced
<1> QED
  BY <1>1, <1>2, <1>3, <1>4, <1>5, PassOver

\* The source moves forward, the kernel writes back what it will.
LEMMA DeviceProgress ==
    ASSUME CheckpointInv, NEW c \in Blocks, SourceWrite(c) \/ Writeback(c)
    PROVE  Progress' /\ (~Recurring => Keeps)
<1> USE DEF CheckpointInv, passVars, linkVars, rcvVars, diskVars
<1>1. CASE SourceWrite(c)
  <2>1. PICK v \in Versions :
            /\ IF Recurring THEN v # src[c] ELSE v = src[c] + 1
            /\ src' = [src EXCEPT ![c] = v]
    BY <1>1 DEF SourceWrite
  <2>2. UNCHANGED <<manifest, agent, cur, next, img, conn, wire, rcv, stage, dev, vol>>
    BY <1>1 DEF SourceWrite
  <2>3. src \in Content /\ v \in 0 .. MaxVersion /\ v # Blank
    BY SizeAssumption DEF TypeOK, Versions, Blank
  <2>4. \A b \in Blocks : src'[b] = IF b = c THEN v ELSE src[b]
    BY <2>1, <2>3, Access
  <2>5. \A b \in Blocks :
           /\ src[b] \in Nat /\ dev[b] \in Nat /\ wire[b] \in Nat /\ stage[b] \in Nat
           /\ img[b] \in Nat /\ src'[b] \in Nat
    BY <2>3, <2>4, Access DEF TypeOK
  <2>6. InStep' /\ Pending' /\ Filled' /\ Delivery' /\ Synced'
    BY <2>2, <2>3, <2>4 DEF InStep, Pending, Filled, Delivery, Eventual, Synced
  <2>7. ASSUME ~Recurring, Ahead PROVE Ahead'
    <3>1. \A b \in Blocks : src[b] <= src'[b]
      BY <2>1, <2>4, <2>5, <2>7
    <3> QED
      BY <2>2, <2>5, <2>7, <3>1 DEF Ahead, Forward, SnapshotAhead
  <2> QED
    BY <2>6, <2>7 DEF Keeps, Progress
<1>2. CASE Writeback(c)
  <2>1. /\ vol # dev /\ vol' = [vol EXCEPT ![c] = dev[c]]
        /\ UNCHANGED <<src, manifest, agent, cur, next, img, conn, wire, rcv, stage, dev>>
    BY <1>2 DEF Writeback
  <2>2. \A b \in Blocks : vol'[b] = IF b = c THEN dev[c] ELSE vol[b]
    <3>1. vol \in Content /\ dev[c] \in 0 .. MaxVersion
      BY ContentTypes DEF TypeOK
    <3> QED
      BY <2>1, <3>1, Access
  <2>3. \A b \in Blocks :
           dev[b] \in Nat /\ vol[b] \in Nat /\ (manifest # None => manifest[b] \in Nat)
    BY Access DEF TypeOK
  <2>4. ASSUME Ahead PROVE Forward'
    <3> SUFFICES ASSUME NEW b \in Blocks
                 PROVE  (manifest # None => manifest[b] <= vol'[b]) /\ vol'[b] <= dev[b]
      BY <2>1, <2>4 DEF Ahead, Forward
    <3> QED
      BY <2>2, <2>3, <2>4 DEF Ahead, Forward
  <2>5. Synced'
    BY <2>1 DEF Synced
  <2>6. InStep' /\ Pending' /\ Filled' /\ Delivery' /\ (Ahead => SnapshotAhead')
    BY <2>1 DEF InStep, Pending, Filled, Ahead, SnapshotAhead, Delivery, Eventual
  <2> QED
    BY <2>4, <2>5, <2>6 DEF Keeps, Progress, Ahead
<1> QED
  BY <1>1, <1>2

\* Every step keeps the invariant, if what is skipped is there.
LEMMA CheckpointStep ==
    ASSUME CheckpointInv, SkipsRight, [Next]_vars
    PROVE  CheckpointInv' /\ (~Recurring => (Ahead => Ahead'))
<1>1. TypeOK'
  BY StepType DEF CheckpointInv
<1>2. Progress' /\ (~Recurring => Keeps)
  <2>1. CASE AgentStep
    BY <2>1, PrepareProgress, ProcessProgress, CommitProgress DEF AgentStep, Keeps
  <2>2. CASE ReceiverStep
    BY <2>2, HelloProgress, BlockProgress, ApplyProgress, SyncProgress, EndProgress
       DEF ReceiverStep, Keeps
  <2>3. CASE Fault
    BY <2>3, StopProgress, HelloProgress, EndProgress DEF Fault, Keeps
  <2>4. CASE \E b \in Blocks : SourceWrite(b) \/ Writeback(b)
    BY <2>4, DeviceProgress
  <2>5. CASE RequestConsistency \/ ClearConsistency \/ UNCHANGED vars
    BY <2>5, SameProgress DEF RequestConsistency, ClearConsistency, vars, Keeps
  <2>6. QED
    BY <2>1, <2>2, <2>3, <2>4, <2>5 DEF Next
<1>3. QED
  BY <1>1, <1>2 DEF CheckpointInv, Progress, Keeps

\* Content that has moved from the checkpoint past the target to the source and is the
\* checkpoint's still is the target's too.
LEMMA AheadSkipsRight == CheckpointInv /\ Ahead => SkipsRight
<1> SUFFICES ASSUME CheckpointInv, Ahead, agent.pc = "stream", ~agent.full, cur \in Blocks,
                    manifest[cur] = ReadSource[cur]
             PROVE  dev[cur] = manifest[cur]
  BY DEF SkipsRight
<1>1. manifest # None /\ manifest[cur] <= vol[cur] /\ vol[cur] <= dev[cur]
  BY DEF CheckpointInv, InStep, Ahead, Forward
<1>2. dev[cur] <= ReadSource[cur]
  BY DEF ReadSource, Ahead, Forward, SnapshotAhead
<1>3. manifest[cur] \in Nat /\ dev[cur] \in Nat /\ vol[cur] \in Nat
  BY <1>1, Access DEF CheckpointInv, TypeOK
<1>4. QED
  BY <1>1, <1>2, <1>3

LEMMA CheckpointAlways == ASSUME ~Recurring PROVE Spec => []CheckpointInv
<1>1. Init => CheckpointInv /\ Ahead
  BY InitType, InitProgress DEF CheckpointInv, Progress
<1>2. CheckpointInv /\ Ahead /\ [Next]_vars => CheckpointInv' /\ Ahead'
  BY CheckpointStep, AheadSkipsRight
<1>3. QED
  BY <1>1, <1>2, PTL DEF Spec

\* When contents do not recur, a checkpoint about to be saved lists exactly what
\* the target durably holds, after any passes, lost acknowledgements, failed
\* sessions, restarts and host crashes.
THEOREM CheckpointSafe == ASSUME ~Recurring PROVE Spec => []CheckpointIsDurable
<1>1. CheckpointInv => CheckpointIsDurable
  BY DEF CheckpointInv, Synced, CheckpointIsDurable
<1> QED
  BY <1>1, CheckpointAlways, PTL

\* But for the pass that is landing, the target is what the checkpoint says, and no
\* session is about to change that.
Settled ==
    manifest # None /\ ~Landing =>
        /\ dev = manifest /\ vol = manifest
        /\ rcv.pc # "apply"
        /\ rcv.pc = "stream" => ~rcv.full /\ ~conn.done

LEMMA SettledAgent == ASSUME CheckpointInv, Settled, AgentStep PROVE Settled'
<1> USE DEF passVars, linkVars, rcvVars, diskVars, Landing
<1>t. agent \in Passes
  BY DEF CheckpointInv, TypeOK
<1>1. CASE Prepare
  <2>1. agent.pc = "idle" /\ agent'.pc = "hello" /\ UNCHANGED <<manifest, dev, vol, rcv, conn>>
    BY <1>1 DEF Prepare
  <2>2. QED
    BY <2>1 DEF Settled
<1>2. CASE PrepareAgain
  <2>1. agent.pc = "resync" /\ agent'.pc = "hello" /\ UNCHANGED <<manifest, dev, vol, rcv, conn>>
    BY <1>t, <1>2 DEF PrepareAgain, Passes
  <2>2. QED
    BY <2>1 DEF Settled
<1>3. CASE ProcessBlock
  BY <1>3 DEF ProcessBlock, Settled
<1>4. CASE SendDone \/ ReceiveDoneAck
  <2>1. agent'.pc \in {"wait", "commit"}
    BY <1>t, <1>4 DEF SendDone, ReceiveDoneAck, Passes
  <2>2. QED
    BY <2>1 DEF Settled
\* The checkpoint catches up with the target.
<1>5. CASE SaveManifest
  <2>1. /\ agent.pc = "commit" /\ manifest' = next
        /\ UNCHANGED <<dev, vol, rcv, conn>>
    BY <1>5 DEF SaveManifest
  <2>2. vol = dev /\ vol = next /\ rcv.pc \in {"record", "mark", "accept"}
    BY <2>1 DEF CheckpointInv, Synced, InStep
  <2>3. QED
    BY <2>1, <2>2 DEF Settled
<1>6. QED
  BY <1>1, <1>2, <1>3, <1>4, <1>5 DEF AgentStep

LEMMA SettledReceiver == ASSUME CheckpointInv, Settled, ReceiverStep PROVE Settled'
<1> USE DEF passVars, linkVars, rcvVars, diskVars, Landing
<1>t. agent \in Passes /\ rcv \in Sessions /\ conn \in Links
  BY DEF CheckpointInv, TypeOK
<1>1. CASE HandleHello
  <2>1. /\ agent.pc = "hello" /\ agent'.pc = "stream" /\ agent'.full = agent.full
        /\ rcv'.pc = "stream" /\ rcv'.full = agent.full /\ ~conn'.done
        /\ UNCHANGED <<manifest, dev, vol>>
    BY <1>t, <1>1 DEF HandleHello, Passes
  <2>2. QED
    BY <2>1 DEF Settled
<1>2. CASE BounceHello
  <2>1. agent.pc = "hello" /\ UNCHANGED <<manifest, dev, vol, rcv, conn>>
    BY <1>2 DEF BounceHello
  <2>2. QED
    BY <2>1 DEF Settled
<1>3. ASSUME NEW b \in Blocks, ReceiveBlock(b) PROVE Settled'
  <2>1. /\ rcv.pc = "stream" /\ (dev' = dev \/ rcv.full)
        /\ UNCHANGED <<manifest, vol, rcv, conn, agent>>
    BY <1>3 DEF ReceiveBlock
  <2>2. QED
    BY <2>1 DEF Settled
<1>4. CASE ReceiveDone \/ SyncTarget \/ \E b \in Blocks : ApplyRecord(b)
  <2>1. /\ UNCHANGED <<manifest, agent>>
        /\ rcv.pc = "apply" \/ (rcv.pc = "stream" /\ conn.done)
    BY <1>4 DEF ReceiveDone, SyncTarget, ApplyRecord
  <2>2. QED
    BY <2>1 DEF Settled
<1>5. CASE SendDoneAck \/ RecordDiskSync \/ MarkDiskConsistent \/ AbortSession
  <2>1. rcv'.pc \in {"record", "mark", "accept"} /\ UNCHANGED <<manifest, dev, vol, agent>>
    BY <1>t, <1>5 DEF SendDoneAck, RecordDiskSync, MarkDiskConsistent, AbortSession, SessionEnds,
       BeginsMark, Listening, Sessions
  <2>2. QED
    BY <2>1 DEF Settled
<1>6. QED
  BY <1>1, <1>2, <1>3, <1>4, <1>5 DEF ReceiverStep

\* A fault of a pass that is not landing leaves the target as it is.
LEMMA SettledFault == ASSUME CheckpointInv, Settled, Fault, ~Forgets PROVE Settled'
<1> USE DEF passVars, linkVars, rcvVars, diskVars, Landing
<1>1. manifest' = manifest
  BY DEF Fault, AgentStops, RefuseHello, SessionFails, ApplianceRestart, HostCrash
<1>2. agent' = agent \/ agent'.pc = "idle"
  BY DEF Fault, AgentStops, RefuseHello, SessionFails, ApplianceRestart, HostCrash, AgentLosesReceiver,
     PassEnds, Resting
<1>3. SUFFICES ASSUME manifest # None, ~Landing
               PROVE  /\ dev' = manifest /\ vol' = manifest
                      /\ rcv'.pc # "apply"
                      /\ rcv'.pc = "stream" => ~rcv'.full /\ ~conn'.done
  BY <1>1, <1>2 DEF Settled, Forgets
<1>4. CASE AgentStops
  <2>1. UNCHANGED <<dev, vol, rcv>>
    BY <1>4 DEF AgentStops
  <2>2. conn'.done => conn.done
    <3>1. CASE conn.open
      <4>1. PICK last \in 0 .. NumBlocks, behind \in BOOLEAN :
                conn' = [open |-> FALSE, reply |-> FALSE,
                         done |-> conn.done /\ behind /\ last = NumBlocks]
        BY <1>4, <3>1 DEF AgentStops
      <4>2. QED
        BY <4>1
    <3>2. CASE ~conn.open
      BY <1>4, <3>2 DEF AgentStops
    <3>3. QED
      BY <3>1, <3>2
  <2>3. QED
    BY <1>3, <2>1, <2>2 DEF Settled
<1>5. CASE RefuseHello
  BY <1>3, <1>5 DEF RefuseHello, Settled
<1>6. CASE SessionFails \/ ApplianceRestart \/ HostCrash
  <2>1. rcv'.pc = "accept" /\ vol' = vol /\ (dev' = dev \/ dev' = vol)
    BY <1>6 DEF SessionFails, ApplianceRestart, HostCrash, SessionEnds, Listening
  <2>2. QED
    BY <1>3, <2>1 DEF Settled
<1>7. QED
  BY <1>4, <1>5, <1>6 DEF Fault

LEMMA SettledStep ==
    ASSUME CheckpointInv, Settled, [Next]_vars, [~Forgets]_vars
    PROVE  Settled'
<1>1. CASE AgentStep \/ ReceiverStep
  BY <1>1, SettledAgent, SettledReceiver
<1>2. CASE Fault /\ ~Forgets
  BY <1>2, SettledFault
<1>3. CASE \/ \E b \in Blocks : SourceWrite(b)
           \/ RequestConsistency \/ ClearConsistency \/ UNCHANGED vars
  <2>1. UNCHANGED <<manifest, dev, vol, rcv, conn, agent>>
    BY <1>3 DEF SourceWrite, RequestConsistency, ClearConsistency, vars, passVars, linkVars,
       rcvVars, diskVars
  <2>2. QED
    BY <2>1 DEF Settled, Landing
\* Nothing is left to write back.
<1>4. ASSUME NEW b \in Blocks, Writeback(b) PROVE Settled'
  <2>1. vol # dev /\ UNCHANGED <<manifest, agent>>
    BY <1>4 DEF Writeback, passVars
  <2>2. QED
    BY <2>1 DEF Settled, Landing
<1>5. QED
  BY <1>1, <1>2, <1>3, <1>4 DEF Next

LEMMA SettledAlways == Spec /\ [][~Forgets]_vars => []CheckpointInv
<1>1. Init => CheckpointInv /\ Settled
  BY InitType, InitProgress DEF CheckpointInv, Progress, Init, Settled
<1>2. CheckpointInv /\ Settled => SkipsRight
  BY DEF CheckpointInv, InStep, Settled, SkipsRight, Landing
<1>3. CheckpointInv /\ Settled /\ [Next]_vars /\ [~Forgets]_vars => CheckpointInv' /\ Settled'
  BY <1>2, CheckpointStep, SettledStep
<1>4. QED
  BY <1>1, <1>3, PTL DEF Spec

\* Whatever the source writes, a checkpoint about to be saved lists exactly what the
\* target durably holds, as long as no fault makes a pass that may have reached the
\* target end without its own checkpoint.
THEOREM CheckpointSafeUnlessForgotten == Spec /\ [][~Forgets]_vars => []CheckpointIsDurable
<1>1. CheckpointInv => CheckpointIsDurable
  BY DEF CheckpointInv, Synced, CheckpointIsDurable
<1>2. QED
  BY <1>1, SettledAlways, PTL

(***************************************************************************)
(* The contract: what the target holds, pass by pass, where the invariant  *)
(* of the checkpoint holds, for either reason, and no fault tears a pass.  *)
(***************************************************************************)

\* A pass whose Done has been sent will make the target what it offered.
Offered ==
    /\ conn.done => rcv.pc = "stream"
    /\ conn.done \/ rcv.pc = "apply" => \A b \in Blocks : Eventual(b) = offer[b]

LEMMA SameOffered ==
    ASSUME Offered, UNCHANGED <<wire, stage, dev, offer>>, conn'.done = conn.done, rcv'.pc = rcv.pc
    PROVE  Offered'
BY DEF Offered, Eventual

\* A session that is not applying, with no Done under way, has nothing to answer for.
LEMMA NoneOffered ==
    ASSUME ~conn'.done, rcv'.pc # "apply"
    PROVE  Offered'
BY DEF Offered

LEMMA OfferedAgent ==
    ASSUME CheckpointInv, Offered, AgentStep
    PROVE  Offered'
<1> USE DEF passVars, linkVars, rcvVars, diskVars, history
<1>t. conn \in Links /\ agent \in Passes /\ rcv \in Sessions
  BY DEF CheckpointInv, TypeOK
<1>1. CASE Prepare \/ PrepareAgain \/ SaveManifest
  BY <1>1, SameOffered DEF Prepare, PrepareAgain, SaveManifest
<1>2. CASE ReceiveDoneAck
  BY <1>t, <1>2, SameOffered DEF ReceiveDoneAck, Links
<1>3. CASE ProcessBlock
  <2>1. ~conn.done /\ rcv.pc = "stream" /\ conn' = conn /\ rcv' = rcv
    BY <1>3 DEF ProcessBlock, CheckpointInv, InStep
  <2>2. QED
    BY <2>1, NoneOffered
<1>4. CASE SendDone
  <2>1. /\ agent.pc = "stream" /\ cur = NumBlocks + 1 /\ rcv.pc = "stream"
        /\ offer' = next /\ UNCHANGED <<wire, stage, dev, rcv>>
    BY <1>4 DEF SendDone, CheckpointInv, InStep
  <2>2. \A b \in Blocks : b < cur
    BY <2>1, SizeAssumption DEF Blocks
  <2>3. \A b \in Blocks : Eventual(b) = next[b]
    BY <2>1, <2>2 DEF CheckpointInv, Delivery
  <2>4. QED
    BY <2>1, <2>3 DEF Offered, Eventual
<1>5. QED
  BY <1>1, <1>2, <1>3, <1>4 DEF AgentStep

\* A block received is still what the target will become there.
LEMMA ReceiveKeepsEventual ==
    ASSUME CheckpointInv, NEW c \in Blocks, ReceiveBlock(c)
    PROVE  \A b \in Blocks : Eventual(b)' = Eventual(b)
<1>1. /\ wire[c] # Blank /\ wire' = [wire EXCEPT ![c] = Blank]
      /\ \/ dev' = [dev EXCEPT ![c] = wire[c]] /\ stage' = stage /\ stage = Nothing
         \/ stage' = [stage EXCEPT ![c] = wire[c]] /\ dev' = dev
  BY DEF ReceiveBlock, First, CheckpointInv, Pending, diskVars
<1>2. /\ wire \in Content /\ dev \in Content /\ stage \in Content /\ wire[c] \in 0 .. MaxVersion
      /\ Blank \in 0 .. MaxVersion
  BY ContentTypes DEF CheckpointInv, TypeOK
<1>3. ASSUME NEW b \in Blocks PROVE Eventual(b)' = Eventual(b)
  <2>1. wire'[b] = IF b = c THEN Blank ELSE wire[b]
    BY <1>1, <1>2, Access
  <2>2. CASE dev' = [dev EXCEPT ![c] = wire[c]] /\ stage' = stage /\ stage = Nothing
    <3>1. dev'[b] = (IF b = c THEN wire[c] ELSE dev[b]) /\ stage'[b] = Blank /\ stage[b] = Blank
      BY <1>2, <2>2, Access
    <3>2. QED
      BY <1>1, <2>1, <3>1 DEF Eventual
  <2>3. CASE stage' = [stage EXCEPT ![c] = wire[c]] /\ dev' = dev
    <3>1. stage'[b] = IF b = c THEN wire[c] ELSE stage[b]
      BY <1>2, <2>3, Access
    <3>2. QED
      BY <1>1, <2>1, <2>3, <3>1 DEF Eventual
  <2>4. QED
    BY <1>1, <2>2, <2>3
<1>4. QED
  BY <1>3

\* So is one applied, and the target with what is staged laid over it is the same.
LEMMA ApplyKeepsImage ==
    ASSUME CheckpointInv, NEW c \in Blocks, ApplyRecord(c)
    PROVE  /\ \A b \in Blocks : Eventual(b)' = Eventual(b)
           /\ Overlay(dev', stage') = Overlay(dev, stage)
<1>1. /\ stage[c] # Blank /\ stage' = [stage EXCEPT ![c] = Blank]
      /\ dev' = [dev EXCEPT ![c] = stage[c]] /\ wire' = wire /\ wire = Nothing
  BY DEF ApplyRecord, First, CheckpointInv, Pending, linkVars
<1>2. /\ dev \in Content /\ stage \in Content /\ stage[c] \in 0 .. MaxVersion
      /\ Blank \in 0 .. MaxVersion
  BY ContentTypes DEF CheckpointInv, TypeOK
<1>3. ASSUME NEW b \in Blocks
      PROVE  /\ stage'[b] = (IF b = c THEN Blank ELSE stage[b])
             /\ dev'[b] = (IF b = c THEN stage[c] ELSE dev[b])
             /\ wire[b] = Blank
  BY <1>1, <1>2, Access
<1>4. \A b \in Blocks : Eventual(b)' = Eventual(b)
  BY <1>1, <1>3 DEF Eventual
<1>5. \A b \in Blocks :
         (IF stage'[b] # Blank THEN stage'[b] ELSE dev'[b])
            = (IF stage[b] # Blank THEN stage[b] ELSE dev[b])
  BY <1>1, <1>3
<1>6. QED
  BY <1>4, <1>5 DEF Overlay

LEMMA OfferedReceiver ==
    ASSUME CheckpointInv, Offered, ReceiverStep
    PROVE  Offered'
<1> USE DEF passVars, linkVars, rcvVars, diskVars, history
<1>t. conn \in Links /\ agent \in Passes /\ rcv \in Sessions
  BY DEF CheckpointInv, TypeOK
<1>1. CASE HandleHello
  BY <1>1, NoneOffered DEF HandleHello
<1>2. CASE BounceHello
  BY <1>2, SameOffered DEF BounceHello
<1>3. ASSUME NEW b \in Blocks, ReceiveBlock(b) PROVE Offered'
  <2>1. UNCHANGED <<conn, rcv, offer>>
    BY <1>3 DEF ReceiveBlock
  <2>2. QED
    BY <1>3, <2>1, ReceiveKeepsEventual DEF Offered
<1>4. ASSUME NEW b \in Blocks, ApplyRecord(b) PROVE Offered'
  <2>1. UNCHANGED <<conn, rcv, offer>>
    BY <1>4 DEF ApplyRecord
  <2>2. QED
    BY <1>4, <2>1, ApplyKeepsImage DEF Offered
<1>5. CASE ReceiveDone
  <2>1. conn.done /\ conn'.done = FALSE /\ rcv'.pc = "apply" /\ UNCHANGED <<wire, stage, dev, offer>>
    BY <1>t, <1>5 DEF ReceiveDone, Links, Sessions
  <2>2. QED
    BY <2>1 DEF Offered, Eventual
<1>6. CASE SyncTarget
  <2>1. ~conn'.done /\ rcv'.pc = "ack"
    BY <1>t, <1>6 DEF SyncTarget, Sessions, Offered
  <2>2. QED
    BY <2>1, NoneOffered
<1>7. CASE SendDoneAck
  <2>1. ~conn'.done /\ rcv'.pc \in {"record", "mark", "accept"}
    BY <1>t, <1>7 DEF SendDoneAck, Links, Sessions, Offered, SessionEnds, Listening
  <2>2. QED
    BY <2>1, NoneOffered
<1>8. CASE RecordDiskSync \/ MarkDiskConsistent \/ AbortSession
  <2>1. ~conn'.done /\ rcv'.pc \in {"mark", "accept"}
    BY <1>t, <1>8 DEF RecordDiskSync, MarkDiskConsistent, AbortSession, Offered, SessionEnds,
       BeginsMark, Listening, Sessions
  <2>2. QED
    BY <2>1, NoneOffered
<1>9. QED
  BY <1>1, <1>2, <1>3, <1>4, <1>5, <1>6, <1>7, <1>8 DEF ReceiverStep

LEMMA OfferedFault ==
    ASSUME CheckpointInv, Offered, Fault
    PROVE  Offered'
<1> USE DEF passVars, linkVars, rcvVars, diskVars, history
<1>1. CASE AgentStops
  <2>1. UNCHANGED <<stage, dev, offer, rcv>>
    BY <1>1 DEF AgentStops
  <2>2. CASE ~conn.open
    BY <1>1, <2>1, <2>2, SameOffered DEF AgentStops
  <2>3. CASE conn.open
    <3>1. PICK last \in 0 .. NumBlocks, behind \in BOOLEAN :
              /\ wire' = [b \in Blocks |-> IF b <= last THEN wire[b] ELSE Blank]
              /\ conn' = [open |-> FALSE, reply |-> FALSE,
                          done |-> conn.done /\ behind /\ last = NumBlocks]
      BY <1>1, <2>3 DEF AgentStops
    <3>2. conn'.done => conn.done /\ last = NumBlocks
      BY <3>1
    <3>3. last = NumBlocks => \A b \in Blocks : wire'[b] = wire[b]
      BY <3>1 DEF Blocks
    <3>4. CASE rcv.pc = "apply"
      <4>1. \A b \in Blocks : wire[b] = Blank /\ wire'[b] = Blank
        BY <3>1, <3>4, Access DEF CheckpointInv, Pending
      <4>2. \A b \in Blocks : Eventual(b)' = Eventual(b)
        BY <2>1, <4>1 DEF Eventual
      <4>3. ~conn'.done
        BY <3>2, <3>4 DEF Offered
      <4>4. QED
        BY <2>1, <3>4, <4>2, <4>3 DEF Offered
    <3>5. CASE rcv.pc # "apply" /\ conn'.done
      <4>1. \A b \in Blocks : Eventual(b)' = Eventual(b)
        BY <2>1, <3>2, <3>3, <3>5 DEF Eventual
      <4>2. QED
        BY <2>1, <3>2, <3>5, <4>1 DEF Offered
    <3>6. CASE rcv.pc # "apply" /\ ~conn'.done
      BY <2>1, <3>6, NoneOffered
    <3>7. QED
      BY <3>4, <3>5, <3>6
  <2>4. QED
    BY <2>2, <2>3
<1>2. CASE RefuseHello
  BY <1>2, SameOffered DEF RefuseHello
<1>3. CASE SessionFails \/ ApplianceRestart \/ HostCrash
  <2>1. ~conn'.done /\ rcv'.pc = "accept"
    BY <1>3 DEF SessionFails, ApplianceRestart, HostCrash, SessionEnds, Listening, AgentLosesReceiver
  <2>2. QED
    BY <2>1, NoneOffered
<1>4. QED
  BY <1>1, <1>2, <1>3 DEF Fault

LEMMA OfferedAlways == Spec /\ []CheckpointInv => []Offered
<1>1. Init => Offered
  BY DEF Init, Offered, Listening
<1>2. CheckpointInv /\ Offered /\ [Next]_vars => Offered'
  <2> SUFFICES ASSUME CheckpointInv, Offered, [Next]_vars PROVE Offered'
    OBVIOUS
  <2>1. CASE AgentStep \/ ReceiverStep \/ Fault
    BY <2>1, OfferedAgent, OfferedReceiver, OfferedFault
  <2>2. CASE \/ \E b \in Blocks : SourceWrite(b) \/ Writeback(b)
             \/ RequestConsistency \/ ClearConsistency \/ UNCHANGED vars
    BY <2>2, SameOffered DEF SourceWrite, Writeback, RequestConsistency, ClearConsistency, vars,
       passVars, linkVars, rcvVars, diskVars, history
  <2>3. QED
    BY <2>1, <2>2 DEF Next
<1>3. QED
  BY <1>1, <1>2, PTL DEF Spec

(***************************************************************************)
(* Replication implements TargetImage.                                     *)
(***************************************************************************)

\* The image is what the device holds, or is about to hold; nothing else moves it.
LEMMA SameImage ==
    ASSUME UNCHANGED <<dev, offer, whole>>,
           \/ rcv.pc # "apply" /\ rcv'.pc # "apply"
           \/ UNCHANGED <<stage, rcv>>
    PROVE  UNCHANGED Target!vars
BY DEF Target!vars, Image, Overlay

\* With nothing staged, laying the staging file over the device changes nothing.
LEMMA NothingStaged == \A f \in Content : Overlay(f, Nothing) = f
BY Access DEF Overlay, Content

\* The pass whose Done is received has delivered what it offered.
LEMMA DoneInstalls ==
    ASSUME CheckpointInv, Offered, ReceiveDone
    PROVE  Target!Install /\ Image' = offer
<1>1. /\ conn.done /\ wire = Nothing /\ rcv'.pc = "apply" /\ whole' = TRUE
      /\ UNCHANGED <<stage, dev, offer>>
  BY DEF ReceiveDone, diskVars, CheckpointInv, TypeOK, Sessions
<1>2. \A b \in Blocks : (IF stage[b] # Blank THEN stage[b] ELSE dev[b]) = offer[b]
  BY <1>1, Access DEF Offered, Eventual
<1>3. offer \in Content
  BY DEF CheckpointInv, TypeOK
<1>4. Image' = Overlay(dev, stage)
  BY <1>1 DEF Image, Overlay
<1>5. Overlay(dev, stage) = offer
  BY <1>2, <1>3 DEF Overlay, Content
<1>6. QED
  BY <1>1, <1>4, <1>5 DEF Target!Install

LEMMA AgentImage ==
    ASSUME CheckpointInv, AgentStep
    PROVE  Target!Offer \/ UNCHANGED Target!vars
<1> USE DEF rcvVars, diskVars, history
<1>1. CASE Prepare \/ PrepareAgain \/ ProcessBlock \/ ReceiveDoneAck \/ SaveManifest
  <2>1. UNCHANGED <<dev, stage, rcv, offer, whole>>
    BY <1>1 DEF Prepare, PrepareAgain, ProcessBlock, ReceiveDoneAck, SaveManifest
  <2>2. QED
    BY <2>1, SameImage
<1>2. CASE SendDone
  <2>1. offer' = next /\ UNCHANGED <<dev, stage, rcv, whole>>
    BY <1>2 DEF SendDone
  <2>2. next \in [Blocks -> 0 .. MaxVersion]
    BY DEF CheckpointInv, TypeOK, Content
  <2>3. Image' = Image
    BY <2>1 DEF Image, Overlay
  <2>4. QED
    BY <2>1, <2>2, <2>3 DEF Target!Offer
<1>3. QED
  BY <1>1, <1>2 DEF AgentStep

LEMMA BlockImage ==
    ASSUME CheckpointInv, NEW c \in Blocks, ReceiveBlock(c)
    PROVE  Target!Overwrite(c) \/ UNCHANGED Target!vars
<1>1. rcv.pc = "stream" /\ rcv' = rcv /\ offer' = offer
  BY DEF ReceiveBlock
<1>2. CASE rcv.full
  <2>1. dev' = [dev EXCEPT ![c] = wire[c]] /\ whole' = FALSE
    BY <1>2 DEF ReceiveBlock
  <2>2. wire[c] \in 0 .. MaxVersion
    BY ContentTypes DEF CheckpointInv, TypeOK
  <2>3. Image = dev /\ Image' = dev'
    BY <1>1 DEF Image
  <2>4. QED
    BY <1>1, <2>1, <2>2, <2>3 DEF Target!Overwrite
<1>3. CASE ~rcv.full
  <2>1. UNCHANGED <<dev, whole>>
    BY <1>3 DEF ReceiveBlock
  <2>2. QED
    BY <1>1, <2>1, SameImage
<1>4. QED
  BY <1>2, <1>3

LEMMA ReceiverImage ==
    ASSUME CheckpointInv, Offered, ReceiverStep
    PROVE  Target!Next \/ UNCHANGED Target!vars
<1> USE DEF rcvVars, diskVars, history
<1>t. rcv \in Sessions
  BY DEF CheckpointInv, TypeOK
<1>1. CASE HandleHello
  <2>1. rcv.pc # "apply" /\ rcv'.pc # "apply" /\ UNCHANGED <<dev, offer, whole>>
    BY <1>1 DEF HandleHello
  <2>2. QED
    BY <2>1, SameImage
<1>2. CASE BounceHello
  BY <1>2, SameImage DEF BounceHello
<1>3. ASSUME NEW b \in Blocks, ReceiveBlock(b) PROVE Target!Next \/ UNCHANGED Target!vars
  BY <1>3, BlockImage DEF Target!Next
<1>4. ASSUME NEW b \in Blocks, ApplyRecord(b) PROVE Target!Next \/ UNCHANGED Target!vars
  <2>1. rcv.pc = "apply" /\ UNCHANGED <<rcv, offer, whole>>
    BY <1>4 DEF ApplyRecord
  <2>2. Overlay(dev, stage)' = Overlay(dev, stage)
    BY <1>4, ApplyKeepsImage DEF Overlay
  <2>3. QED
    BY <2>1, <2>2 DEF Target!vars, Image
<1>5. CASE ReceiveDone
  BY <1>5, DoneInstalls DEF Target!Next
<1>6. CASE SyncTarget
  <2>1. rcv.pc = "apply" /\ rcv'.pc = "ack" /\ stage = Nothing /\ UNCHANGED <<dev, offer, whole>>
    BY <1>t, <1>6 DEF SyncTarget, Sessions
  <2>2. Overlay(dev, stage) = dev
    BY <2>1, NothingStaged DEF CheckpointInv, TypeOK
  <2>3. QED
    BY <2>1, <2>2 DEF Target!vars, Image
<1>7. CASE SendDoneAck \/ RecordDiskSync \/ MarkDiskConsistent \/ AbortSession
  <2>1. rcv.pc # "apply" /\ rcv'.pc # "apply" /\ UNCHANGED <<dev, offer, whole>>
    BY <1>t, <1>7 DEF SendDoneAck, RecordDiskSync, MarkDiskConsistent, AbortSession, SessionEnds,
       BeginsMark, Listening, Sessions
  <2>2. QED
    BY <2>1, SameImage
<1>8. QED
  BY <1>1, <1>2, <1>3, <1>4, <1>5, <1>6, <1>7 DEF ReceiverStep

\* A session lost outside Apply, or with all of it applied, leaves the image it had; so
\* does a crash of the host that loses no write.
LEMMA FaultImage ==
    ASSUME CheckpointInv, Fault, ~Tears
    PROVE  UNCHANGED Target!vars
<1>1. CASE AgentStops \/ RefuseHello
  <2>1. UNCHANGED <<dev, stage, rcv, offer, whole>>
    BY <1>1 DEF AgentStops, RefuseHello, rcvVars, diskVars, history
  <2>2. QED
    BY <2>1, SameImage
<1>2. CASE SessionFails \/ ApplianceRestart \/ HostCrash
  <2>1. rcv.pc = "apply" => stage = Nothing
    BY <1>2 DEF Tears, Applying
  <2>2. rcv'.pc = "accept" /\ UNCHANGED <<dev, offer, whole>>
    <3>1. CASE SessionFails \/ ApplianceRestart
      BY <3>1 DEF SessionFails, ApplianceRestart, SessionEnds, Listening, diskVars, history
    <3>2. CASE HostCrash
      <4>1. vol = dev /\ whole \in BOOLEAN
        BY <3>2 DEF Tears, CheckpointInv, TypeOK
      <4>2. QED
        BY <3>2, <4>1 DEF HostCrash, SessionEnds, Listening
    <3>3. QED
      BY <1>2, <3>1, <3>2
  <2>3. Image = dev
    BY <2>1, NothingStaged DEF Image, CheckpointInv, TypeOK
  <2>4. QED
    BY <2>2, <2>3 DEF Target!vars, Image
<1>3. QED
  BY <1>1, <1>2 DEF Fault

LEMMA Implements == Spec /\ []CheckpointInv /\ [][~Tears]_vars => KeepsTargetContract
<1>1. Init => Target!Init
  BY DEF Init, Target!Init, Image, Listening
<1>2. CheckpointInv /\ Offered /\ [Next]_vars /\ [~Tears]_vars => [Target!Next]_(Target!vars)
  <2> SUFFICES ASSUME CheckpointInv, Offered, [Next]_vars, [~Tears]_vars
               PROVE  Target!Next \/ UNCHANGED Target!vars
    OBVIOUS
  <2>1. CASE AgentStep
    BY <2>1, AgentImage DEF Target!Next
  <2>2. CASE ReceiverStep
    BY <2>2, ReceiverImage
  <2>3. CASE Fault /\ ~Tears
    BY <2>3, FaultImage
  <2>4. CASE \/ \E b \in Blocks : SourceWrite(b) \/ Writeback(b)
             \/ RequestConsistency \/ ClearConsistency \/ UNCHANGED vars
    <3>1. UNCHANGED <<dev, stage, rcv, offer, whole>>
      BY <2>4 DEF SourceWrite, Writeback, RequestConsistency, ClearConsistency, vars,
         rcvVars, diskVars, history
    <3>2. QED
      BY <3>1, SameImage
  <2>5. QED
    BY <2>1, <2>2, <2>3, <2>4 DEF Next
<1>3. QED
  BY <1>1, <1>2, OfferedAlways, PTL DEF Spec, Target!Spec, KeepsTargetContract

\* When contents do not recur, the target only ever takes a whole image the source
\* offered, or is overwritten by a baseline: the detailed protocol implements the
\* target's contract in every behaviour no step of which tears a pass, with all the
\* other failures of agent, session, appliance and host.
THEOREM ImplementsTarget ==
    ASSUME ~Recurring
    PROVE  Spec /\ [][~Tears]_vars => KeepsTargetContract
BY CheckpointAlways, Implements, PTL

\* So it does whatever the source writes, as long as no pass is forgotten either.
THEOREM ImplementsTargetUnlessForgotten ==
    Spec /\ [][~Forgets]_vars /\ [][~Tears]_vars => KeepsTargetContract
BY SettledAlways, Implements, PTL

(***************************************************************************)
(* One instant.  A point-in-time pass reads one image and offers it; while *)
(* a disk is marked, every session is of such a pass.                      *)
(***************************************************************************)

\* What a point-in-time pass reads, and has read, is one instant of the source.
ReadsInstant ==
    /\ src \in instants
    /\ agent.consistent =>
          img \in instants /\ \A b \in Blocks : b < cur => next[b] = img[b]

\* A session knows whether its pass is one, and then carries it to the device.
CarriesInstant ==
    /\ agent.pc = "stream" => rcv.consistent = agent.consistent
    /\ rcv.consistent /\ (conn.done \/ rcv.pc = "apply") => offer \in instants
    /\ rcv.consistent /\ rcv.pc \in {"ack", "record", "mark"} => dev \in instants

\* No session is of a live pass on a disk that is asked for and marked, and only one of a
\* point-in-time pass goes on to mark its disk.
HoldsRequest ==
    /\ app.want /\ app.marked /\ rcv.pc # "accept" => rcv.consistent
    /\ rcv.pc = "mark" => rcv.consistent

InstantInv == ReadsInstant /\ CarriesInstant /\ HoldsRequest /\ FrozenAtOneInstant

\* A pass over, or the receiver lost, leaves nothing half read.
LEMMA ReadsNothing ==
    ASSUME ReadsInstant, src' = src, instants' = instants, PassEnds \/ UNCHANGED passVars
    PROVE  ReadsInstant'
BY DEF ReadsInstant, PassEnds, Resting, passVars

LEMMA ReadsKept ==
    ASSUME CheckpointInv, ReadsInstant, [Next]_vars
    PROVE  ReadsInstant'
<1>t. agent \in Passes /\ next \in Content /\ img \in Content
  BY DEF CheckpointInv, TypeOK
<1>1. CASE Prepare
  <2>1. agent'.consistent = FALSE /\ src' = src /\ instants' = instants
    BY <1>1 DEF Prepare, history
  <2>2. QED
    BY <2>1 DEF ReadsInstant
<1>2. CASE PrepareAgain
  <2>1. cur = 1 /\ cur' = cur /\ src' = src /\ instants' = instants
    BY <1>2 DEF PrepareAgain, CheckpointInv, InStep, history
  <2>2. agent'.consistent = HasSnapshot /\ img' = IF HasSnapshot THEN src ELSE img
    BY <1>t, <1>2 DEF PrepareAgain, Passes
  <2>3. \A b \in Blocks : ~(b < cur')
    BY <2>1 DEF Blocks
  <2>4. agent'.consistent => img' \in instants'
    BY <2>1, <2>2 DEF ReadsInstant
  <2>5. QED
    BY <2>1, <2>3, <2>4 DEF ReadsInstant
<1>3. CASE ProcessBlock
  <2>1. /\ cur \in Blocks /\ cur' = cur + 1 /\ next' = [next EXCEPT ![cur] = ReadSource[cur]]
        /\ UNCHANGED <<src, agent, img, instants>>
    BY <1>3 DEF ProcessBlock, history
  <2>2. ASSUME agent.consistent, NEW b \in Blocks, b < cur' PROVE next'[b] = img'[b]
    <3>1. next'[b] = IF b = cur THEN img[cur] ELSE next[b]
      BY <1>t, <2>1, <2>2 DEF ReadSource, Content
    <3>2. b = cur \/ b < cur
      BY <2>1, <2>2 DEF Blocks
    <3>3. QED
      BY <2>1, <2>2, <3>1, <3>2 DEF ReadsInstant
  <2>3. QED
    BY <2>1, <2>2 DEF ReadsInstant
<1>4. CASE SendDone \/ ReceiveDoneAck \/ HandleHello
  <2>1. agent'.consistent = agent.consistent /\ UNCHANGED <<src, instants, cur, next, img>>
    BY <1>t, <1>4 DEF SendDone, ReceiveDoneAck, HandleHello, Passes, history
  <2>2. QED
    BY <2>1 DEF ReadsInstant
<1>5. CASE BounceHello
  <2>1. src' = src /\ instants' = instants
    BY <1>5 DEF BounceHello, history
  <2>2. CASE agent.mayBail
    <3>1. agent'.consistent = agent.consistent /\ UNCHANGED <<cur, next, img>>
      BY <1>t, <1>5, <2>2 DEF BounceHello, Passes
    <3>2. QED
      BY <2>1, <3>1 DEF ReadsInstant
  <2>3. CASE ~agent.mayBail
    BY <1>5, <2>1, <2>3, ReadsNothing DEF BounceHello
  <2>4. QED
    BY <2>2, <2>3
<1>6. CASE SaveManifest \/ AgentStops \/ RefuseHello \/ SessionFails \/ ApplianceRestart \/ HostCrash
  <2>1. src' = src /\ instants' = instants /\ (PassEnds \/ UNCHANGED passVars)
    BY <1>6 DEF SaveManifest, AgentStops, RefuseHello, SessionFails, ApplianceRestart, HostCrash,
       AgentLosesReceiver, history
  <2>2. QED
    BY <2>1, ReadsNothing
<1>7. ASSUME NEW b \in Blocks, SourceWrite(b) PROVE ReadsInstant'
  <2>1. instants' = instants \cup {src'} /\ UNCHANGED passVars
    BY <1>7 DEF SourceWrite
  <2>2. QED
    BY <2>1 DEF ReadsInstant, passVars
<1>8. CASE \/ \E b \in Blocks : ReceiveBlock(b) \/ ApplyRecord(b) \/ Writeback(b)
           \/ ReceiveDone \/ SyncTarget \/ SendDoneAck \/ RecordDiskSync \/ MarkDiskConsistent
           \/ AbortSession \/ RequestConsistency \/ ClearConsistency \/ UNCHANGED vars
  <2>1. src' = src /\ instants' = instants /\ UNCHANGED passVars
    BY <1>8 DEF ReceiveBlock, ApplyRecord, Writeback, ReceiveDone, SyncTarget, SendDoneAck,
       RecordDiskSync, MarkDiskConsistent, AbortSession, RequestConsistency, ClearConsistency, vars,
       history
  <2>2. QED
    BY <2>1, ReadsNothing
<1>9. QED
  BY <1>1, <1>2, <1>3, <1>4, <1>5, <1>6, <1>7, <1>8 DEF Next, AgentStep, ReceiverStep, Fault

\* With no session there is nothing to carry.
LEMMA NoSession ==
    ASSUME ~conn'.done, rcv'.pc = "accept", agent'.pc # "stream"
    PROVE  CarriesInstant'
BY DEF CarriesInstant

\* An agent that is not streaming changes nothing a session carries.
LEMMA StillCarries ==
    ASSUME CarriesInstant, UNCHANGED <<rcv, dev, offer>>, conn'.done => conn.done,
           instants \subseteq instants',
           agent'.pc = "stream" => agent.pc = "stream" /\ agent'.consistent = agent.consistent
    PROVE  CarriesInstant'
BY DEF CarriesInstant

LEMMA CarriesAgent ==
    ASSUME CheckpointInv, ReadsInstant, CarriesInstant, AgentStep
    PROVE  CarriesInstant'
<1> USE DEF passVars, linkVars, rcvVars, diskVars, history
<1>t. agent \in Passes /\ conn \in Links /\ next \in Content /\ img \in Content
  BY DEF CheckpointInv, TypeOK
<1>1. CASE Prepare \/ PrepareAgain \/ SaveManifest \/ ReceiveDoneAck
  <2>1. UNCHANGED <<rcv, dev, offer, instants>>
    BY <1>1 DEF Prepare, PrepareAgain, SaveManifest, ReceiveDoneAck
  <2>2. CASE ReceiveDoneAck
    <3>1. conn'.done = conn.done /\ agent'.pc = "commit"
      BY <1>t, <2>2 DEF ReceiveDoneAck, Passes, Links
    <3>2. QED
      BY <2>1, <3>1, StillCarries
  <2>3. CASE Prepare \/ SaveManifest
    <3>1. conn' = conn /\ agent'.pc \in {"hello", "idle"}
      BY <2>3 DEF Prepare, SaveManifest, PassEnds, Resting
    <3>2. QED
      BY <2>1, <3>1, StillCarries
  <2>4. CASE PrepareAgain
    <3>1. conn' = conn /\ agent'.pc = "hello"
      BY <1>t, <2>4 DEF PrepareAgain, Passes
    <3>2. QED
      BY <2>1, <3>1, StillCarries
  <2>5. QED
    BY <1>1, <2>2, <2>3, <2>4
<1>2. CASE ProcessBlock
  BY <1>2, StillCarries DEF ProcessBlock
<1>3. CASE SendDone
  <2>1. /\ agent.pc = "stream" /\ cur = NumBlocks + 1 /\ agent'.pc = "wait" /\ offer' = next
        /\ UNCHANGED <<rcv, dev, instants>>
    BY <1>t, <1>3 DEF SendDone, Passes
  <2>2. rcv.pc = "stream" /\ rcv.consistent = agent.consistent
    BY <2>1 DEF CheckpointInv, InStep, CarriesInstant
  <2>3. \A b \in Blocks : b < cur
    BY <2>1, SizeAssumption DEF Blocks
  <2>4. agent.consistent => next = img /\ img \in instants
    BY <1>t, <2>3 DEF ReadsInstant, Content
  <2>5. QED
    BY <2>1, <2>2, <2>4 DEF CarriesInstant
<1>4. QED
  BY <1>1, <1>2, <1>3 DEF AgentStep

LEMMA CarriesReceiver ==
    ASSUME CheckpointInv, Offered, CarriesInstant, ReceiverStep
    PROVE  CarriesInstant'
<1> USE DEF passVars, linkVars, rcvVars, diskVars, history
<1>t. agent \in Passes /\ conn \in Links /\ rcv \in Sessions
  BY DEF CheckpointInv, TypeOK
<1>1. CASE HandleHello
  <2>1. ~conn'.done /\ rcv'.pc = "stream" /\ rcv'.consistent = agent'.consistent
    BY <1>t, <1>1 DEF HandleHello, Passes
  <2>2. QED
    BY <2>1 DEF CarriesInstant
<1>2. CASE BounceHello
  <2>1. UNCHANGED <<rcv, dev, offer, conn, instants>> /\ agent'.pc # "stream"
    BY <1>t, <1>2 DEF BounceHello, PassEnds, Resting, Passes
  <2>2. QED
    BY <2>1, StillCarries
<1>3. ASSUME NEW b \in Blocks, ReceiveBlock(b) PROVE CarriesInstant'
  <2>1. rcv.pc = "stream" /\ UNCHANGED <<rcv, offer, conn, agent, instants>>
    BY <1>3 DEF ReceiveBlock
  <2>2. QED
    BY <2>1 DEF CarriesInstant
<1>4. ASSUME NEW b \in Blocks, ApplyRecord(b) PROVE CarriesInstant'
  <2>1. rcv.pc = "apply" /\ UNCHANGED <<rcv, offer, conn, agent, instants>>
    BY <1>4 DEF ApplyRecord
  <2>2. QED
    BY <2>1 DEF CarriesInstant
<1>5. CASE ReceiveDone
  <2>1. /\ rcv.pc = "stream" /\ conn.done /\ ~conn'.done
        /\ rcv'.pc = "apply" /\ rcv'.consistent = rcv.consistent
        /\ UNCHANGED <<offer, agent, instants>>
    BY <1>t, <1>5 DEF ReceiveDone, Links, Sessions
  <2>2. QED
    BY <2>1 DEF CarriesInstant
<1>6. CASE SyncTarget
  <2>1. /\ rcv.pc = "apply" /\ stage = Nothing /\ rcv'.pc = "ack"
        /\ rcv'.consistent = rcv.consistent /\ UNCHANGED <<dev, offer, conn, agent, instants>>
    BY <1>t, <1>6 DEF SyncTarget, Sessions
  <2>2. \A b \in Blocks : dev[b] = offer[b]
    BY <2>1, Access DEF Offered, Eventual, CheckpointInv, Pending
  <2>3. dev = offer
    BY <2>2 DEF CheckpointInv, TypeOK, Content
  <2>4. ~conn'.done /\ agent'.pc # "stream"
    BY <2>1 DEF Offered, CheckpointInv, InStep
  <2>5. QED
    BY <2>1, <2>3, <2>4 DEF CarriesInstant
<1>7. CASE SendDoneAck
  <2>1. /\ rcv.pc = "ack" /\ ~conn'.done /\ agent' = agent /\ agent.pc # "stream"
        /\ UNCHANGED <<dev, instants>>
    BY <1>t, <1>7 DEF SendDoneAck, Links, Offered, CheckpointInv, InStep
  <2>2. CASE rcv'.pc = "record" /\ rcv'.consistent = rcv.consistent
    BY <2>1, <2>2 DEF CarriesInstant
  <2>3. CASE rcv' = Listening
    BY <2>1, <2>3, NoSession DEF Listening
  <2>4. QED
    BY <1>t, <1>7, <2>2, <2>3 DEF SendDoneAck, SessionEnds, Sessions
<1>8. CASE RecordDiskSync \/ MarkDiskConsistent \/ AbortSession
  <2>1. ~conn'.done /\ agent' = agent /\ UNCHANGED <<dev, instants>>
    BY <1>8 DEF RecordDiskSync, MarkDiskConsistent, AbortSession, Offered
  <2>2. agent.pc # "stream"
    BY <1>8 DEF RecordDiskSync, MarkDiskConsistent, AbortSession, CheckpointInv, InStep
  <2>3. CASE SessionEnds
    BY <2>1, <2>2, <2>3, NoSession DEF SessionEnds, Listening
  <2>4. CASE RecordDiskSync /\ BeginsMark
    <3>1. rcv.pc = "record" /\ rcv'.pc = "mark" /\ rcv'.consistent = rcv.consistent
      BY <1>t, <2>4 DEF RecordDiskSync, BeginsMark, Sessions
    <3>2. QED
      BY <2>1, <2>2, <3>1 DEF CarriesInstant
  <2>5. QED
    BY <1>8, <2>3, <2>4 DEF RecordDiskSync, MarkDiskConsistent, AbortSession
<1>9. QED
  BY <1>1, <1>2, <1>3, <1>4, <1>5, <1>6, <1>7, <1>8 DEF ReceiverStep

LEMMA CarriesFault ==
    ASSUME CheckpointInv, CarriesInstant, Fault
    PROVE  CarriesInstant'
<1> USE DEF passVars, linkVars, rcvVars, diskVars, history
<1>1. CASE AgentStops
  <2>1. UNCHANGED <<rcv, dev, offer, instants>> /\ agent' = Resting
    BY <1>1 DEF AgentStops, PassEnds
  <2>2. conn'.done => conn.done
    <3>1. CASE conn.open
      <4>1. PICK last \in 0 .. NumBlocks, behind \in BOOLEAN :
                conn' = [open |-> FALSE, reply |-> FALSE,
                         done |-> conn.done /\ behind /\ last = NumBlocks]
        BY <1>1, <3>1 DEF AgentStops
      <4>2. QED
        BY <4>1
    <3>2. CASE ~conn.open
      BY <1>1, <3>2 DEF AgentStops
    <3>3. QED
      BY <3>1, <3>2
  <2>3. QED
    BY <2>1, <2>2, StillCarries DEF Resting
<1>2. CASE RefuseHello
  <2>1. UNCHANGED <<rcv, dev, offer, conn, instants>> /\ agent' = Resting
    BY <1>2 DEF RefuseHello, PassEnds
  <2>2. QED
    BY <2>1, StillCarries DEF Resting
<1>3. CASE SessionFails \/ ApplianceRestart \/ HostCrash
  <2>1. SessionEnds /\ AgentLosesReceiver
    BY <1>3 DEF SessionFails, ApplianceRestart, HostCrash
  <2>2. ~conn'.done /\ rcv'.pc = "accept"
    BY <2>1 DEF SessionEnds, AgentLosesReceiver, Listening
  <2>3. agent'.pc # "stream"
    BY <2>1 DEF AgentLosesReceiver, PassEnds, Resting, CheckpointInv, InStep
  <2>4. QED
    BY <2>2, <2>3, NoSession
<1>4. QED
  BY <1>1, <1>2, <1>3 DEF Fault

LEMMA HoldsKept ==
    ASSUME CheckpointInv, HoldsRequest, [Next]_vars
    PROVE  HoldsRequest'
<1>t. rcv \in Sessions /\ app \in Outcomes
  BY DEF CheckpointInv, TypeOK
<1>1. CASE RequestConsistency \/ ClearConsistency
  <2>1. app'.marked = FALSE
    <3>1. CASE RequestConsistency
      BY <1>t, <3>1 DEF RequestConsistency, Outcomes
    <3>2. CASE ClearConsistency
      BY <1>t, <3>2 DEF ClearConsistency, Outcomes
    <3>3. QED
      BY <1>1, <3>1, <3>2
  <2>2. rcv' = rcv
    BY <1>1 DEF RequestConsistency, ClearConsistency, rcvVars
  <2>3. QED
    BY <2>1, <2>2 DEF HoldsRequest
<1>2. CASE RecordDiskSync
  <2>1. /\ rcv.pc = "record" /\ app'.want = app.want /\ app'.marked = app.marked
        /\ \/ rcv'.pc = "accept"
           \/ rcv.consistent /\ rcv'.pc = "mark" /\ rcv'.consistent = rcv.consistent
    BY <1>t, <1>2 DEF RecordDiskSync, SessionEnds, BeginsMark, Listening, Sessions, Outcomes
  <2>2. QED
    BY <2>1 DEF HoldsRequest
<1>3. CASE HandleHello
  <2>1. /\ app' = app /\ ~RequestConsistent
        /\ rcv'.pc = "stream" /\ rcv'.consistent = agent.consistent
    BY <1>3 DEF HandleHello
  <2>2. QED
    BY <2>1 DEF HoldsRequest, RequestConsistent
<1>4. CASE ReceiveDone \/ SyncTarget
  <2>1. app' = app /\ rcv.pc # "accept" /\ rcv'.consistent = rcv.consistent /\ rcv'.pc # "mark"
    BY <1>t, <1>4 DEF ReceiveDone, SyncTarget, Sessions
  <2>2. QED
    BY <2>1 DEF HoldsRequest
<1>5. CASE SendDoneAck
  <2>1. /\ app' = app /\ rcv.pc # "accept" /\ rcv'.pc # "mark"
        /\ rcv'.consistent = rcv.consistent \/ rcv'.pc = "accept"
    BY <1>t, <1>5 DEF SendDoneAck, SessionEnds, Listening, Sessions
  <2>2. QED
    BY <2>1 DEF HoldsRequest
<1>6. CASE MarkDiskConsistent \/ AbortSession
  BY <1>6 DEF MarkDiskConsistent, AbortSession, SessionEnds, Listening, HoldsRequest
<1>7. CASE SessionFails \/ ApplianceRestart \/ HostCrash
  <2>1. rcv'.pc = "accept"
    BY <1>7 DEF SessionFails, ApplianceRestart, HostCrash, SessionEnds, Listening
  <2>2. QED
    BY <2>1 DEF HoldsRequest
<1>8. CASE AgentStep \/ AgentStops \/ RefuseHello \/ BounceHello \/ UNCHANGED vars
           \/ \E b \in Blocks : SourceWrite(b) \/ Writeback(b) \/ ReceiveBlock(b) \/ ApplyRecord(b)
  <2>1. app' = app /\ rcv' = rcv
    BY <1>8 DEF AgentStep, Prepare, PrepareAgain, ProcessBlock, SendDone, ReceiveDoneAck, SaveManifest,
       AgentStops, RefuseHello, BounceHello, SourceWrite, Writeback, ReceiveBlock, ApplyRecord,
       vars, rcvVars
  <2>2. QED
    BY <2>1 DEF HoldsRequest
<1>9. QED
  BY <1>1, <1>2, <1>3, <1>4, <1>5, <1>6, <1>7, <1>8 DEF Next, ReceiverStep, Fault

\* The image and the mark stay, or the mark goes.
LEMMA StillFrozen ==
    ASSUME FrozenAtOneInstant, UNCHANGED Target!vars,
           app'.want /\ app'.marked => app.want /\ app.marked,
           instants \subseteq instants'
    PROVE  FrozenAtOneInstant'
BY DEF FrozenAtOneInstant, Target!vars

LEMMA FrozenReceiver ==
    ASSUME CheckpointInv, Offered, InstantInv, ReceiverStep
    PROVE  FrozenAtOneInstant'
<1> USE DEF diskVars, history
<1>t. rcv \in Sessions /\ app \in Outcomes
  BY DEF CheckpointInv, TypeOK
<1>1. CASE RecordDiskSync
  <2>1. /\ rcv.pc = "record" /\ rcv'.pc # "apply" /\ app'.want = app.want /\ app'.marked = app.marked
        /\ UNCHANGED <<dev, whole, instants>>
    BY <1>t, <1>1 DEF RecordDiskSync, SessionEnds, BeginsMark, Listening, Sessions, Outcomes
  <2>2. Image = dev /\ Image' = dev
    BY <2>1 DEF Image
  <2>3. QED
    BY <2>1, <2>2 DEF InstantInv, FrozenAtOneInstant
<1>6. CASE MarkDiskConsistent
  <2>1. rcv.pc = "mark" /\ rcv'.pc = "accept" /\ UNCHANGED <<dev, whole, instants>>
    BY <1>6 DEF MarkDiskConsistent, SessionEnds, Listening
  <2>2. dev \in instants
    BY <2>1 DEF InstantInv, HoldsRequest, CarriesInstant
  <2>3. Image' = dev
    BY <2>1 DEF Image
  <2>4. QED
    BY <2>1, <2>2, <2>3 DEF FrozenAtOneInstant
<1>2. CASE ReceiveDone
  <2>1. rcv.pc = "stream" /\ conn.done /\ UNCHANGED <<app, instants>>
    BY <1>2 DEF ReceiveDone
  <2>2. app.want /\ app.marked => offer \in instants
    BY <2>1 DEF InstantInv, HoldsRequest, CarriesInstant
  <2>3. Image' = offer
    BY <1>2, DoneInstalls
  <2>4. QED
    BY <2>1, <2>2, <2>3 DEF FrozenAtOneInstant
<1>3. ASSUME NEW b \in Blocks, ReceiveBlock(b) PROVE FrozenAtOneInstant'
  <2>1. app' = app /\ instants' = instants
    BY <1>3 DEF ReceiveBlock
  <2>2. CASE rcv.full
    BY <1>3, <2>2 DEF ReceiveBlock, FrozenAtOneInstant
  <2>3. CASE ~rcv.full
    <3>1. rcv.pc = "stream" /\ UNCHANGED <<rcv, dev, offer, whole>>
      BY <1>3, <2>3 DEF ReceiveBlock
    <3>2. QED
      BY <2>1, <3>1, SameImage, StillFrozen DEF InstantInv
  <2>4. QED
    BY <2>2, <2>3
<1>4. CASE \/ HandleHello \/ BounceHello \/ SyncTarget \/ SendDoneAck \/ AbortSession
           \/ \E b \in Blocks : ApplyRecord(b)
  <2>1. app' = app /\ instants' = instants /\ UNCHANGED <<whole, offer>>
    BY <1>4 DEF HandleHello, BounceHello, SyncTarget, SendDoneAck, AbortSession, ApplyRecord
  <2>2. Image' = Image
    <3>1. CASE HandleHello \/ BounceHello \/ SendDoneAck \/ AbortSession
      <4>1. dev' = dev /\ (UNCHANGED <<rcv, stage>> \/ (rcv.pc # "apply" /\ rcv'.pc # "apply"))
        BY <1>t, <3>1 DEF HandleHello, BounceHello, SendDoneAck, AbortSession, SessionEnds, Listening,
           rcvVars, Sessions
      <4>2. QED
        BY <4>1 DEF Image, Overlay
    <3>2. CASE SyncTarget
      <4>1. rcv.pc = "apply" /\ rcv'.pc = "ack" /\ stage = Nothing /\ dev' = dev
        BY <1>t, <3>2 DEF SyncTarget, Sessions
      <4>2. Overlay(dev, stage) = dev
        BY <4>1, NothingStaged DEF CheckpointInv, TypeOK
      <4>3. QED
        BY <4>1, <4>2 DEF Image
    <3>3. ASSUME NEW b \in Blocks, ApplyRecord(b) PROVE Image' = Image
      <4>1. rcv.pc = "apply" /\ rcv' = rcv
        BY <3>3 DEF ApplyRecord
      <4>2. Overlay(dev, stage)' = Overlay(dev, stage)
        BY <3>3, ApplyKeepsImage DEF Overlay
      <4>3. QED
        BY <4>1, <4>2 DEF Image
    <3>4. QED
      BY <1>4, <3>1, <3>2, <3>3
  <2>3. QED
    BY <2>1, <2>2, StillFrozen DEF InstantInv, Target!vars
<1>5. QED
  BY <1>1, <1>2, <1>3, <1>4, <1>6 DEF ReceiverStep

LEMMA FrozenKept ==
    ASSUME CheckpointInv, Offered, InstantInv, [Next]_vars, [~(Applying /\ SessionFails)]_vars
    PROVE  FrozenAtOneInstant'
<1> USE DEF rcvVars, diskVars, history
<1>1. CASE ReceiverStep
  BY <1>1, FrozenReceiver
<1>2. CASE AgentStep
  <2>1. UNCHANGED <<app, dev, stage, rcv, whole, instants>>
    BY <1>2 DEF AgentStep, Prepare, PrepareAgain, ProcessBlock, SendDone, ReceiveDoneAck, SaveManifest
  <2>2. Image' = Image
    BY <2>1 DEF Image, Overlay
  <2>3. QED
    BY <2>1, <2>2 DEF InstantInv, FrozenAtOneInstant
<1>3. CASE Fault
  <2>1. CASE AgentStops \/ RefuseHello
    <3>1. UNCHANGED <<app, dev, stage, rcv, offer, whole, instants>>
      BY <2>1 DEF AgentStops, RefuseHello
    <3>2. QED
      BY <3>1, SameImage, StillFrozen DEF InstantInv
  <2>2. CASE SessionFails
    <3>1. rcv'.pc = "accept" /\ UNCHANGED <<app, dev, offer, whole, instants>>
      BY <2>2 DEF SessionFails, SessionEnds, Listening
    <3>2. CASE Applying
      <4>1. UNCHANGED vars
        BY <2>2, <3>2
      <4>2. QED
        BY <4>1, SameImage, StillFrozen DEF InstantInv, vars
    <3>3. CASE ~Applying
      <4>1. Image = dev
        BY <3>3, NothingStaged DEF Applying, Image, CheckpointInv, TypeOK
      <4>2. Image' = dev
        BY <3>1 DEF Image
      <4>3. QED
        BY <3>1, <4>1, <4>2 DEF InstantInv, FrozenAtOneInstant
    <3>4. QED
      BY <3>2, <3>3
  \* The mark is in memory.
  <2>3. CASE ApplianceRestart \/ HostCrash
    <3>1. ~app'.marked
      BY <2>3 DEF ApplianceRestart, HostCrash, CheckpointInv, TypeOK, Outcomes
    <3>2. QED
      BY <3>1 DEF FrozenAtOneInstant
  <2>4. QED
    BY <1>3, <2>1, <2>2, <2>3 DEF Fault
<1>4. CASE \/ \E b \in Blocks : SourceWrite(b) \/ Writeback(b)
           \/ RequestConsistency \/ ClearConsistency \/ UNCHANGED vars
  <2>1. UNCHANGED <<dev, stage, rcv, offer, whole>> /\ instants \subseteq instants'
    BY <1>4 DEF SourceWrite, Writeback, RequestConsistency, ClearConsistency, vars
  <2>2. app'.want /\ app'.marked => app.want /\ app.marked
    <3>1. CASE RequestConsistency \/ ClearConsistency
      BY <3>1 DEF RequestConsistency, ClearConsistency, CheckpointInv, TypeOK, Outcomes
    <3>2. CASE UNCHANGED vars \/ \E b \in Blocks : SourceWrite(b) \/ Writeback(b)
      BY <3>2 DEF SourceWrite, Writeback, vars
    <3>3. QED
      BY <1>4, <3>1, <3>2
  <2>3. QED
    BY <2>1, <2>2, SameImage, StillFrozen DEF InstantInv
<1>5. QED
  BY <1>1, <1>2, <1>3, <1>4 DEF Next

LEMMA CarriesKept ==
    ASSUME CheckpointInv, Offered, ReadsInstant, CarriesInstant, [Next]_vars
    PROVE  CarriesInstant'
<1>1. CASE AgentStep \/ ReceiverStep \/ Fault
  BY <1>1, CarriesAgent, CarriesReceiver, CarriesFault
<1>2. CASE \/ \E b \in Blocks : SourceWrite(b) \/ Writeback(b)
           \/ RequestConsistency \/ ClearConsistency \/ UNCHANGED vars
  <2>1. UNCHANGED <<rcv, dev, offer, conn, agent>> /\ instants \subseteq instants'
    BY <1>2 DEF SourceWrite, Writeback, RequestConsistency, ClearConsistency, vars,
       passVars, linkVars, rcvVars, diskVars, history
  <2>2. QED
    BY <2>1, StillCarries
<1>3. QED
  BY <1>1, <1>2 DEF Next

LEMMA InstantAlways ==
    Spec /\ []CheckpointInv /\ [][~(Applying /\ SessionFails)]_vars => []InstantInv
<1>1. Init => InstantInv
  BY DEF Init, InstantInv, ReadsInstant, CarriesInstant, HoldsRequest, FrozenAtOneInstant, Resting,
     Listening
<1>2. /\ CheckpointInv /\ Offered /\ InstantInv
      /\ [Next]_vars /\ [~(Applying /\ SessionFails)]_vars
      => InstantInv'
  BY ReadsKept, CarriesKept, HoldsKept, FrozenKept DEF InstantInv
<1>3. QED
  BY <1>1, <1>2, OfferedAlways, PTL DEF Spec

LEMMA FrozenAlways ==
    Spec /\ []CheckpointInv /\ [][~(Applying /\ SessionFails)]_vars => []FrozenAtOneInstant
<1>1. InstantInv => FrozenAtOneInstant
  BY DEF InstantInv
<1>2. QED
  BY <1>1, InstantAlways, PTL

\* When contents do not recur, a disk a cutover asks for and that is marked consistent
\* stays at one instant of its source until the request is dropped, whatever passes the agent tries
\* or abandons meanwhile and whatever fails: unless a session fails inside Apply.
THEOREM FrozenSafe ==
    ASSUME ~Recurring
    PROVE  Spec /\ [][~(Applying /\ SessionFails)]_vars => []FrozenAtOneInstant
BY CheckpointAlways, FrozenAlways, PTL

\* So it does whatever the source writes, as long as no pass is forgotten either.
THEOREM FrozenSafeUnlessForgotten ==
    Spec /\ [][~Forgets]_vars /\ [][~(Applying /\ SessionFails)]_vars => []FrozenAtOneInstant
BY SettledAlways, FrozenAlways, PTL

---------------------------------------------------------------------------
(***************************************************************************)
(* The disk keeps the promise Quiesce relies on, ConsistentPass: what is   *)
(* left to show is that only what lands of one instant is marked.          *)
(***************************************************************************)

\* A step maps to one of ConsistentPass, or to none.
LEMMA KeepsRequestStep ==
    ASSUME TypeOK, InstantInv, FrozenAtOneInstant', [Next]_vars
    PROVE  [Request!Next]_(Request!vars)
<1> USE DEF Request!Next, Request!vars
<1>t. app \in Outcomes
  BY DEF TypeOK
<1>1. CASE RequestConsistency
  <2>1. app'.want = TRUE /\ app'.marked = FALSE /\ UNCHANGED <<dev, stage, rcv, whole, instants>>
    BY <1>t, <1>1 DEF RequestConsistency, Outcomes, rcvVars, diskVars, history
  <2>2. Image' = Image
    BY <2>1 DEF Image, Overlay
  <2>3. QED
    BY <2>1, <2>2 DEF Request!Ask
<1>2. CASE ClearConsistency \/ ApplianceRestart \/ HostCrash
  <2>1. app'.want = FALSE /\ app'.marked = FALSE
    BY <1>t, <1>2 DEF ClearConsistency, ApplianceRestart, HostCrash, Outcomes
  <2>2. QED
    BY <2>1 DEF Request!Drop
<1>3. CASE RecordDiskSync
  <2>1. app'.want = app.want /\ app'.marked = app.marked
    BY <1>t, <1>3 DEF RecordDiskSync, Outcomes
  <2>2. QED
    BY <2>1 DEF FrozenAtOneInstant, Request!Take
<1>6. CASE MarkDiskConsistent
  <2>1. /\ rcv.pc = "mark" /\ rcv'.pc = "accept" /\ UNCHANGED <<dev, whole, instants>>
        /\ app'.want = app.want /\ app'.marked = TRUE
    <3>1. app'.want = app.want /\ app'.marked = TRUE
      BY <1>t, <1>6 DEF MarkDiskConsistent, Outcomes
    <3>2. rcv.pc = "mark" /\ rcv'.pc = "accept"
      BY <1>6 DEF MarkDiskConsistent, SessionEnds, Listening
    <3>3. UNCHANGED <<dev, whole, instants>>
      BY <1>6 DEF MarkDiskConsistent, diskVars, history
    <3>4. QED
      BY <3>1, <3>2, <3>3
  <2>2. Image = dev /\ Image' = dev /\ dev \in instants
    BY <2>1 DEF Image, InstantInv, HoldsRequest, CarriesInstant
  <2>3. QED
    BY <2>1, <2>2 DEF Request!Mark
<1>4. CASE AgentStep \/ (ReceiverStep /\ ~RecordDiskSync /\ ~MarkDiskConsistent)
           \/ AgentStops \/ RefuseHello \/ SessionFails
           \/ (\E b \in Blocks : SourceWrite(b) \/ Writeback(b)) \/ UNCHANGED vars
  <2>1. app' = app
    <3>1. CASE AgentStep
      BY <3>1 DEF AgentStep, Prepare, PrepareAgain, ProcessBlock, SendDone, ReceiveDoneAck, SaveManifest
    <3>2. CASE ReceiverStep /\ ~RecordDiskSync /\ ~MarkDiskConsistent
      BY <3>2 DEF ReceiverStep, HandleHello, BounceHello, ReceiveBlock, ApplyRecord, ReceiveDone,
         SyncTarget, SendDoneAck, AbortSession
    <3>3. CASE AgentStops \/ RefuseHello \/ SessionFails
      BY <3>3 DEF AgentStops, RefuseHello, SessionFails
    <3>4. CASE (\E b \in Blocks : SourceWrite(b) \/ Writeback(b)) \/ UNCHANGED vars
      BY <3>4 DEF SourceWrite, Writeback, vars
    <3>5. QED
      BY <1>4, <3>1, <3>2, <3>3, <3>4
  <2>2. QED
    BY <2>1 DEF FrozenAtOneInstant, Request!Take
<1>5. QED
  BY <1>1, <1>2, <1>3, <1>4, <1>6 DEF Next, ReceiverStep, Fault

LEMMA KeepsRequestAlways ==
    Spec /\ []CheckpointInv /\ [][~(Applying /\ SessionFails)]_vars => KeepsRequest
<1>1. Init => Request!Init
  BY DEF Init, Request!Init
<1>2. TypeOK /\ InstantInv /\ FrozenAtOneInstant' /\ [Next]_vars => [Request!Next]_(Request!vars)
  BY KeepsRequestStep
<1>3. QED
  BY <1>1, <1>2, TypeCorrect, InstantAlways, FrozenAlways, PTL DEF Spec, KeepsRequest, Request!Spec

\* When contents do not recur, the disk implements ConsistentPass for the cutover that
\* waits for it, whatever passes, aborted sessions and restarts there are in between:
\* unless a session fails inside Apply.
THEOREM KeepsItsRequest ==
    ASSUME ~Recurring
    PROVE  Spec /\ [][~(Applying /\ SessionFails)]_vars => KeepsRequest
BY CheckpointAlways, KeepsRequestAlways, PTL

\* So it does whatever the source writes, as long as no pass is forgotten either.
THEOREM KeepsItsRequestUnlessForgotten ==
    Spec /\ [][~Forgets]_vars /\ [][~(Applying /\ SessionFails)]_vars => KeepsRequest
BY SettledAlways, KeepsRequestAlways, PTL
=============================================================================
